------------------------------- MODULE Patcher ------------------------------
(***************************************************************************)
(* Patcher of patch_tools.py, as patch.py drives it: detours are queued by *)
(* wrap and inject, and finalize links the patch behind the firmware,      *)
(* pastes a branch at every detour and appends the linked code.            *)
(*                                                                         *)
(* An image is a function from file offsets to cells <<kind, symbol, n>>:  *)
(*   <<"fw", "", a>>    the byte that the stock firmware has at offset a   *)
(*   <<"byte", "", b>>  a byte of a pasted branch                          *)
(*   <<"code", s, i>>   byte i of what the compiler makes of s             *)
(*   <<"goto", s, a>>   one of the four bytes of a branch to address a     *)
(*   <<"pad", "", 0>>   padding                                            *)
(* gcc, ld and nm are external: they are modelled by where patch.ld makes  *)
(* ld put the code, one block after the other.                             *)
(***************************************************************************)
EXTENDS BranchEncoding, FiniteSets, Sequences

CONSTANTS
  Firmwares,        \* [size, starts, align]: image size, the offsets at which
                    \* instructions start, the alignment of the section .text
  Wrapped,          \* symbols of patch functions, passed to wrap
  Injected,         \* symbols passed to inject
  Returning,        \* those of them whose assembly branches back in the end
  code_size,        \* the bytes the compiler makes of each of them
  BOOTLOADER,       \* the hardware's values of BOOTLOADER_SIZE and of the
  FOOTER,           \* length of trailing_bin_content; both 0 on the emulator
  FLASH,            \* size of the microcontroller's flash
  PATCH_LENGTH      \* LENGTH of the memory region in patch.ld

Symbols == Wrapped \union Injected

ASSUME PatcherAssumption ==
  /\ \A fw \in Firmwares :
       /\ fw.size \in Nat /\ fw.starts \subseteq 0 .. fw.size - FOOTER
       \* a Thumb-2 instruction has two or four bytes
       /\ \A a \in fw.starts :
            /\ a % 2 = 0
            /\ (\E b \in fw.starts : a < b) => a + 2 \in fw.starts \/ a + 4 \in fw.starts
       /\ fw.align \in {2, 4}
  /\ code_size \in [Symbols -> Nat \ {0}]
  /\ \A s \in Symbols : code_size[s] % 2 = 0
  /\ Wrapped \intersect Injected = {} /\ Returning \subseteq Injected
  /\ BOOTLOADER \in Nat /\ BOOTLOADER % 4 = 0
  /\ FOOTER \in Nat /\ \A fw \in Firmwares : FOOTER <= fw.size
  /\ FLASH \in Nat /\ FLASH <= 1024 * 1024 /\ PATCH_LENGTH \in Nat

VARIABLES
  fw,           \* the firmware in use
  target,       \* "hardware" or "emulator"
  pc,           \* "queue", "compose", "relocate", "append", "written" or "failed"
  target_bin,   \* the image
  op_queue,     \* the queued operations
  patch_bin,    \* the linked patch: [cells, symtab]
  next_op,      \* index of the next operation in a loop over the queue
  out           \* what was written: {} or {image}

patcher_vars == <<fw, target, pc, target_bin, op_queue, patch_bin, next_op, out>>

\* Flash begins at 0x8000000, which no difference of addresses depends on.
BOOTLOADER_SIZE == IF target = "hardware" THEN BOOTLOADER ELSE 0
MICROCODE_OFFSET == BOOTLOADER_SIZE
MAX_IMAGE_SIZE == FLASH - BOOTLOADER_SIZE
footer_size == IF target = "hardware" THEN FOOTER ELSE 0

\* Images.
size(image) == Cardinality(DOMAIN image)
Append2(image, cells) ==
  [a \in 0 .. size(image) + Len(cells) - 1 |->
     IF a < size(image) THEN image[a] ELSE cells[a - size(image) + 1]]

FwCell(a) == <<"fw", "", a>>
FwCells(from, to) == [i \in 1 .. to - from |-> FwCell(from + i - 1)]
Code(s) == [i \in 1 .. code_size[s] |-> <<"code", s, i>>]

-----------------------------------------------------------------------------
(* The queue *)

PatchBranchOffset(address, symbol) == [op |-> "branch", address |-> address, symbol |-> symbol]
PatchDefineSymbol(name, address) == [op |-> "define", name |-> name, address |-> address]
PatchAppendAsm(symbol, content) == [op |-> "asm", symbol |-> symbol, content |-> content]

_q(ops) == op_queue' = op_queue \o ops

\* In assembly, a branch to s__return, to be resolved by the linker.
B_return(s) == [i \in 1 .. 4 |-> <<"goto", s, -1>>]

\* Mutant: 32-bit instructions are not taken care of.
end_of_four(addr) == addr + 4

\* match_symbol sets the marker END when the second half-word of the branch
\* falls into a 32-bit instruction, and wrap takes addr + 4 without it.
end_patch_addr(addr) == IF addr + 4 \notin fw.starts THEN addr + 6 ELSE addr + 4

\* The bytes of the detours queued so far.
Taken ==
  UNION {op_queue[k].address .. op_queue[k].address + 5 :
           k \in {k \in DOMAIN op_queue : op_queue[k].op = "branch"}}

\* patch.py detours each function once, in its code, and no two detours overlap.
Free(s, addr) ==
  /\ pc = "queue"
  /\ \A k \in DOMAIN op_queue : op_queue[k].op = "branch" => op_queue[k].symbol[1] # s
  /\ addr \in fw.starts /\ \E a \in fw.starts : addr + 6 <= a
  /\ addr .. addr + 5 \intersect Taken = {}

wrap(s, addr, passthru) ==
  /\ Free(s, addr)
  /\ LET return == end_patch_addr(addr) IN
       _q(<< PatchBranchOffset(addr, <<s, "">>),
             PatchDefineSymbol(<<s, "__return">>, MICROCODE_OFFSET + return) >>
          \o (IF passthru
              THEN << PatchAppendAsm(<<s, "__passthru">>,
                                     FwCells(addr, return) \o B_return(s)) >>
              ELSE << >>))
  /\ UNCHANGED <<fw, target, pc, target_bin, patch_bin, next_op, out>>

\* The assembly that patch.py passes.  It has the overwritten instructions in it;
\* render_wrap ends in a branch back, while graphics_draw_text_unshape is put at
\* the end of a function and returns to that function's caller itself.
proxy_asm(s) == Code(s) \o (IF s \in Returning THEN B_return(s) ELSE << >>)

\* Unlike wrap, inject has no marker END: the branch may cut the instruction at
\* addr + 2 in two, as it does at the end of graphics_draw_text.
inject(s, addr) ==
  /\ Free(s, addr)
  /\ _q(<< PatchBranchOffset(addr, <<s, "__proxy">>),
           PatchDefineSymbol(<<s, "__return">>, MICROCODE_OFFSET + addr + 4),
           PatchAppendAsm(<<s, "__proxy">>, proxy_asm(s)) >>)
  /\ UNCHANGED <<fw, target, pc, target_bin, patch_bin, next_op, out>>

-----------------------------------------------------------------------------
(* finalize *)

\* The linker's symbol table has the defined symbols too.
resolve(cell) ==
  IF cell[1] = "goto"
  THEN LET k == CHOOSE k \in DOMAIN op_queue :
                  op_queue[k].op = "define" /\ op_queue[k].name = <<cell[2], "__return">>
       IN  <<"goto", cell[2], op_queue[k].address>>
  ELSE cell

align_up(a, n) == ((a + n - 1) \div n) * n

\* ORIGIN is the end of the unpadded image; ld starts .text at the next address
\* that its alignment allows.
text_section == align_up(size(target_bin) + MICROCODE_OFFSET, fw.align)

\* The patch with one more block of code at its end.
linked(symbol, content) ==
  [cells |-> patch_bin.cells \o [i \in 1 .. Len(content) |-> resolve(content[i])],
   symtab |-> [s \in DOMAIN patch_bin.symtab \union {symbol} |->
                 IF s = symbol THEN text_section + Len(patch_bin.cells)
                               ELSE patch_bin.symtab[s]]]

finalize ==
  /\ pc = "queue" /\ op_queue # << >>
  /\ pc' = "compose" /\ next_op' = 1
  /\ UNCHANGED <<fw, target, target_bin, op_queue, patch_bin, out>>

\* What is linked: the assembly in queue order...
ComposeAsm ==
  /\ pc = "compose" /\ next_op <= Len(op_queue)
  /\ patch_bin' = LET op == op_queue[next_op] IN
                  IF op.op = "asm" THEN linked(op.symbol, op.content) ELSE patch_bin
  /\ next_op' = next_op + 1
  /\ UNCHANGED <<fw, target, pc, target_bin, op_queue, out>>

\* ... then the compiled C, a section for each function.
Unlinked ==
  {s \in Wrapped : /\ \E k \in DOMAIN op_queue :
                        op_queue[k].op = "branch" /\ op_queue[k].symbol = <<s, "">>
                   /\ <<s, "">> \notin DOMAIN patch_bin.symtab}

CompileC(s) ==
  /\ pc = "compose" /\ next_op > Len(op_queue)
  /\ s \in Unlinked
  /\ patch_bin' = linked(<<s, "">>, Code(s))
  /\ UNCHANGED <<fw, target, pc, target_bin, op_queue, next_op, out>>

Link ==
  /\ pc = "compose" /\ next_op > Len(op_queue) /\ Unlinked = {}
  /\ pc' = IF Len(patch_bin.cells) <= PATCH_LENGTH THEN "relocate" ELSE "failed"
  /\ next_op' = 1
  /\ UNCHANGED <<fw, target, target_bin, op_queue, patch_bin, out>>

branch_at(op) ==
  encode(branch_offset(op.address, patch_bin.symtab[op.symbol] - MICROCODE_OFFSET))

\* struct.pack("<HH", ...) over the four bytes at address.
paste(image, address, instr) ==
  LET b == << instr.hi % 256, instr.hi \div 256, instr.lo % 256, instr.lo \div 256 >>
  IN  [a \in DOMAIN image |->
         IF a \in address .. address + 3 THEN <<"byte", "", b[a - address + 1]>> ELSE image[a]]

Relocate ==
  /\ pc = "relocate" /\ next_op <= Len(op_queue)
  /\ target_bin' =
       LET op == op_queue[next_op] IN
       IF op.op = "branch" THEN paste(target_bin, op.address, branch_at(op)) ELSE target_bin
  /\ next_op' = next_op + 1
  /\ UNCHANGED <<fw, target, pc, op_queue, patch_bin, out>>

RelocateEnd ==
  /\ pc = "relocate" /\ next_op > Len(op_queue)
  /\ pc' = "append"
  /\ UNCHANGED <<fw, target, target_bin, op_queue, patch_bin, next_op, out>>

trailing_bin_content == FwCells(fw.size - footer_size, fw.size)

padded ==
  IF size(target_bin) % 2 = 1 THEN Append2(target_bin, << <<"pad", "", 0>> >>) ELSE target_bin

\* Mutant: the footer is not repeated at the end.
finished_bare == Append2(padded, patch_bin.cells)

finished == Append2(Append2(padded, patch_bin.cells), trailing_bin_content)

\* The image is written only after the assertion on its size.
AppendPatch ==
  /\ pc = "append"
  /\ target_bin' = finished
  /\ IF size(target_bin') <= MAX_IMAGE_SIZE
     THEN pc' = "written" /\ out' = {target_bin'}
     ELSE pc' = "failed" /\ UNCHANGED out
  /\ UNCHANGED <<fw, target, op_queue, patch_bin, next_op>>

PatcherInit ==
  /\ fw \in Firmwares
  /\ target \in {"hardware", "emulator"}
  /\ pc = "queue"
  /\ target_bin = [a \in 0 .. fw.size - 1 |-> FwCell(a)]
  /\ op_queue = << >>
  /\ patch_bin = [cells |-> << >>, symtab |-> << >>]
  /\ next_op = 1
  /\ out = {}

PatcherNext ==
  \/ \E s \in Wrapped, addr \in fw.starts, passthru \in BOOLEAN : wrap(s, addr, passthru)
  \/ \E s \in Injected, addr \in fw.starts : inject(s, addr)
  \/ finalize \/ ComposeAsm \/ (\E s \in Wrapped : CompileC(s)) \/ Link
  \/ Relocate \/ RelocateEnd \/ AppendPatch

PatcherSpec == PatcherInit /\ [][PatcherNext]_patcher_vars

-----------------------------------------------------------------------------
(* Properties *)

\* ld starts .text where finalize appends it.  This is always so for an alignment
\* of 2; with an alignment of 4 it depends on the size of the firmware.
Placed ==
  align_up(fw.size + MICROCODE_OFFSET, fw.align) = fw.size + (fw.size % 2) + MICROCODE_OFFSET

\* The four bytes at an address, as an instruction.
InstrAt(image, a) ==
  [hi |-> image[a][3] + 256 * image[a + 1][3], lo |-> image[a + 2][3] + 256 * image[a + 3][3]]

\* Where a processor goes from the branch at a.
Target(image, a) == a + 4 + 2 * decode(InstrAt(image, a))

IsBranch(image, a) == \A i \in a .. a + 3 : image[i][1] = "byte"

\* The cells from a on are the given ones.
CellsAt(image, a, cells) ==
  \A i \in DOMAIN cells : a + i - 1 \in DOMAIN image /\ image[a + i - 1] = cells[i]

\* In a written image every detour is a branch that leads to the code of its
\* symbol, which is there completely.
BranchesLand ==
  \A image \in out : Placed =>
    \A k \in DOMAIN op_queue :
      LET op == op_queue[k] IN
      op.op = "branch" =>
        /\ IsBranch(image, op.address)
        /\ CellsAt(image, Target(image, op.address), Code(op.symbol[1]))

\* What wrap overwrote is not lost: where the linker says s__passthru is, the
\* image has the whole instructions from the detour on, at least the four bytes of
\* the branch, and a branch to the instruction that followed them.
DetourComplete ==
  \A image \in out : Placed =>
    \A k \in DOMAIN op_queue :
      LET op == op_queue[k] IN
      op.op = "asm" /\ op.symbol[2] = "__passthru" =>
        LET at == patch_bin.symtab[op.symbol] - MICROCODE_OFFSET
            from == image[at][3]
        IN  \E to \in {a \in fw.starts : a >= from + 4} :
              /\ IsBranch(image, from)
              /\ CellsAt(image, at, FwCells(from, to)
                   \o [i \in 1 .. 4 |-> <<"goto", op.symbol[1], MICROCODE_OFFSET + to>>])

\* A written image fits into the flash behind the bootloader, has the stock
\* firmware at its old place but for the branches, and ends with the footer by
\* which the phone recognises a firmware.
RestOfImageKept ==
  \A image \in out :
    /\ size(image) + BOOTLOADER_SIZE <= FLASH
    /\ \A a \in 0 .. fw.size - 1 :
         image[a] = FwCell(a) \/ \E k \in DOMAIN op_queue :
           op_queue[k].op = "branch" /\ a \in op_queue[k].address .. op_queue[k].address + 3
    /\ CellsAt(image, size(image) - footer_size, trailing_bin_content)

=============================================================================
