--------------------------- MODULE BranchEncoding ---------------------------
(***************************************************************************)
(* The wide Thumb-2 branch (encoding T4 of B) that Patcher.finalize of     *)
(* patch_tools.py pastes over the firmware, and what a processor makes of  *)
(* it.  An instruction is its two half-words.  The link bit is never set:  *)
(* wrap and inject queue no operation with link.                           *)
(***************************************************************************)
EXTENDS Integers

\* The bit of the given weight, 2^n, of an integer, negative ones in two's complement.
bit(x, weight) == (x \div weight) % 2

\* offset is (final_addr - op.address - 4) >> 1.
branch_offset(address, final_addr) == (final_addr - address - 4) \div 2

\* Mutant: j1 and j2 hold the bits themselves, as in the older encoding T2.
encode_plain_j(offset) ==
  LET s == IF offset > 0 THEN 0 ELSE 1
  IN  [hi |-> 61440 + s * 1024 + ((offset \div 2048) % 1024),
       lo |-> 36864 + bit(offset, 8388608) * 8192 + bit(offset, 4194304) * 2048
                + (offset % 2048)]

\* i1 and i2 are bits 23 and 22 of offset, j1 and j2 bits 13 and 11 of instr.
encode(offset) ==
  LET s == IF offset > 0 THEN 0 ELSE 1
      j1 == IF s # bit(offset, 8388608) THEN 0 ELSE 1
      j2 == IF s # bit(offset, 4194304) THEN 0 ELSE 1
      imm10 == (offset \div 2048) % 1024
      imm11 == offset % 2048
  IN  [hi |-> 61440 + s * 1024 + imm10,
       lo |-> 36864 + j1 * 8192 + j2 * 2048 + imm11]

\* The processor: the immediate is S:I1:I2:imm10:imm11, in half-words, sign
\* extended, where I1 is NOT(J1 XOR S) and I2 is NOT(J2 XOR S).
decode(instr) ==
  LET s == bit(instr.hi, 1024)
      i1 == IF bit(instr.lo, 8192) = s THEN 1 ELSE 0
      i2 == IF bit(instr.lo, 2048) = s THEN 1 ELSE 0
  IN  i1 * 4194304 + i2 * 2097152 + (instr.hi % 1024) * 2048 + (instr.lo % 2048)
        - s * 8388608

=============================================================================
