----------------------------- MODULE MCPatcher ------------------------------
(* Small instances of Patcher for TLC: a code region of CodeEnd bytes, all   *)
(* layouts of 16- and 32-bit instructions in it, and data behind it.         *)
EXTENDS Patcher

CONSTANTS CodeEnd, Sizes

Halfwords == {2 * i : i \in 0 .. CodeEnd \div 2}

\* No two neighbouring half-words lie inside an instruction.
Layouts ==
  {S \in SUBSET Halfwords :
     /\ {0, CodeEnd} \subseteq S
     /\ \A a \in Halfwords \ S : {a - 2, a + 2} \subseteq S}

MCFirmwares == [size : Sizes, starts : Layouts, align : {2, 4}]

MCCodeSize == [s \in Symbols |-> IF s \in Wrapped THEN 4 ELSE 2]

=============================================================================
