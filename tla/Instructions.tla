---------------------------- MODULE Instructions ----------------------------
(***************************************************************************)
(* The instructions the pipeline and its reference machine have in common: *)
(* one of each class that the control signals of control.rs tell apart.    *)
(* Every instruction word has rd, rs1 and rs2 bits, whatever its format;   *)
(* the hazard unit reads them even where they are part of an immediate.    *)
(***************************************************************************)
EXTENDS Integers

CONSTANTS
  RegCount,  \* registers, x0 included
  Modulus    \* words wrap at Modulus; code and data are indexed by words

ASSUME InstructionsAssumption ==
  RegCount \in Nat \ {0} /\ Modulus \in Nat \ {0}

RegIds == 0 .. RegCount - 1
Word   == 0 .. Modulus - 1
NoPc   == Modulus          \* not a code address
Plus(a, b) == (a + b) % Modulus

Ops == {"nop", "add", "addi", "lw", "sw", "beq", "jal", "jalr", "csrrw", "mret"}
Instr == [op : Ops, rd : RegIds, rs1 : RegIds, rs2 : RegIds, imm : Word]
Nop == [op |-> "nop", rd |-> 0, rs1 |-> 0, rs2 |-> 0, imm |-> 0]

(* The control signals: reg_write, mem_read, mem_write, branch and jump.   *)
IsLoad(i)         == i.op = "lw"
IsStore(i)        == i.op = "sw"
IsCsr(i)          == i.op = "csrrw"
IsTrapReturn(i)   == i.op = "mret"
IsBranch(i)       == i.op = "beq"
IsJump(i)         == i.op \in {"jal", "jalr"}
IsBranchOrJump(i) == IsBranch(i) \/ IsJump(i)
WritingOps       == {"add", "addi", "lw", "jal", "jalr", "csrrw"}
WritesReg(i)     == i.op \in WritingOps /\ i.rd # 0

(* Is the branch or jump i at pc taken, and to where, its operands being   *)
(* a and b?                                                                *)
Taken(i, a, b) == IsJump(i) \/ (IsBranch(i) /\ a = b)
TargetOf(i, pc, a) ==
  IF i.op = "jalr" THEN Plus(a, i.imm)
  ELSE IF i.op \in {"jal", "beq"} THEN Plus(pc, i.imm) ELSE 0
=============================================================================
