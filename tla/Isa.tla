-------------------------------- MODULE Isa --------------------------------
(***************************************************************************)
(* What the pipeline promises: a machine that executes one instruction at  *)
(* a time, in program order, as RV32I defines it.  Pipeline.tla is meant   *)
(* to implement it, MCPipeline.tla says for which programs it does.        *)
(***************************************************************************)
EXTENDS Instructions

CONSTANT Programs   \* the programs, functions from Word to Instr

VARIABLES program, regs, mem, csr, pc

vars == <<program, regs, mem, csr, pc>>

Init ==
  /\ program \in Programs
  /\ regs = [r \in RegIds |-> 0]
  /\ mem = [a \in Word |-> 0]
  /\ csr = 0
  /\ pc = 0

Current == program[pc]
Rs1 == regs[Current.rs1]
Rs2 == regs[Current.rs2]

(* What the current instruction leaves in its destination register.        *)
Result ==
  CASE Current.op = "add"  -> Plus(Rs1, Rs2)
    [] Current.op = "addi" -> Plus(Rs1, Current.imm)
    [] IsLoad(Current)     -> mem[Plus(Rs1, Current.imm)]
    [] IsCsr(Current)      -> csr
    [] OTHER               -> Plus(pc, 1)    \* the link of a jump

Step ==
  /\ regs' = IF WritesReg(Current)
               THEN [regs EXCEPT ![Current.rd] = Result] ELSE regs
  /\ mem' = IF IsStore(Current)
              THEN [mem EXCEPT ![Plus(Rs1, Current.imm)] = Rs2] ELSE mem
  /\ csr' = IF IsCsr(Current) THEN Rs1 ELSE csr
  /\ pc' = IF Taken(Current, Rs1, Rs2)
             THEN TargetOf(Current, pc, Rs1) ELSE Plus(pc, 1)
  /\ UNCHANGED program

Spec == Init /\ [][Step]_vars
=============================================================================
