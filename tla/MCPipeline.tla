----------------------------- MODULE MCPipeline -----------------------------
(***************************************************************************)
(* Programs for the pipeline.  Addresses, code and data wrap at Modulus, so*)
(* every program loops; the last instruction of most of them branches.     *)
(***************************************************************************)
EXTENDS Pipeline

I(op, rd, rs1, rs2, imm) == [op |-> op, rd |-> rd, rs1 |-> rs1, rs2 |-> rs2, imm |-> imm]

(* Five instructions, the first one making x1 differ from x0.              *)
Middle == {
  I("add", 2, 1, 1, 0), I("add", 1, 2, 1, 0), I("addi", 2, 1, 2, 3),
  I("lw", 2, 1, 0, 1), I("sw", 0, 2, 1, 0), I("csrrw", 2, 1, 0, 0),
  I("csrrw", 0, 2, 0, 0), I("beq", 0, 1, 2, 2), I("jal", 0, 0, 2, 2)}
Last == {
  I("beq", 0, 2, 1, 2), I("beq", 0, 2, 0, 3), I("jalr", 0, 2, 1, 0), I("add", 1, 1, 2, 0)}
Shaped == {[a \in Word |-> <<I("addi", 1, 1, 2, 1), s, t, u, v>>[a + 1]] :
             s \in Middle, t \in Middle, u \in Middle, v \in Last}

HazardFreePrograms == {p \in Shaped : HazardFree(p)}

LoadUsePrograms == {p \in Shaped : p[1] = I("lw", 2, 1, 0, 1)}

(* A main loop in words 0 to 3, the handler in words 4 to 7.               *)
MainParts == {
  <<I("addi", 1, 0, 0, 3), I("sw", 0, 1, 1, 0), I("beq", 0, 1, 0, 6), I("jal", 0, 0, 0, 5)>>,
  <<I("lw", 1, 0, 0, 2), Nop, I("beq", 0, 1, 0, 6), I("jal", 0, 1, 2, 6)>>,
  <<I("addi", 2, 0, 0, 4), I("csrrw", 1, 2, 0, 0), Nop, I("jalr", 0, 1, 1, 0)>>}
HandlerParts == {
  <<I("addi", 2, 0, 1, 1), I("sw", 0, 0, 2, 2), I("mret", 0, 0, 2, 0), Nop>>,
  <<I("lw", 2, 0, 0, 2), I("beq", 0, 1, 1, 1), I("mret", 0, 0, 2, 0), I("jal", 0, 0, 0, 1)>>}
TrapPrograms ==
  {[a \in Word |-> IF a < 4 THEN m[a + 1] ELSE h[a - 3]] : m \in MainParts, h \in HandlerParts}
=============================================================================
