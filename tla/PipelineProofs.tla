--------------------------- MODULE PipelineProofs ---------------------------
(***************************************************************************)
(* The pipeline for every register count, word size and program: its type  *)
(* correctness, the squashing of wrong paths with interrupts and trap      *)
(* returns, and, for programs free of the hazards it does not resolve,     *)
(* that it implements the machine of Isa.tla and how long it stalls.       *)
(***************************************************************************)
EXTENDS Pipeline, TLAPS

LEMMA WordFacts ==
  /\ 0 \in Word /\ 0 \in RegIds
  /\ \A a, b \in Word : Plus(a, b) \in Word
  /\ \A a \in Word : Plus(a, 1) \in Word
<1>1. \A a, b \in Nat : (a + b) % Modulus \in 0 .. Modulus - 1
  BY InstructionsAssumption, SMT
<1> QED
  BY <1>1, InstructionsAssumption, SMT DEF Word, RegIds, Plus

LEMMA NopIsInstr == Nop \in Instr
BY WordFacts DEF Nop, Instr, Ops

LEMMA NotTakenIsPrediction == NotTaken \in Prediction
BY DEF NotTaken, Prediction

(* The operands forwarded to EX and ID are words.                          *)
LEMMA ForwardedType ==
  ASSUME TypeOK, NEW r \in RegIds, NEW v \in Word
  PROVE  ToEx(r, v) \in Word /\ ToId(r, v) \in Word
BY DEF TypeOK, ToEx, ToId, ExMem, MemWb

LEMMA NewRegsType ==
  ASSUME TypeOK
  PROVE  NewRegs \in [RegIds -> Word] /\ NewRegs[0] = 0
<1>1. memwb.ins.rd \in RegIds /\ memwb.data \in Word
  BY DEF TypeOK, MemWb, Instr
<1>2. CASE memwb.valid /\ WritesReg(memwb.ins)
  <2>1. memwb.ins.rd # 0
    BY <1>2 DEF WritesReg
  <2>2. NewRegs = [regs EXCEPT ![memwb.ins.rd] = memwb.data]
    BY <1>2 DEF NewRegs
  <2> QED
    BY <1>1, <2>1, <2>2, WordFacts DEF TypeOK
<1>3. CASE ~(memwb.valid /\ WritesReg(memwb.ins))
  BY <1>3 DEF NewRegs, TypeOK
<1> QED
  BY <1>2, <1>3

LEMMA NewMemType ==
  ASSUME TypeOK
  PROVE  NewMem \in [Word -> Word]
BY DEF TypeOK, NewMem, ExMem

LEMMA NewMemWbType ==
  ASSUME TypeOK
  PROVE  NewMemWb \in MemWb
<1>1. exmem.ins \in Instr /\ exmem.alu \in Word /\ dlatch \in Word
  BY DEF TypeOK, ExMem
<1> QED
  BY <1>1, NopIsInstr, WordFacts DEF NewMemWb, MemWb

LEMMA AluType ==
  ASSUME NEW i \in Instr, NEW a \in Word, NEW b \in Word
  PROVE  Alu(i, a, b) \in Word
BY WordFacts DEF Alu, Instr

LEMMA NewExMemType ==
  ASSUME TypeOK
  PROVE  NewExMem \in ExMem
<1>1. /\ idex.pc \in Word /\ idex.ins \in Instr /\ idex.v1 \in Word
      /\ idex.v2 \in Word /\ idex.valid \in BOOLEAN /\ idex.replay \in BOOLEAN
      /\ csr \in Word
  BY DEF TypeOK, IdEx
<1>2. idex.ins.rs1 \in RegIds /\ idex.ins.rs2 \in RegIds
  BY <1>1 DEF Instr
<1> DEFINE a == ToEx(idex.ins.rs1, idex.v1)
           b == ToEx(idex.ins.rs2, idex.v2)
<1>3. a \in Word /\ b \in Word
  BY <1>1, <1>2, ForwardedType
<1>4. Alu(idex.ins, a, b) \in Word
  BY <1>1, <1>3, AluType
<1> HIDE DEF a, b
<1>5. NewExMem = [valid |-> ~ExBubble /\ ~TrapReturning, pc |-> idex.pc,
                  ins |-> IF ExBubble THEN Nop ELSE idex.ins,
                  alu |-> IF IsCsr(idex.ins) THEN csr
                          ELSE IF ExBubble THEN 0 ELSE Alu(idex.ins, a, b),
                  store |-> IF ExBubble THEN 0 ELSE b,
                  replay |-> idex.replay]
  BY DEF NewExMem, a, b
<1>6. /\ (IF ExBubble THEN Nop ELSE idex.ins) \in Instr
      /\ (IF IsCsr(idex.ins) THEN csr
          ELSE IF ExBubble THEN 0 ELSE Alu(idex.ins, a, b)) \in Word
      /\ (IF ExBubble THEN 0 ELSE b) \in Word
  BY <1>1, <1>3, <1>4, NopIsInstr, WordFacts
<1>7. (~ExBubble /\ ~TrapReturning) \in BOOLEAN
  OBVIOUS
<1> QED
  BY <1>1, <1>5, <1>6, <1>7, Zenon DEF ExMem

LEMMA NewDlatchType ==
  ASSUME TypeOK
  PROVE  NewDlatch \in Word
BY NewExMemType, NewMemType DEF NewDlatch, TypeOK, ExMem

LEMMA NewIdExType ==
  ASSUME TypeOK
  PROVE  NewIdEx \in IdEx
<1>1. ifid.pc \in Word /\ ifid.ins \in Instr
  BY DEF TypeOK, IfId
<1>2. /\ NewRegs[ifid.ins.rs1] \in Word
      /\ NewRegs[ifid.ins.rs2] \in Word
  BY <1>1, NewRegsType DEF Instr
<1>3. /\ (IF IdBubble THEN Nop ELSE ifid.ins) \in Instr
      /\ (IF IdBubble THEN 0 ELSE NewRegs[ifid.ins.rs1]) \in Word
      /\ (IF IdBubble THEN 0 ELSE NewRegs[ifid.ins.rs2]) \in Word
  BY <1>1, <1>2, NopIsInstr, WordFacts
<1>4. (~IdBubble) \in BOOLEAN /\ Stall \in BOOLEAN
  BY DEF Stall, LoadUse, IdExBranchHazard, ExMemLoadBranchHazard
<1> QED
  BY <1>1, <1>3, <1>4, Zenon DEF NewIdEx, IdEx

(* What ID resolves, and where fetching continues.                         *)
LEMMA ResolvedTargetType ==
  ASSUME TypeOK
  PROVE  ResolvedTarget \in Word /\ RedirectTo \in Word
<1>1. ifid.pc \in Word /\ ifid.ins \in Instr
  BY DEF TypeOK, IfId
<1>2. IdRs1 \in Word
  BY <1>1, NewRegsType, ForwardedType DEF IdRs1, Instr
<1>3. ResolvedTarget \in Word
  BY <1>1, <1>2, WordFacts DEF ResolvedTarget, TargetOf, Instr
<1> QED
  BY <1>1, <1>3, WordFacts DEF RedirectTo

LEMMA NewBtbType ==
  ASSUME TypeOK
  PROVE  NewBtb \in [Word -> Word \cup {NoPc}]
BY ResolvedTargetType DEF NewBtb, TypeOK, IfId

LEMMA FetchType ==
  ASSUME TypeOK, NEW p \in Predictions
  PROVE  /\ FetchNow \in Word /\ IfIdNow \in IfId
         /\ p \in Prediction /\ NextFetch(p) \in Word /\ NewIfId(p) \in IfId
<1>1. FetchNow \in Word
  BY DEF FetchNow, TypeOK
<1>2. IfIdNow \in IfId
  BY DEF IfIdNow, TypeOK, IfId
<1>3. p \in Prediction
  BY <1>1, NewBtbType, NotTakenIsPrediction DEF Predictions, Prediction
<1>4. NextFetch(p) \in Word
  BY <1>1, <1>3, ResolvedTargetType, WordFacts DEF NextFetch, Prediction
<1>5. program[FetchNow] \in Instr
  BY <1>1 DEF TypeOK
<1>6. (~Mispredicted) \in BOOLEAN
  OBVIOUS
<1>7. (IF Mispredicted THEN NotTaken ELSE p) \in Prediction
  BY <1>3, NotTakenIsPrediction
<1>8. NewIfId(p) \in IfId
  BY <1>1, <1>2, <1>5, <1>6, <1>7, Zenon DEF NewIfId, IfId
<1> QED
  BY <1>1, <1>2, <1>3, <1>4, <1>8

LEMMA CycleType ==
  ASSUME TypeOK, Cycle
  PROVE  TypeOK'
<1>1. program' \in [Word -> Instr] /\ mepc' \in Word
  BY DEF Cycle, TypeOK
<1>2. regs' \in [RegIds -> Word] /\ regs'[0] = 0
  BY NewRegsType DEF Cycle
<1>3. mem' \in [Word -> Word]
  BY NewMemType DEF Cycle
<1>4. csr' \in Word
  BY DEF Cycle, NewCsr, TypeOK, IdEx
<1>5. memwb' \in MemWb /\ exmem' \in ExMem /\ idex' \in IdEx
  BY NewMemWbType, NewExMemType, NewIdExType DEF Cycle
<1>6. dlatch' \in Word /\ btb' \in [Word -> Word \cup {NoPc}]
  BY NewDlatchType, NewBtbType DEF Cycle
<1>7. PICK p \in Predictions :
        /\ ifid' = NewIfId(p)
        /\ fetchPc' = IF Stall THEN FetchNow ELSE NextFetch(p)
  BY DEF Cycle
<1>8. ifid' \in IfId /\ fetchPc' \in Word
  BY <1>7, FetchType
<1>9. mie' \in BOOLEAN /\ mpie' \in BOOLEAN
  BY Zenon DEF Cycle, TypeOK
<1> QED
  BY <1>1, <1>2, <1>3, <1>4, <1>5, <1>6, <1>8, <1>9 DEF TypeOK

LEMMA TakeInterruptType ==
  ASSUME TypeOK, TakeInterrupt
  PROVE  TypeOK'
<1>1. /\ ifid' \in IfId /\ idex' \in IdEx /\ exmem' \in ExMem /\ memwb' \in MemWb
  BY DEF TakeInterrupt, TypeOK, IfId, IdEx, ExMem, MemWb
<1>2. fetchPc' \in Word /\ mepc' \in Word
  BY PipelineAssumption DEF TakeInterrupt, TypeOK
<1>3. mie' \in BOOLEAN /\ mpie' \in BOOLEAN
  BY Zenon DEF TakeInterrupt, SaveMie, TypeOK
<1> QED
  BY <1>1, <1>2, <1>3 DEF TakeInterrupt, TypeOK

LEMMA InitType ==
  ASSUME Init
  PROVE  TypeOK
<1>1. program \in [Word -> Instr] /\ mie \in BOOLEAN
  BY PipelineAssumption DEF Init
<1>2. ifid \in IfId /\ idex \in IdEx /\ exmem \in ExMem /\ memwb \in MemWb
  BY WordFacts, NopIsInstr, NotTakenIsPrediction
  DEF Init, IfId, IdEx, ExMem, MemWb
<1> QED
  BY <1>1, <1>2, WordFacts DEF Init, TypeOK

(* Every pipeline register and latch always holds what its stage can have  *)
(* latched, and x0 reads as zero, whatever is forwarded, stalled, flushed  *)
(* or interrupted (pipeline/mod.rs clock(), writeback.rs).                 *)
THEOREM PipelineTypeCorrect == Spec => []TypeOK
<1>1. Init => TypeOK
  BY InitType
<1>2. TypeOK /\ [Next]_vars => TypeOK'
  <2> SUFFICES ASSUME TypeOK, [Next]_vars PROVE TypeOK'
    OBVIOUS
  <2>1. CASE Cycle
    BY <2>1, CycleType
  <2>2. CASE TakeInterrupt
    BY <2>2, TakeInterruptType
  <2>3. CASE UNCHANGED vars
    BY <2>3 DEF vars, TypeOK
  <2> QED
    BY <2>1, <2>2, <2>3 DEF Next
<1> QED
  BY <1>1, <1>2, PTL DEF Spec

-----------------------------------------------------------------------------
(* What keeps the fetch path consistent: the fetch pc is where the         *)
(* prediction of the instruction in IF/ID leads, and only instructions     *)
(* that can transfer control have a BTB entry, so any other instruction is *)
(* followed by the next word although ID never checks its prediction.      *)
Transfers(i) == IsBranchOrJump(i) \/ IsTrapReturn(i)

FetchFollowsIfId ==
  ifid.valid =>
    /\ ifid.ins = program[ifid.pc]
    /\ fetchPc = IF ifid.pred.taken /\ ifid.pred.target # NoPc
                   THEN ifid.pred.target ELSE Plus(ifid.pc, 1)
    /\ ifid.pred.target # NoPc => Transfers(ifid.ins)

BtbHoldsTransfers == \A a \in Word : btb[a] # NoPc => Transfers(program[a])

PathInv == FetchFollowsIfId /\ BtbHoldsTransfers /\ InFlightFollowsProgram

LEMMA ResolvesTransfer ==
  ASSUME TypeOK, FetchFollowsIfId, Resolves
  PROVE  /\ ifid.valid /\ ~TrapReturning
         /\ ifid.ins = program[ifid.pc] /\ Transfers(ifid.ins)
BY DEF Resolves, IdBubble, IfIdNow, FetchFollowsIfId, Transfers, TypeOK, IfId

LEMMA NewBtbHoldsTransfers ==
  ASSUME TypeOK, FetchFollowsIfId, BtbHoldsTransfers, NEW a \in Word,
         NewBtb[a] # NoPc
  PROVE  Transfers(program[a])
<1>1. CASE Resolves /\ a = ifid.pc
  BY <1>1, ResolvesTransfer
<1>2. CASE ~(Resolves /\ a = ifid.pc)
  <2>1. NewBtb[a] = btb[a]
    BY <1>2 DEF NewBtb, TypeOK
  <2> QED
    BY <2>1 DEF BtbHoldsTransfers
<1> QED
  BY <1>1, <1>2

(* The instruction fetched behind one that ID lets go on unsquashed is a   *)
(* successor of it.                                                        *)
LEMMA UnsquashedFollows ==
  ASSUME TypeOK, FetchFollowsIfId, ~IdBubble, ~Stall, ~Mispredicted,
         ~IsTrapReturn(ifid.ins)
  PROVE  FetchNow \in Successors(program, ifid.pc)
<1>1. ifid.valid /\ FetchNow = fetchPc
  BY DEF IdBubble, IfIdNow, FetchNow, TypeOK, IfId
<1>2. /\ ifid.ins = program[ifid.pc]
      /\ fetchPc = IF ifid.pred.taken /\ ifid.pred.target # NoPc
                     THEN ifid.pred.target ELSE Plus(ifid.pc, 1)
      /\ ifid.pred.target # NoPc => Transfers(ifid.ins)
  BY <1>1 DEF FetchFollowsIfId
<1>3. fetchPc \in Word /\ ResolvedTarget \in Word
  BY ResolvedTargetType DEF TypeOK
<1>4. CASE ~IsBranchOrJump(ifid.ins)
  <2>1. fetchPc = Plus(ifid.pc, 1)
    BY <1>2, <1>4 DEF Transfers
  <2> QED
    BY <1>1, <1>2, <1>4, <2>1 DEF Successors, IsBranchOrJump, IsBranch, IsJump
<1>5. CASE IsBranchOrJump(ifid.ins)
  <2>1. Resolves
    BY <1>5 DEF Resolves
  <2>2. /\ ifid.pred.taken = ResolvedTaken
        /\ ResolvedTaken => ifid.pred.target = ResolvedTarget
    BY <2>1 DEF Mispredicted
  <2>3. CASE ResolvedTaken
    <3>1. fetchPc = ResolvedTarget
      BY <1>2, <1>3, <2>2, <2>3 DEF NoPc, Word
    <3> QED
      BY <1>1, <1>2, <1>3, <1>5, <3>1
      DEF Successors, ResolvedTarget, TargetOf, IsBranchOrJump, IsBranch, IsJump
  <2>4. CASE ~ResolvedTaken
    <3>1. fetchPc = Plus(ifid.pc, 1)
      BY <1>2, <2>2, <2>4
    <3>2. IsBranch(ifid.ins)
      BY <1>5, <2>4 DEF ResolvedTaken, Taken, IsBranchOrJump
    <3> QED
      BY <1>1, <1>2, <3>1, <3>2 DEF Successors, IsBranch
  <2> QED
    BY <2>3, <2>4
<1> QED
  BY <1>4, <1>5

LEMMA CyclePath ==
  ASSUME TypeOK, PathInv, Cycle
  PROVE  PathInv'
<1> USE DEF PathInv
<1>1. PICK p \in Predictions :
        /\ ifid' = NewIfId(p)
        /\ fetchPc' = IF Stall THEN FetchNow ELSE NextFetch(p)
  BY DEF Cycle
<1>2. program' = program /\ btb' = NewBtb /\ idex' = NewIdEx /\ exmem' = NewExMem
  BY DEF Cycle
<1>3. BtbHoldsTransfers'
  BY <1>2, NewBtbHoldsTransfers DEF BtbHoldsTransfers
<1>4. FetchFollowsIfId'
  <2>1. CASE Stall
    <3>1. ifid' = IfIdNow /\ fetchPc' = FetchNow
      BY <1>1, <2>1 DEF NewIfId
    <3> QED
      BY <1>2, <3>1 DEF FetchFollowsIfId, IfIdNow, FetchNow, TypeOK, IfId
  <2>2. CASE ~Stall /\ Mispredicted
    <3>1. ~ifid'.valid
      BY <1>1, <2>2 DEF NewIfId
    <3> QED
      BY <3>1 DEF FetchFollowsIfId
  <2>3. CASE ~Stall /\ ~Mispredicted
    <3>1. /\ ifid'.pc = FetchNow /\ ifid'.ins = program[FetchNow]
          /\ ifid'.pred = p
      BY <1>1, <2>3 DEF NewIfId
    <3>2. fetchPc' = IF p.taken /\ p.target # NoPc THEN p.target
                     ELSE Plus(FetchNow, 1)
      BY <1>1, <2>3 DEF NextFetch
    <3>3. p.target # NoPc => p.target = NewBtb[FetchNow]
      <4>1. CASE p = NotTaken
        BY <4>1 DEF NotTaken
      <4>2. CASE p \in [taken : {TRUE}, target : {NewBtb[FetchNow], NoPc}]
        BY <4>2
      <4> QED
        BY <4>1, <4>2 DEF Predictions
    <3>4. p.target # NoPc => Transfers(program[FetchNow])
      BY <3>3, FetchType, NewBtbHoldsTransfers
    <3> QED
      BY <1>2, <3>1, <3>2, <3>4 DEF FetchFollowsIfId
  <2> QED
    BY <2>1, <2>2, <2>3
<1>5. InFlightFollowsProgram'
  <2>1. ASSUME exmem'.valid, idex'.valid, ~exmem'.replay
        PROVE  idex'.pc \in Successors(program, exmem'.pc)
    <3>1. idex.valid /\ ~TrapReturning /\ ~idex.replay /\ exmem'.pc = idex.pc
      BY <1>2, <2>1 DEF NewExMem, ExBubble
    <3>2. ifid.valid /\ idex'.pc = ifid.pc
      BY <1>2, <2>1, <3>1 DEF NewIdEx, IdBubble, IfIdNow
    <3> QED
      BY <3>1, <3>2 DEF InFlightFollowsProgram, TrapReturning
  <2>2. ASSUME idex'.valid, ifid'.valid, ~idex'.replay, ~IsTrapReturn(idex'.ins)
        PROVE  ifid'.pc \in Successors(program, idex'.pc)
    <3>1. ~IdBubble /\ ~Stall /\ idex'.pc = ifid.pc /\ idex'.ins = ifid.ins
      BY <1>2, <2>2 DEF NewIdEx
    <3>2. ~Mispredicted /\ ifid'.pc = FetchNow
      BY <1>1, <2>2, <3>1 DEF NewIfId
    <3> QED
      BY <2>2, <3>1, <3>2, UnsquashedFollows
  <2>3. \A a : Successors(program', a) = Successors(program, a)
    BY <1>2 DEF Successors
  <2> QED
    BY <1>2, <2>1, <2>2, <2>3 DEF InFlightFollowsProgram
<1> QED
  BY <1>3, <1>4, <1>5

LEMMA TakeInterruptPath ==
  ASSUME TypeOK, PathInv, TakeInterrupt
  PROVE  PathInv'
<1>1. ~ifid'.valid /\ ~idex'.valid /\ program' = program /\ btb' = btb
  BY DEF TakeInterrupt, TypeOK, IfId, IdEx
<1> QED
  BY <1>1 DEF PathInv, FetchFollowsIfId, BtbHoldsTransfers, InFlightFollowsProgram

(* Valid instructions in adjacent stages follow each other in the program, *)
(* for every program, prediction and moment of interruption: nothing from  *)
(* a wrong path is ever executed next to the path that replaced it         *)
(* (clock() step 3, execute_trap_return(), flush_pipeline()).              *)
THEOREM WrongPathSquashed == Spec => []InFlightFollowsProgram
<1>1. Init => PathInv
  BY DEF Init, PathInv, FetchFollowsIfId, BtbHoldsTransfers, InFlightFollowsProgram
<1>2. TypeOK /\ PathInv /\ [Next]_vars => PathInv'
  <2> SUFFICES ASSUME TypeOK, PathInv, [Next]_vars PROVE PathInv'
    OBVIOUS
  <2>1. CASE Cycle
    BY <2>1, CyclePath
  <2>2. CASE TakeInterrupt
    BY <2>2, TakeInterruptPath
  <2>3. CASE UNCHANGED vars
    BY <2>3 DEF vars, PathInv, FetchFollowsIfId, BtbHoldsTransfers,
      InFlightFollowsProgram, Successors
  <2> QED
    BY <2>1, <2>2, <2>3 DEF Next
<1>3. PathInv => InFlightFollowsProgram
  BY DEF PathInv
<1> QED
  BY <1>1, <1>2, <1>3, PipelineTypeCorrect, PTL DEF Spec
-----------------------------------------------------------------------------
(* The pipeline as an implementation of the reference machine, for programs*)
(* without the hazards that it does not resolve, and without interrupts.   *)

Undisturbed == (\A p \in Programs : HazardFree(p)) /\ ~Interrupts

(* The instruction in EX/MEM, or in ID/EX, is one of the program's and not *)
(* the copy of a branch that is still being decoded.                       *)
Executed == exmem.valid /\ ~exmem.replay
Decoded  == idex.valid /\ ~idex.replay

(* Where the program goes on behind ID/EX, and behind EX/MEM.              *)
NextToDecode  == IF ifid.valid THEN ifid.pc ELSE fetchPc
NextToExecute == IF Decoded THEN idex.pc ELSE NextToDecode

(* The word the machine executes after instruction i at pc, with r its     *)
(* registers before i.                                                     *)
After(i, pc, r) ==
  IF Taken(i, r[i.rs1], r[i.rs2]) THEN TargetOf(i, pc, r[i.rs1]) ELSE Plus(pc, 1)

(* NewRegs are the registers before the instruction in EX/MEM; these are   *)
(* the ones behind it.                                                     *)
MemData == IF IsLoad(exmem.ins) THEN dlatch ELSE exmem.alu
RegsBehind ==
  IF exmem.valid /\ WritesReg(exmem.ins)
    THEN [NewRegs EXCEPT ![exmem.ins.rd] = MemData] ELSE NewRegs

(* An empty stage holds Nop; a stage that is not empty holds what its pc   *)
(* says; only branches and jumps are ever latched twice or followed by a   *)
(* squashed instruction.                                                   *)
Bubbles ==
  /\ ~idex.valid => idex.ins = Nop
  /\ ~exmem.valid => exmem.ins = Nop
  /\ ~memwb.valid => memwb.ins = Nop
Copies ==
  /\ idex.valid => idex.ins = program[idex.pc]
  /\ exmem.valid => exmem.ins = program[exmem.pc]
  /\ idex.valid /\ idex.replay => IsBranchOrJump(idex.ins)
  /\ exmem.valid /\ exmem.replay => IsBranchOrJump(exmem.ins)
  /\ ~ifid.valid /\ idex.valid => IsBranchOrJump(idex.ins)

(* Each instruction is followed by the one the machine executes next ...   *)
Paths ==
  /\ Decoded => NextToDecode = After(idex.ins, idex.pc, RegsBehind)
  /\ Executed => NextToExecute = After(exmem.ins, exmem.pc, NewRegs)

(* ... and has, once executed, the machine's operands in its result.       *)
ComputingOps == {"add", "addi", "lw", "sw"}
Operands ==
  /\ idex.valid => idex.v1 = regs[idex.ins.rs1] /\ idex.v2 = regs[idex.ins.rs2]
  /\ Executed =>
       /\ exmem.ins.op \in ComputingOps =>
            exmem.alu = Alu(exmem.ins, NewRegs[exmem.ins.rs1], NewRegs[exmem.ins.rs2])
       /\ exmem.store = NewRegs[exmem.ins.rs2]
       /\ IsLoad(exmem.ins) => dlatch = mem[exmem.alu]
       /\ IsCsr(exmem.ins) => csr = NewRegs[exmem.ins.rs1]

(* What is written back is followed by what is executed next: MEM/WB has no*)
(* pc, but the CSR instruction two behind it must be known not to need it. *)
Retired ==
  memwb.valid /\ WritesReg(memwb.ins) =>
    \E a \in Word : program[a] = memwb.ins /\ Apc \in Successors(program, a)

IsaInv ==
  /\ TypeOK /\ FetchFollowsIfId /\ BtbHoldsTransfers /\ program \in Programs
  /\ Bubbles /\ Copies /\ Paths /\ Operands /\ Retired

LEMMA ProgramIsHazardFree ==
  ASSUME Undisturbed, IsaInv, NEW a \in Word
  PROVE  /\ program[a] \in Instr
         /\ ~IsTrapReturn(program[a])
         /\ IsJump(program[a]) => program[a].rd = 0
         /\ IsLoad(program[a]) /\ WritesReg(program[a]) =>
              ~Reads(program[Plus(a, 1)], program[a].rd)
         /\ WritesReg(program[a]) =>
              \A b \in Successors(program, a) : \A c \in Successors(program, b) \cup {b} :
                IsCsr(program[c]) => program[c].rs1 # program[a].rd
<1>1. HazardFree(program)
  BY DEF Undisturbed, IsaInv
<1>2. program[a] \in Instr
  BY DEF IsaInv, TypeOK
<1> QED
  BY <1>1, <1>2, Zenon DEF HazardFree

LEMMA NopDoesNothing ==
  /\ ~IsLoad(Nop) /\ ~IsStore(Nop) /\ ~IsCsr(Nop) /\ ~IsTrapReturn(Nop)
  /\ ~IsBranchOrJump(Nop) /\ ~WritesReg(Nop)
BY DEF Nop, IsLoad, IsStore, IsCsr, IsTrapReturn, IsBranchOrJump, IsBranch, IsJump, WritesReg

(* The copies of branches and jumps write nothing, for the jumps do not    *)
(* link.                                                                   *)
LEMMA TransfersWriteNothing ==
  ASSUME Undisturbed, IsaInv, NEW a \in Word, IsBranchOrJump(program[a])
  PROVE  /\ ~WritesReg(program[a]) /\ ~IsLoad(program[a]) /\ ~IsStore(program[a])
         /\ ~IsCsr(program[a])
<1>1. IsJump(program[a]) => program[a].rd = 0
  BY ProgramIsHazardFree
<1> QED
  BY <1>1
  DEF IsBranchOrJump, IsBranch, IsJump, WritesReg, WritingOps, IsLoad, IsStore, IsCsr

LEMMA AfterPlain ==
  ASSUME NEW i, NEW pc, NEW r, ~IsBranchOrJump(i)
  PROVE  After(i, pc, r) = Plus(pc, 1)
BY DEF After, Taken, IsBranchOrJump

LEMMA AfterIsSuccessor ==
  ASSUME Undisturbed, IsaInv, NEW a \in Word, NEW r \in [RegIds -> Word]
  PROVE  After(program[a], a, r) \in Successors(program, a)
<1> DEFINE i == program[a]
<1>1. i \in Instr
  BY ProgramIsHazardFree
<1>2. r[i.rs1] \in Word /\ i.imm \in Word
  BY <1>1 DEF Instr
<1>3. CASE i.op = "jalr"
  BY <1>2, <1>3, WordFacts DEF After, Taken, TargetOf, Successors, IsJump, IsBranch
<1>4. CASE i.op # "jalr"
  BY <1>4 DEF After, Taken, TargetOf, Successors, IsJump, IsBranch
<1> QED
  BY <1>3, <1>4

(* Only a valid instruction returns from a trap, and none of the program   *)
(* does.                                                                   *)
LEMMA NeverReturning ==
  ASSUME Undisturbed, IsaInv
  PROVE  ~TrapReturning /\ IfIdNow = ifid /\ FetchNow = fetchPc
<1>1. idex.pc \in Word
  BY DEF IsaInv, TypeOK, IdEx
<1>2. ~TrapReturning
  BY <1>1, ProgramIsHazardFree, NopDoesNothing DEF TrapReturning, IsaInv, Bubbles, Copies
<1> QED
  BY <1>2 DEF IfIdNow, FetchNow

(* The load that stands behind its user in the program is never met.       *)
LEMMA NeverLoadUse ==
  ASSUME Undisturbed, IsaInv
  PROVE  ~LoadUse
<1> SUFFICES ASSUME IsLoad(idex.ins), WritesReg(idex.ins), Reads(ifid.ins, idex.ins.rd)
             PROVE  FALSE
  BY DEF LoadUse
<1>1. ~IsBranchOrJump(idex.ins)
  BY DEF IsLoad, IsBranchOrJump, IsBranch, IsJump
<1>2. idex.valid /\ Decoded /\ ifid.valid
  BY <1>1, NopDoesNothing DEF IsaInv, Bubbles, Copies, Decoded
<1>3. /\ idex.pc \in Word /\ idex.ins = program[idex.pc]
      /\ ifid.ins = program[ifid.pc]
  BY <1>2 DEF IsaInv, TypeOK, IdEx, Copies, FetchFollowsIfId
<1>4. ifid.pc = Plus(idex.pc, 1)
  BY <1>1, <1>2, AfterPlain DEF IsaInv, Paths, NextToDecode
<1> QED
  BY <1>3, <1>4, ProgramIsHazardFree

(* What the stages latch when nothing is dropped and nothing returns.      *)
LEMMA ToExMem ==
  ASSUME Undisturbed, IsaInv, Cycle
  PROVE  /\ exmem'.valid = idex.valid /\ exmem'.replay = idex.replay
         /\ exmem'.pc = idex.pc /\ exmem'.ins = idex.ins
         /\ IsCsr(idex.ins) => exmem'.alu = csr
         /\ idex.valid /\ ~IsCsr(idex.ins) =>
              exmem'.alu = Alu(idex.ins, ToEx(idex.ins.rs1, idex.v1),
                                         ToEx(idex.ins.rs2, idex.v2))
         /\ idex.valid => exmem'.store = ToEx(idex.ins.rs2, idex.v2)
<1>1. ExBubble <=> ~idex.valid
  BY NeverLoadUse DEF ExBubble
<1>2. ~TrapReturning
  BY NeverReturning
<1>3. idex.valid \in BOOLEAN /\ (~idex.valid => idex.ins = Nop)
  BY DEF IsaInv, TypeOK, IdEx, Bubbles
<1>4. exmem' = NewExMem
  BY DEF Cycle
<1> QED
  BY <1>1, <1>2, <1>3, <1>4 DEF NewExMem

LEMMA ToIdEx ==
  ASSUME Undisturbed, IsaInv, Cycle
  PROVE  /\ idex'.valid = ifid.valid /\ idex'.replay = Stall /\ idex'.pc = ifid.pc
         /\ idex'.ins = IF ifid.valid THEN ifid.ins ELSE Nop
         /\ ifid.valid => /\ idex'.v1 = regs'[ifid.ins.rs1]
                          /\ idex'.v2 = regs'[ifid.ins.rs2]
<1>1. IdBubble <=> ~ifid.valid
  BY NeverLoadUse, NeverReturning DEF IdBubble
<1>2. ifid.valid \in BOOLEAN
  BY DEF IsaInv, TypeOK, IfId
<1>3. idex' = NewIdEx /\ regs' = NewRegs
  BY DEF Cycle
<1> QED
  BY <1>1, <1>2, <1>3 DEF NewIdEx

LEMMA ToIfId ==
  ASSUME Undisturbed, IsaInv, Cycle
  PROVE  /\ Stall => ifid' = ifid /\ fetchPc' = fetchPc
         /\ ~Stall /\ Mispredicted => ~ifid'.valid /\ fetchPc' = RedirectTo
         /\ ~Stall /\ ~Mispredicted =>
              ifid'.valid /\ ifid'.pc = fetchPc /\ ifid'.ins = program[fetchPc]
<1>1. PICK p \in Predictions :
        /\ ifid' = NewIfId(p)
        /\ fetchPc' = IF Stall THEN FetchNow ELSE NextFetch(p)
  BY DEF Cycle
<1>2. IfIdNow = ifid /\ FetchNow = fetchPc
  BY NeverReturning
<1> QED
  BY <1>1, <1>2 DEF NewIfId, NextFetch

(* A branch that is still in ID is behind nothing it reads that is only    *)
(* computed later.                                                         *)
LEMMA NewRegsAt ==
  ASSUME TypeOK, Bubbles, NEW r \in RegIds
  PROVE  NewRegs[r] = IF WritesReg(memwb.ins) /\ memwb.ins.rd = r THEN memwb.data
                      ELSE regs[r]
<1>1. memwb.ins.rd \in RegIds /\ memwb.data \in Word /\ regs \in [RegIds -> Word]
  BY DEF TypeOK, MemWb, Instr
<1>2. ~memwb.valid => ~WritesReg(memwb.ins)
  BY NopDoesNothing DEF Bubbles
<1> QED
  BY <1>1, <1>2 DEF NewRegs

LEMMA RegsBehindAt ==
  ASSUME TypeOK, Bubbles, NEW r \in RegIds
  PROVE  RegsBehind[r] = IF WritesReg(exmem.ins) /\ exmem.ins.rd = r THEN MemData
                         ELSE NewRegs[r]
<1>1. exmem.ins.rd \in RegIds /\ NewRegs \in [RegIds -> Word]
  BY NewRegsType DEF TypeOK, ExMem, Instr
<1>2. ~exmem.valid => ~WritesReg(exmem.ins)
  BY NopDoesNothing DEF Bubbles
<1> QED
  BY <1>1, <1>2 DEF RegsBehind

(* The same of the state after a step.                                     *)
BehindInMem ==
  \A r \in RegIds :
    RegsBehind[r] = IF WritesReg(exmem.ins) /\ exmem.ins.rd = r THEN MemData
                    ELSE NewRegs[r]

LEMMA RegsBehindWell == TypeOK /\ Bubbles => BehindInMem
BY RegsBehindAt DEF BehindInMem

LEMMA RegsBehindNext == TypeOK' /\ Bubbles' => BehindInMem'
BY RegsBehindWell, PTL

LEMMA RegsBehindType ==
  ASSUME TypeOK
  PROVE  RegsBehind \in [RegIds -> Word]
<1>1. MemData \in Word /\ NewRegs \in [RegIds -> Word]
  BY NewRegsType DEF MemData, TypeOK, ExMem
<1> QED
  BY <1>1 DEF RegsBehind

(* The instruction that leaves EX/MEM is the one whose result the          *)
(* registers then show.                                                    *)
LEMMA RegsMove ==
  ASSUME IsaInv, Cycle
  PROVE  NewRegs' = RegsBehind
<1>1. regs' = NewRegs /\ memwb' = NewMemWb
  BY DEF Cycle
<1>2. CASE exmem.valid
  BY <1>1, <1>2 DEF NewMemWb, NewRegs, RegsBehind, MemData
<1>3. CASE ~exmem.valid
  <2>1. memwb'.valid = FALSE
    BY <1>1, <1>3 DEF NewMemWb
  <2> QED
    BY <1>1, <1>3, <2>1 DEF NewRegs, RegsBehind
<1> QED
  BY <1>2, <1>3

(* Forwarding to EX: the operand is the newest value, because the one that *)
(* is not computed yet, a load's, is never asked for.                      *)
LEMMA ForwardedToEx ==
  ASSUME Undisturbed, IsaInv, Decoded, NEW r \in RegIds, Reads(idex.ins, r)
  PROVE  ToEx(r, regs[r]) = RegsBehind[r]
<1>0. TypeOK /\ Bubbles
  BY DEF IsaInv
<1>1. ToEx(r, regs[r]) = IF WritesReg(exmem.ins) /\ exmem.ins.rd = r THEN exmem.alu
                         ELSE NewRegs[r]
  BY <1>0, NewRegsAt DEF ToEx
<1>2. CASE ~(WritesReg(exmem.ins) /\ exmem.ins.rd = r)
  BY <1>0, <1>1, <1>2, RegsBehindAt
<1>3. CASE WritesReg(exmem.ins) /\ exmem.ins.rd = r
  <2>1. exmem.valid /\ exmem.pc \in Word /\ exmem.ins = program[exmem.pc]
    BY <1>3, NopDoesNothing DEF IsaInv, Bubbles, Copies, TypeOK, ExMem
  <2>2. Executed
    BY <1>3, <2>1, TransfersWriteNothing DEF IsaInv, Copies, Executed
  <2>3. ~IsLoad(exmem.ins)
    <3> SUFFICES ASSUME IsLoad(exmem.ins) PROVE FALSE
      OBVIOUS
    <3>1. ~IsBranchOrJump(exmem.ins)
      BY DEF IsLoad, IsBranchOrJump, IsBranch, IsJump
    <3>2. idex.pc = Plus(exmem.pc, 1)
      BY <2>2, <3>1, AfterPlain DEF IsaInv, Paths, NextToExecute
    <3>3. idex.ins = program[idex.pc]
      BY DEF IsaInv, Copies, Decoded
    <3> QED
      BY <1>3, <2>1, <3>2, <3>3, ProgramIsHazardFree
  <2> QED
    BY <1>0, <1>1, <1>3, <2>3, RegsBehindAt DEF MemData
<1> QED
  BY <1>2, <1>3

(* Forwarding to ID: what is not computed yet stalls the branch.           *)
LEMMA ForwardedToId ==
  ASSUME IsaInv, IsBranchOrJump(ifid.ins), ~Stall, NEW r \in RegIds, Reads(ifid.ins, r)
  PROVE  /\ ToId(r, NewRegs[r]) = RegsBehind[r]
         /\ ~(WritesReg(idex.ins) /\ idex.ins.rd = r)
<1>0. TypeOK /\ Bubbles
  BY DEF IsaInv
<1>1. /\ ~(WritesReg(idex.ins) /\ idex.ins.rd = r)
      /\ ~(IsLoad(exmem.ins) /\ WritesReg(exmem.ins) /\ exmem.ins.rd = r)
  BY DEF Stall, IdExBranchHazard, ExMemLoadBranchHazard
<1>2. ToId(r, NewRegs[r]) =
        IF WritesReg(exmem.ins) /\ exmem.ins.rd = r THEN exmem.alu ELSE NewRegs[r]
  BY <1>0, <1>1, NewRegsAt DEF ToId
<1> QED
  BY <1>0, <1>1, <1>2, RegsBehindAt DEF MemData
-----------------------------------------------------------------------------
(* How a cycle keeps IsaInv.                                               *)

(* ID leaves fetching where the machine goes on, by checking the prediction*)
(* of a branch or jump and trusting that of any other instruction.         *)
LEMMA Resolution ==
  ASSUME Undisturbed, IsaInv, Cycle, ifid.valid, ~Stall
  PROVE  NextToDecode' = After(ifid.ins, ifid.pc, RegsBehind)
<1>1. /\ ifid.pc \in Word /\ ifid.ins = program[ifid.pc] /\ ifid.ins \in Instr
      /\ fetchPc = IF ifid.pred.taken /\ ifid.pred.target # NoPc
                     THEN ifid.pred.target ELSE Plus(ifid.pc, 1)
      /\ ifid.pred.target # NoPc => Transfers(ifid.ins)
  BY DEF IsaInv, TypeOK, IfId, FetchFollowsIfId
<1>2. ~IsTrapReturn(ifid.ins)
  BY <1>1, ProgramIsHazardFree
<1>3. CASE ~IsBranchOrJump(ifid.ins)
  <2>1. ~Mispredicted
    BY <1>2, <1>3 DEF Mispredicted, Resolves
  <2>2. NextToDecode' = fetchPc
    BY <2>1, ToIfId DEF NextToDecode
  <2>3. fetchPc = Plus(ifid.pc, 1)
    BY <1>1, <1>2, <1>3 DEF Transfers
  <2> QED
    BY <1>3, <2>2, <2>3, AfterPlain
<1>4. CASE IsBranchOrJump(ifid.ins)
  <2>1. ifid.ins.rs1 \in RegIds /\ ifid.ins.rs2 \in RegIds
    BY <1>1 DEF Instr
  <2>2. IdRs1 = RegsBehind[ifid.ins.rs1] /\ IdRs2 = RegsBehind[ifid.ins.rs2]
    BY <1>4, <2>1, ForwardedToId DEF IdRs1, IdRs2, Reads
  <2>3. After(ifid.ins, ifid.pc, RegsBehind) = RedirectTo
    BY <2>2 DEF After, RedirectTo, ResolvedTaken, ResolvedTarget
  <2>4. CASE Mispredicted
    BY <2>3, <2>4, ToIfId DEF NextToDecode
  <2>5. CASE ~Mispredicted
    <3>1. NextToDecode' = fetchPc
      BY <2>5, ToIfId DEF NextToDecode
    <3>2. Resolves
      BY <1>4, NeverLoadUse, NeverReturning DEF Resolves, IdBubble
    <3>3. /\ ifid.pred.taken = ResolvedTaken
          /\ ResolvedTaken => ifid.pred.target = ResolvedTarget
      BY <2>5, <3>2 DEF Mispredicted
    <3>4. ResolvedTarget # NoPc
      BY ResolvedTargetType, InstructionsAssumption DEF IsaInv, NoPc, Word
    <3>5. CASE ResolvedTaken
      BY <1>1, <2>3, <3>1, <3>3, <3>4, <3>5 DEF RedirectTo
    <3>6. CASE ~ResolvedTaken
      BY <1>1, <2>3, <3>1, <3>3, <3>6 DEF RedirectTo
    <3> QED
      BY <3>5, <3>6
  <2> QED
    BY <2>4, <2>5
<1> QED
  BY <1>3, <1>4

(* The places in the program move up by one stage, stalled or not.         *)
LEMMA PathMoves ==
  ASSUME Undisturbed, IsaInv, Cycle
  PROVE  /\ Executed' = Decoded
         /\ NextToExecute' = NextToDecode
         /\ Apc' = NextToExecute
<1>1. /\ idex.valid \in BOOLEAN /\ idex.replay \in BOOLEAN /\ ifid.valid \in BOOLEAN
  BY DEF IsaInv, TypeOK, IdEx, IfId
<1>2. Executed' = Decoded
  BY <1>1, ToExMem DEF Executed, Decoded
<1>3. Decoded' <=> ifid.valid /\ ~Stall
  BY ToIdEx DEF Decoded
<1>4. NextToExecute' = NextToDecode
  <2>1. CASE ifid.valid /\ ~Stall
    BY <1>3, <2>1, ToIdEx DEF NextToExecute, NextToDecode
  <2>2. CASE Stall
    BY <1>3, <2>2, ToIfId DEF NextToExecute, NextToDecode
  <2>3. CASE ~ifid.valid /\ ~Stall
    <3>1. ~Mispredicted
      BY <2>3, NeverReturning DEF Mispredicted, Resolves, IdBubble
    <3> QED
      BY <1>3, <2>3, <3>1, ToIfId DEF NextToExecute, NextToDecode
  <2> QED
    BY <2>1, <2>2, <2>3
<1>5. Apc' = NextToExecute
  <2>1. Apc' = IF Executed' THEN exmem'.pc ELSE NextToExecute'
    BY DEF Apc, Executed, NextToExecute, Decoded, NextToDecode
  <2> QED
    BY <1>2, <1>4, <2>1, ToExMem DEF NextToExecute
<1> QED
  BY <1>2, <1>4, <1>5

LEMMA BubblesKept ==
  ASSUME Undisturbed, IsaInv, Cycle
  PROVE  Bubbles'
<1>1. ~memwb'.valid => memwb'.ins = Nop
  BY DEF Cycle, NewMemWb
<1>2. ~exmem'.valid => exmem'.ins = Nop
  BY ToExMem DEF IsaInv, Bubbles
<1>3. ~idex'.valid => idex'.ins = Nop
  BY ToIdEx
<1> QED
  BY <1>1, <1>2, <1>3 DEF Bubbles

LEMMA CopiesKept ==
  ASSUME Undisturbed, IsaInv, Cycle
  PROVE  Copies'
<1>1. program' = program
  BY DEF Cycle
<1>2. ifid.valid => ifid.ins = program[ifid.pc]
  BY DEF IsaInv, FetchFollowsIfId
<1>3. idex'.valid /\ idex'.replay => IsBranchOrJump(idex'.ins)
  BY ToIdEx, NeverLoadUse DEF Stall, IdExBranchHazard, ExMemLoadBranchHazard
<1>4. ~ifid'.valid /\ idex'.valid => IsBranchOrJump(idex'.ins)
  <2> SUFFICES ASSUME ~ifid'.valid, idex'.valid PROVE IsBranchOrJump(idex'.ins)
    OBVIOUS
  <2>1. ifid.valid /\ idex'.ins = ifid.ins
    BY ToIdEx
  <2>2. Mispredicted
    BY <2>1, ToIfId
  <2>3. ~IsTrapReturn(ifid.ins)
    BY <1>2, <2>1, ProgramIsHazardFree DEF IsaInv, TypeOK, IfId
  <2> QED
    BY <2>1, <2>2, <2>3 DEF Mispredicted, Resolves
<1> QED
  BY <1>1, <1>2, <1>3, <1>4, ToExMem, ToIdEx DEF IsaInv, Copies

LEMMA PathsKept ==
  ASSUME Undisturbed, IsaInv, TypeOK', Bubbles', Cycle
  PROVE  Paths'
<1>1. Executed' => NextToExecute' = After(exmem'.ins, exmem'.pc, NewRegs')
  BY PathMoves, ToExMem, RegsMove DEF IsaInv, Paths
<1>2. ASSUME Decoded'
      PROVE  NextToDecode' = After(idex'.ins, idex'.pc, RegsBehind')
  <2>1. ifid.valid /\ ~Stall /\ idex'.ins = ifid.ins /\ idex'.pc = ifid.pc
    BY <1>2, ToIdEx DEF Decoded
  <2>2. NextToDecode' = After(ifid.ins, ifid.pc, RegsBehind)
    BY <2>1, Resolution
  <2>3. CASE ~IsBranchOrJump(ifid.ins)
    BY <2>1, <2>2, <2>3, AfterPlain
  <2>4. CASE IsBranchOrJump(ifid.ins)
    <3>1. ASSUME NEW r \in RegIds, Reads(ifid.ins, r)
          PROVE  RegsBehind'[r] = RegsBehind[r]
      <4>1. ~(WritesReg(idex.ins) /\ idex.ins.rd = r)
        BY <2>1, <2>4, <3>1, ForwardedToId
      <4>2. RegsBehind'[r] = IF WritesReg(exmem'.ins) /\ exmem'.ins.rd = r
                             THEN MemData' ELSE NewRegs'[r]
        BY <3>1, RegsBehindNext DEF BehindInMem
      <4> QED
        BY <4>1, <4>2, ToExMem, RegsMove
    <3>2. ifid.ins.rs1 \in RegIds /\ ifid.ins.rs2 \in RegIds
      BY DEF IsaInv, TypeOK, IfId, Instr
    <3> QED
      BY <2>1, <2>2, <3>1, <3>2 DEF After, Reads
  <2> QED
    BY <2>3, <2>4
<1> QED
  BY <1>1, <1>2 DEF Paths

(* The instruction behind the executed one is a successor of it.           *)
LEMMA ExecutedLeadsOn ==
  ASSUME Undisturbed, IsaInv, Executed
  PROVE  /\ exmem.pc \in Word /\ exmem.ins = program[exmem.pc]
         /\ NextToExecute \in Successors(program, exmem.pc)
<1>1. exmem.pc \in Word /\ exmem.ins = program[exmem.pc]
  BY DEF IsaInv, TypeOK, ExMem, Copies, Executed
<1>2. NewRegs \in [RegIds -> Word]
  BY NewRegsType DEF IsaInv
<1>3. NextToExecute = After(program[exmem.pc], exmem.pc, NewRegs)
  BY <1>1 DEF IsaInv, Paths
<1> QED
  BY <1>1, <1>2, <1>3, AfterIsSuccessor

(* What writes a register is executed, not the copy of a branch.           *)
LEMMA WritersAreExecuted ==
  ASSUME Undisturbed, IsaInv, WritesReg(exmem.ins)
  PROVE  Executed
<1>1. exmem.valid /\ exmem.pc \in Word /\ exmem.ins = program[exmem.pc]
  BY NopDoesNothing DEF IsaInv, Bubbles, Copies, TypeOK, ExMem
<1> QED
  BY <1>1, TransfersWriteNothing DEF IsaInv, Copies, Executed

(* A CSR instruction takes its operand from the registers as they are: no  *)
(* result it needs is still under way.                                     *)
LEMMA CsrOperand ==
  ASSUME Undisturbed, IsaInv, Decoded, IsCsr(idex.ins)
  PROVE  RegsBehind[idex.ins.rs1] = regs[idex.ins.rs1]
<1> DEFINE r == idex.ins.rs1
<1>1. /\ idex.pc \in Word /\ idex.ins = program[idex.pc] /\ r \in RegIds
      /\ NextToExecute = idex.pc /\ TypeOK /\ Bubbles
  BY DEF IsaInv, TypeOK, IdEx, Instr, Copies, Decoded, NextToExecute
<1>2. ~(WritesReg(exmem.ins) /\ exmem.ins.rd = r)
  <2> SUFFICES ASSUME WritesReg(exmem.ins), exmem.ins.rd = r PROVE FALSE
    OBVIOUS
  <2>1. /\ exmem.pc \in Word /\ exmem.ins = program[exmem.pc]
        /\ idex.pc \in Successors(program, exmem.pc)
    BY <1>1, WritersAreExecuted, ExecutedLeadsOn
  <2> QED
    BY <1>1, <2>1, ProgramIsHazardFree
<1>3. ~(WritesReg(memwb.ins) /\ memwb.ins.rd = r)
  <2> SUFFICES ASSUME WritesReg(memwb.ins), memwb.ins.rd = r PROVE FALSE
    OBVIOUS
  <2>1. memwb.valid
    BY NopDoesNothing DEF IsaInv, Bubbles
  <2>2. PICK a \in Word : program[a] = memwb.ins /\ Apc \in Successors(program, a)
    BY <2>1 DEF IsaInv, Retired
  <2>3. idex.pc \in Successors(program, Apc) \cup {Apc}
    <3>1. CASE Executed
      BY <1>1, <3>1, ExecutedLeadsOn DEF Apc, Executed
    <3>2. CASE ~Executed
      BY <3>2 DEF Apc, Executed, Decoded
    <3> QED
      BY <3>1, <3>2
  <2> QED
    BY <1>1, <2>2, <2>3, ProgramIsHazardFree
<1> QED
  BY <1>1, <1>2, <1>3, RegsBehindAt, NewRegsAt

LEMMA OperandsKept ==
  ASSUME Undisturbed, IsaInv, Cycle
  PROVE  Operands'
<1>1. idex'.valid => /\ idex'.v1 = regs'[idex'.ins.rs1]
                     /\ idex'.v2 = regs'[idex'.ins.rs2]
  BY ToIdEx
<1>2. ASSUME Executed'
      PROVE  /\ exmem'.ins.op \in ComputingOps =>
                  exmem'.alu = Alu(exmem'.ins, NewRegs'[exmem'.ins.rs1],
                                               NewRegs'[exmem'.ins.rs2])
             /\ exmem'.store = NewRegs'[exmem'.ins.rs2]
             /\ IsLoad(exmem'.ins) => dlatch' = mem'[exmem'.alu]
             /\ IsCsr(exmem'.ins) => csr' = NewRegs'[exmem'.ins.rs1]
  <2>1. Decoded /\ exmem'.ins = idex.ins /\ idex.valid /\ exmem'.valid
    BY <1>2, PathMoves, ToExMem DEF Decoded, Executed
  <2>2. /\ idex.ins.rs1 \in RegIds /\ idex.ins.rs2 \in RegIds
        /\ idex.v1 = regs[idex.ins.rs1] /\ idex.v2 = regs[idex.ins.rs2]
    BY <2>1 DEF IsaInv, Operands, TypeOK, IdEx, Instr
  <2>3. /\ ToEx(idex.ins.rs1, idex.v1) = NewRegs'[idex.ins.rs1]
        /\ ToEx(idex.ins.rs2, idex.v2) = NewRegs'[idex.ins.rs2]
    BY <2>1, <2>2, RegsMove, ForwardedToEx DEF Reads
  <2>4. exmem'.ins.op \in ComputingOps => ~IsCsr(idex.ins)
    BY <2>1 DEF ComputingOps, IsCsr
  <2>5. IsLoad(exmem'.ins) => dlatch' = mem'[exmem'.alu]
    BY <2>1 DEF Cycle, NewDlatch
  <2>6. IsCsr(exmem'.ins) => csr' = NewRegs'[exmem'.ins.rs1]
    BY <2>1, <2>2, RegsMove, CsrOperand DEF Cycle, NewCsr
  <2> QED
    BY <2>1, <2>3, <2>4, <2>5, <2>6, ToExMem
<1> QED
  BY <1>1, <1>2 DEF Operands

LEMMA RetiredKept ==
  ASSUME Undisturbed, IsaInv, Cycle
  PROVE  Retired'
<1> SUFFICES ASSUME memwb'.valid, WritesReg(memwb'.ins)
             PROVE  \E a \in Word : program'[a] = memwb'.ins
                                    /\ Apc' \in Successors(program', a)
  BY DEF Retired
<1>1. program' = program /\ memwb' = NewMemWb
  BY DEF Cycle
<1>2. memwb'.ins = exmem.ins
  BY <1>1 DEF NewMemWb
<1>3. /\ exmem.pc \in Word /\ exmem.ins = program[exmem.pc]
      /\ NextToExecute \in Successors(program, exmem.pc)
  BY <1>2, WritersAreExecuted, ExecutedLeadsOn
<1>4. Apc' \in Successors(program', exmem.pc)
  BY <1>1, <1>3, PathMoves DEF Successors
<1> QED
  BY <1>1, <1>2, <1>3, <1>4

LEMMA IsaInvKept ==
  ASSUME Undisturbed, IsaInv, InFlightFollowsProgram, [Next]_vars
  PROVE  IsaInv'
<1>1. CASE Cycle
  <2>1. TypeOK' /\ FetchFollowsIfId' /\ BtbHoldsTransfers'
    BY <1>1, CycleType, CyclePath DEF IsaInv, PathInv
  <2>2. Bubbles' /\ Copies' /\ Operands' /\ Retired'
    BY <1>1, BubblesKept, CopiesKept, OperandsKept, RetiredKept
  <2>3. Paths'
    BY <1>1, <2>1, <2>2, PathsKept
  <2>4. program' \in Programs
    BY <1>1 DEF Cycle, IsaInv
  <2> QED
    BY <2>1, <2>2, <2>3, <2>4 DEF IsaInv
<1>2. CASE TakeInterrupt
  BY <1>2 DEF TakeInterrupt, Undisturbed
<1>3. CASE UNCHANGED vars
  <2> USE <1>3 DEF vars
  <2>1. NewRegs' = NewRegs /\ Apc' = Apc
    BY DEF NewRegs, Apc
  <2>2. RegsBehind' = RegsBehind
    BY <2>1 DEF RegsBehind, MemData
  <2>3. /\ Executed' = Executed /\ Decoded' = Decoded
        /\ NextToDecode' = NextToDecode /\ NextToExecute' = NextToExecute
    BY DEF Executed, Decoded, NextToDecode, NextToExecute
  <2>4. TypeOK' /\ FetchFollowsIfId' /\ BtbHoldsTransfers' /\ program' \in Programs
    BY DEF IsaInv, TypeOK, FetchFollowsIfId, BtbHoldsTransfers
  <2>5. Bubbles' /\ Copies'
    BY DEF IsaInv, Bubbles, Copies
  <2>6. Paths'
    BY <2>1, <2>2, <2>3 DEF IsaInv, Paths
  <2>7. Operands'
    BY <2>1, <2>3 DEF IsaInv, Operands
  <2>8. Retired'
    BY <2>1 DEF IsaInv, Retired, Successors
  <2> QED
    BY <2>4, <2>5, <2>6, <2>7, <2>8 DEF IsaInv
<1> QED
  BY <1>1, <1>2, <1>3 DEF Next

LEMMA IsaInvInitially ==
  ASSUME Init
  PROVE  IsaInv
<1>1. TypeOK
  BY InitType
<1>2. Bubbles /\ Copies /\ Retired /\ FetchFollowsIfId /\ BtbHoldsTransfers
  BY DEF Init, Bubbles, Copies, Retired, FetchFollowsIfId, BtbHoldsTransfers
<1>3. Paths /\ Operands
  BY DEF Init, Paths, Operands, Executed, Decoded
<1> QED
  BY <1>1, <1>2, <1>3 DEF IsaInv, Init

LEMMA IsaInvAlways == Undisturbed => (Spec => []IsaInv)
<1> SUFFICES ASSUME Undisturbed PROVE Spec => []IsaInv
  OBVIOUS
<1>1. Init => IsaInv
  BY IsaInvInitially
<1>2. IsaInv /\ InFlightFollowsProgram /\ [Next]_vars => IsaInv'
  BY IsaInvKept
<1> QED
  BY <1>1, <1>2, WrongPathSquashed, PTL DEF Spec
-----------------------------------------------------------------------------
(* The refinement.                                                         *)
ReferenceCsr == IF exmem.valid /\ IsCsr(exmem.ins) THEN exmem.alu ELSE csr

LEMMA ReferenceCsrMoves ==
  ASSUME Undisturbed, IsaInv, Cycle
  PROVE  ReferenceCsr' = csr
<1>1. CASE IsCsr(idex.ins)
  <2>1. idex.valid
    BY <1>1, NopDoesNothing DEF IsaInv, Bubbles
  <2> QED
    BY <1>1, <2>1, ToExMem DEF ReferenceCsr
<1>2. CASE ~IsCsr(idex.ins)
  BY <1>2, ToExMem DEF ReferenceCsr, Cycle, NewCsr
<1> QED
  BY <1>1, <1>2

(* The machine's operators on instructions are the pipeline's.             *)
LEMMA SameOperators ==
  /\ Reference!RegIds = RegIds /\ Reference!Word = Word
  /\ \A a, b : Reference!Plus(a, b) = Plus(a, b)
  /\ \A i : /\ Reference!IsLoad(i) = IsLoad(i) /\ Reference!IsStore(i) = IsStore(i)
           /\ Reference!IsCsr(i) = IsCsr(i) /\ Reference!WritesReg(i) = WritesReg(i)
  /\ \A i, a, b : Reference!Taken(i, a, b) = Taken(i, a, b)
  /\ \A i, p, a : Reference!TargetOf(i, p, a) = TargetOf(i, p, a)
<1>1. \A a, b : Reference!Plus(a, b) = Plus(a, b)
  BY DEF Plus, Reference!Plus
<1>2. \A i, a, b : Reference!Taken(i, a, b) = Taken(i, a, b)
  BY DEF Taken, Reference!Taken, IsJump, Reference!IsJump, IsBranch, Reference!IsBranch
<1> QED
  BY <1>1, <1>2
  DEF RegIds, Reference!RegIds, Word, Reference!Word, IsLoad, Reference!IsLoad,
      IsStore, Reference!IsStore, IsCsr, Reference!IsCsr,
      WritesReg, Reference!WritesReg, WritingOps, Reference!WritingOps,
      TargetOf, Reference!TargetOf

(* An instruction that is executed does what the machine does.             *)
LEMMA ExecutedAsTheMachine ==
  ASSUME Undisturbed, IsaInv, Cycle, Executed
  PROVE  Reference!Step
<1> DEFINE i == exmem.ins
           a == NewRegs[i.rs1]
           b == NewRegs[i.rs2]
<1>1. i = program[Apc] /\ Apc = exmem.pc /\ exmem.pc \in Word /\ exmem.valid
  BY ExecutedLeadsOn DEF Apc, Executed
<1>2. i \in Instr /\ (IsJump(i) => i.rd = 0)
  BY <1>1, ProgramIsHazardFree
<1>3. /\ i.op \in ComputingOps => exmem.alu = Alu(i, a, b)
      /\ exmem.store = b
      /\ IsLoad(i) => dlatch = mem[exmem.alu]
      /\ IsCsr(i) => csr = a
  BY DEF IsaInv, Operands
<1>4. Reference!Current = i /\ Reference!Rs1 = a /\ Reference!Rs2 = b
  BY <1>1 DEF Reference!Current, Reference!Rs1, Reference!Rs2, NewRegs, Pending
<1>5. ASSUME WritesReg(i) PROVE MemData = Reference!Result
  <2>1. i.op \in {"add", "addi", "lw", "csrrw"}
    BY <1>2, <1>5 DEF WritesReg, WritingOps, IsJump
  <2> QED
    BY <1>1, <1>3, <1>4, <2>1, SameOperators
    DEF MemData, Reference!Result, Alu, ComputingOps, IsLoad, IsCsr
<1>6. NewRegs' = IF WritesReg(i) THEN [NewRegs EXCEPT ![i.rd] = Reference!Result]
                 ELSE NewRegs
  BY <1>1, <1>5, RegsMove DEF RegsBehind
<1>7. mem' = IF IsStore(i) THEN [mem EXCEPT ![Plus(a, i.imm)] = b] ELSE mem
  BY <1>3 DEF Cycle, NewMem, IsStore, ComputingOps, Alu
<1>8. ReferenceCsr' = IF IsCsr(i) THEN a ELSE ReferenceCsr
  BY <1>1, <1>3, ReferenceCsrMoves DEF ReferenceCsr
<1>9. Apc' = IF Taken(i, a, b) THEN TargetOf(i, Apc, a) ELSE Plus(Apc, 1)
  BY <1>1, PathMoves DEF IsaInv, Paths, After
<1>10. program' = program
  BY DEF Cycle
<1> HIDE DEF i, a, b
<1> QED
  BY <1>4, <1>6, <1>7, <1>8, <1>9, <1>10, SameOperators
  DEF Reference!Step, NewRegs, Pending, ReferenceCsr

(* Anything else that leaves EX/MEM, a bubble or the first copy of a       *)
(* stalled branch, changes nothing.                                        *)
LEMMA OthersDoNothing ==
  ASSUME Undisturbed, IsaInv, Cycle, ~Executed
  PROVE  UNCHANGED Reference!vars
<1>1. ~WritesReg(exmem.ins) /\ ~IsStore(exmem.ins) /\ ~IsCsr(exmem.ins)
  <2>1. CASE exmem.valid
    <3>1. /\ exmem.pc \in Word /\ exmem.ins = program[exmem.pc]
          /\ IsBranchOrJump(exmem.ins)
      BY <2>1 DEF IsaInv, TypeOK, ExMem, Copies, Executed
    <3> QED
      BY <3>1, TransfersWriteNothing
  <2>2. CASE ~exmem.valid
    BY <2>2, NopDoesNothing DEF IsaInv, Bubbles
  <2> QED
    BY <2>1, <2>2
<1>2. NewRegs' = NewRegs
  BY <1>1, RegsMove DEF RegsBehind
<1>3. mem' = mem /\ program' = program
  BY <1>1 DEF Cycle, NewMem
<1>4. ReferenceCsr' = ReferenceCsr
  BY <1>1, ReferenceCsrMoves DEF ReferenceCsr
<1>5. Apc' = Apc
  BY PathMoves DEF Apc, Executed, NextToExecute, Decoded, NextToDecode
<1> QED
  BY <1>2, <1>3, <1>4, <1>5 DEF Reference!vars, NewRegs, Pending, ReferenceCsr

LEMMA StepsImplement ==
  ASSUME Undisturbed, IsaInv, [Next]_vars
  PROVE  [Reference!Step]_(Reference!vars)
<1>1. CASE Cycle
  BY <1>1, ExecutedAsTheMachine, OthersDoNothing
<1>2. CASE TakeInterrupt
  BY <1>2 DEF TakeInterrupt, Undisturbed
<1>3. CASE UNCHANGED vars
  BY <1>3 DEF vars, Reference!vars, Apc, Pending
<1> QED
  BY <1>1, <1>2, <1>3 DEF Next

(* For every hazard-free program, prediction and eviction, the pipeline    *)
(* does what a machine does that executes one instruction at a time: no    *)
(* stall, forwarding path or misprediction loses, repeats or reorders an   *)
(* instruction or gives it a stale operand (pipeline/mod.rs clock(),       *)
(* hazard.rs update()).                                                    *)
THEOREM PipelineImplementsIsa == Undisturbed => (Spec => RefinesIsa)
<1> SUFFICES ASSUME Undisturbed PROVE Spec => RefinesIsa
  OBVIOUS
<1>1. Init => Reference!Init
  BY SameOperators DEF Init, Reference!Init, Pending, Apc
<1>2. IsaInv /\ [Next]_vars => [Reference!Step]_(Reference!vars)
  BY StepsImplement
<1>3. Spec => []IsaInv
  BY IsaInvAlways
<1> QED
  BY <1>1, <1>2, <1>3, PTL DEF Spec, RefinesIsa, Reference!Spec
-----------------------------------------------------------------------------
(* Stalls.                                                                 *)
LEMMA NeverLoadUseWell == Undisturbed /\ IsaInv => ~LoadUse
BY NeverLoadUse

LEMMA NeverLoadUseNext == Undisturbed' /\ IsaInv' => ~LoadUse'
BY NeverLoadUseWell, PTL

(* What a stalled branch or jump waits for has moved on a cycle later, and *)
(* its own copy in ID/EX holds up nothing, for every hazard-free program   *)
(* (hazard.rs update()).                                                   *)
THEOREM StallsAreShort == Undisturbed => (Spec => StallsLastOneCycle)
<1> SUFFICES ASSUME Undisturbed PROVE Spec => StallsLastOneCycle
  OBVIOUS
<1>1. ASSUME IsaInv, IsaInv', Cycle, Stall PROVE ~Stall'
  <2>1. ifid' = ifid /\ ~LoadUse /\ ~LoadUse'
    BY <1>1, ToIfId, NeverLoadUse, NeverLoadUseNext DEF Undisturbed
  <2>2. IsBranchOrJump(ifid.ins)
    BY <1>1, <2>1 DEF Stall, IdExBranchHazard, ExMemLoadBranchHazard
  <2>3. ~WritesReg(idex'.ins)
    <3>1. CASE ifid.valid
      <4>1. ifid.pc \in Word /\ ifid.ins = program[ifid.pc]
        BY <1>1, <3>1 DEF IsaInv, TypeOK, IfId, FetchFollowsIfId
      <4> QED
        BY <1>1, <2>2, <3>1, <4>1, ToIdEx, TransfersWriteNothing
    <3>2. CASE ~ifid.valid
      BY <1>1, <3>2, ToIdEx, NopDoesNothing
    <3> QED
      BY <3>1, <3>2
  <2>4. ~ExMemLoadBranchHazard'
    BY <1>1, <2>1, ToExMem DEF ExMemLoadBranchHazard, LoadUse
  <2> QED
    BY <2>1, <2>3, <2>4 DEF Stall, IdExBranchHazard
<1>2. ASSUME IsaInv, IsaInv', [Next]_vars, Stall PROVE ~Stall' \/ UNCHANGED vars
  <2>1. ~TakeInterrupt
    BY DEF TakeInterrupt, Undisturbed
  <2> QED
    BY <1>1, <1>2, <2>1 DEF Next
<1>3. IsaInv /\ IsaInv' /\ [Next]_vars => [Stall => ~Stall']_vars
  BY <1>2
<1>4. Spec => []IsaInv
  BY IsaInvAlways
<1> QED
  BY <1>3, <1>4, PTL DEF Spec, StallsLastOneCycle
=============================================================================
