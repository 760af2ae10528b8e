------------------------------ MODULE Pipeline ------------------------------
(***************************************************************************)
(* The five-stage PipelineCpu of src/src/cpu/pipeline, one action per call *)
(* of clock(): the stages run from WB back to pre-IF on the old pipeline   *)
(* registers, with the hazard unit's stalls, both forwarding networks,     *)
(* branch resolution in ID against the prediction made in IF, trap returns *)
(* and interrupts.  Machine mode, word accesses, no page faults; a bubble  *)
(* holds Nop, a flushed register keeps its instruction, as in the code.    *)
(***************************************************************************)
EXTENDS Instructions

CONSTANTS
  Programs,    \* the programs, functions from Word to Instr
  Interrupts,  \* does a device ever interrupt?
  Handler      \* mtvec

ASSUME PipelineAssumption ==
  /\ Programs \subseteq [Word -> Instr]
  /\ Interrupts \in BOOLEAN /\ Handler \in Word

VARIABLES
  program, regs, mem, csr,  \* instruction memory, x0.., data memory, one CSR
  fetchPc,                  \* pc of the instruction latch and of the fetch stage
  ifid, idex, exmem, memwb, \* the pipeline registers
  dlatch,                   \* output of the synchronous data RAM
  btb,                      \* branch targets seen so far
  mie, mpie, mepc           \* trap state

vars == <<program, regs, mem, csr, fetchPc, ifid, idex, exmem, memwb, dlatch,
          btb, mie, mpie, mepc>>

Prediction == [taken : BOOLEAN, target : Word \cup {NoPc}]
NotTaken == [taken |-> FALSE, target |-> NoPc]

IfId  == [valid : BOOLEAN, pc : Word, ins : Instr, pred : Prediction]
IdEx  == [valid : BOOLEAN, pc : Word, ins : Instr, v1 : Word, v2 : Word,
          replay : BOOLEAN]   \* replay: latched in a stall, so also in IF/ID
ExMem == [valid : BOOLEAN, pc : Word, ins : Instr, alu : Word, store : Word,
          replay : BOOLEAN]
MemWb == [valid : BOOLEAN, ins : Instr, data : Word]

TypeOK ==
  /\ program \in [Word -> Instr] /\ regs \in [RegIds -> Word] /\ regs[0] = 0
  /\ mem \in [Word -> Word] /\ csr \in Word /\ dlatch \in Word
  /\ fetchPc \in Word /\ btb \in [Word -> Word \cup {NoPc}]
  /\ ifid \in IfId /\ idex \in IdEx /\ exmem \in ExMem /\ memwb \in MemWb
  /\ mie \in BOOLEAN /\ mpie \in BOOLEAN /\ mepc \in Word

Init ==
  /\ program \in Programs
  /\ regs = [r \in RegIds |-> 0] /\ mem = [a \in Word |-> 0] /\ csr = 0
  /\ fetchPc = 0
  /\ ifid = [valid |-> FALSE, pc |-> 0, ins |-> Nop, pred |-> NotTaken]
  /\ idex = [valid |-> FALSE, pc |-> 0, ins |-> Nop, v1 |-> 0, v2 |-> 0,
             replay |-> FALSE]
  /\ exmem = [valid |-> FALSE, pc |-> 0, ins |-> Nop, alu |-> 0, store |-> 0,
              replay |-> FALSE]
  /\ memwb = [valid |-> FALSE, ins |-> Nop, data |-> 0]
  /\ dlatch = 0
  /\ btb = [p \in Word |-> NoPc]
  /\ mie = Interrupts /\ mpie = FALSE /\ mepc = 0

-----------------------------------------------------------------------------
(* The hazard unit: no valid bit is looked at.                             *)
Reads(i, r) == r \in {i.rs1, i.rs2}

LoadUse ==
  IsLoad(idex.ins) /\ WritesReg(idex.ins) /\ Reads(ifid.ins, idex.ins.rd)
(* Mutant: x0 counts as a register an instruction can wait for.            *)
WrongIdExBranchHazard ==
  /\ IsBranchOrJump(ifid.ins)
  /\ idex.ins.op \in WritingOps /\ Reads(ifid.ins, idex.ins.rd)
IdExBranchHazard ==
  /\ IsBranchOrJump(ifid.ins)
  /\ WritesReg(idex.ins) /\ Reads(ifid.ins, idex.ins.rd)
ExMemLoadBranchHazard ==
  /\ IsBranchOrJump(ifid.ins) /\ IsLoad(exmem.ins)
  /\ WritesReg(exmem.ins) /\ Reads(ifid.ins, exmem.ins.rd)
Stall == LoadUse \/ IdExBranchHazard \/ ExMemLoadBranchHazard

(* Forwarding of register r to EX, of value v if nothing newer exists, and *)
(* to ID, which cannot use the address in an EX/MEM load.                  *)
(* Mutant: the older of two pending results wins.                          *)
WrongToEx(r, v) ==
  IF WritesReg(memwb.ins) /\ memwb.ins.rd = r THEN memwb.data
  ELSE IF WritesReg(exmem.ins) /\ exmem.ins.rd = r THEN exmem.alu
  ELSE v
ToEx(r, v) ==
  IF WritesReg(exmem.ins) /\ exmem.ins.rd = r THEN exmem.alu
  ELSE IF WritesReg(memwb.ins) /\ memwb.ins.rd = r THEN memwb.data
  ELSE v
ToId(r, v) ==
  IF WritesReg(exmem.ins) /\ exmem.ins.rd = r /\ ~IsLoad(exmem.ins)
    THEN exmem.alu
  ELSE IF WritesReg(memwb.ins) /\ memwb.ins.rd = r THEN memwb.data
  ELSE v

-----------------------------------------------------------------------------
(* The stages, WB first; each operator is what its stage latches.          *)
(* Mutant: x0 is written too.                                              *)
WrongNewRegs ==
  IF memwb.valid /\ memwb.ins.op \in WritingOps
    THEN [regs EXCEPT ![memwb.ins.rd] = memwb.data] ELSE regs
NewRegs ==
  IF memwb.valid /\ WritesReg(memwb.ins)
    THEN [regs EXCEPT ![memwb.ins.rd] = memwb.data] ELSE regs

(* The store is made from ctrl.mem_write alone.                            *)
NewMem ==
  IF IsStore(exmem.ins) THEN [mem EXCEPT ![exmem.alu] = exmem.store] ELSE mem

NewMemWb ==
  IF exmem.valid
    THEN [valid |-> TRUE, ins |-> exmem.ins,
          data |-> IF IsLoad(exmem.ins) THEN dlatch ELSE exmem.alu]
    ELSE [valid |-> FALSE, ins |-> Nop, data |-> 0]

Alu(i, a, b) ==
  CASE i.op = "add" -> Plus(a, b)
    [] i.op = "jal" -> a
    [] OTHER        -> Plus(a, i.imm)

(* flush_id_ex reaches EX as well as ID.                                   *)
ExBubble == LoadUse \/ ~idex.valid
TrapReturning == IsTrapReturn(idex.ins)

NewExMem ==
  LET a == ToEx(idex.ins.rs1, idex.v1)
      b == ToEx(idex.ins.rs2, idex.v2)
  IN [valid  |-> ~ExBubble /\ ~TrapReturning,
      pc     |-> idex.pc,
      ins    |-> IF ExBubble THEN Nop ELSE idex.ins,
      alu    |-> IF IsCsr(idex.ins) THEN csr
                 ELSE IF ExBubble THEN 0 ELSE Alu(idex.ins, a, b),
      store  |-> IF ExBubble THEN 0 ELSE b,
      replay |-> idex.replay]

NewCsr == IF IsCsr(idex.ins) THEN idex.v1 ELSE csr

(* The data RAM is read at the end of EX, after this cycle's store.        *)
NewDlatch ==
  IF NewExMem.valid /\ IsLoad(NewExMem.ins) THEN NewMem[NewExMem.alu] ELSE dlatch

(* A trap return empties the stages behind it and refills the fetch latch  *)
(* before ID and IF run.                                                   *)
(* Mutant: the instruction behind a trap return is not flushed.            *)
WrongIfIdNow == ifid
IfIdNow  == IF TrapReturning THEN [ifid EXCEPT !.valid = FALSE] ELSE ifid
FetchNow == IF TrapReturning THEN mepc ELSE fetchPc

IdBubble == LoadUse \/ ~IfIdNow.valid

NewIdEx ==
  [valid  |-> ~IdBubble,
   pc     |-> ifid.pc,
   ins    |-> IF IdBubble THEN Nop ELSE ifid.ins,
   v1     |-> IF IdBubble THEN 0 ELSE NewRegs[ifid.ins.rs1],
   v2     |-> IF IdBubble THEN 0 ELSE NewRegs[ifid.ins.rs2],
   replay |-> Stall]

-----------------------------------------------------------------------------
(* Branch resolution in ID and the check against the prediction, which is  *)
(* only copied along when nothing stalls.                                  *)
IdRs1 == ToId(ifid.ins.rs1, NewRegs[ifid.ins.rs1])
IdRs2 == ToId(ifid.ins.rs2, NewRegs[ifid.ins.rs2])
Resolves ==
  ~IdBubble /\ (IsBranchOrJump(ifid.ins) \/ IsTrapReturn(ifid.ins))
ResolvedTaken  == Taken(ifid.ins, IdRs1, IdRs2)
ResolvedTarget == TargetOf(ifid.ins, ifid.pc, IdRs1)

Mispredicted ==
  /\ Resolves /\ ~Stall
  /\ \/ ifid.pred.taken # ResolvedTaken
     \/ ResolvedTaken /\ ifid.pred.target # ResolvedTarget
RedirectTo == IF ResolvedTaken THEN ResolvedTarget ELSE Plus(ifid.pc, 1)

(* Jumps and trap returns train the BTB as taken, stalled or not.          *)
NewBtb ==
  IF Resolves /\ (ResolvedTaken \/ ~IsBranch(ifid.ins))
    THEN [btb EXCEPT ![ifid.pc] = ResolvedTarget] ELSE btb

(* Any of the direction predictors; the BTB may have evicted the entry.    *)
Predictions ==
  {NotTaken} \cup [taken : {TRUE}, target : {NewBtb[FetchNow], NoPc}]

NextFetch(p) ==
  IF Mispredicted THEN RedirectTo
  ELSE IF p.taken /\ p.target # NoPc THEN p.target ELSE Plus(FetchNow, 1)

NewIfId(p) ==
  IF Stall THEN IfIdNow
  ELSE [valid |-> ~Mispredicted, pc |-> FetchNow, ins |-> program[FetchNow],
        pred |-> IF Mispredicted THEN NotTaken ELSE p]

-----------------------------------------------------------------------------
(* clock(), when no interrupt is taken.                                    *)
Cycle ==
  /\ regs' = NewRegs /\ mem' = NewMem /\ csr' = NewCsr
  /\ memwb' = NewMemWb /\ exmem' = NewExMem /\ idex' = NewIdEx
  /\ dlatch' = NewDlatch /\ btb' = NewBtb
  /\ \E p \in Predictions :
       /\ ifid' = NewIfId(p)
       /\ fetchPc' = IF Stall THEN FetchNow ELSE NextFetch(p)
  /\ IF TrapReturning THEN mie' = mpie /\ mpie' = TRUE ELSE UNCHANGED <<mie, mpie>>
  /\ UNCHANGED <<program, mepc>>

(* Trap::take_m_trap.  Mutant: MIE is cleared before it is saved.          *)
WrongSaveMie == mie' = FALSE /\ mpie' = FALSE
SaveMie == mie' = FALSE /\ mpie' = mie

(* clock(), when an enabled interrupt is pending: the valid bits are       *)
(* cleared and nothing else of the pipeline registers.                     *)
TakeInterrupt ==
  /\ Interrupts /\ mie
  /\ mepc' = fetchPc /\ SaveMie
  /\ ifid' = [ifid EXCEPT !.valid = FALSE]
  /\ idex' = [idex EXCEPT !.valid = FALSE]
  /\ exmem' = [exmem EXCEPT !.valid = FALSE]
  /\ memwb' = [memwb EXCEPT !.valid = FALSE]
  /\ fetchPc' = Handler
  /\ UNCHANGED <<program, regs, mem, csr, dlatch, btb>>

Next == Cycle \/ TakeInterrupt

(* The run loop calls clock() again and again; whether a device ever       *)
(* interrupts is not promised.                                             *)
Spec == Init /\ [][Next]_vars /\ WF_vars(Next)

-----------------------------------------------------------------------------
(* Properties.                                                             *)

(* The reference machine executes an instruction when it leaves EX/MEM, at *)
(* the last of its copies if a stalled branch was latched twice.           *)
Pending == memwb.valid /\ WritesReg(memwb.ins)
Apc ==
  IF exmem.valid /\ ~exmem.replay THEN exmem.pc
  ELSE IF idex.valid /\ ~idex.replay THEN idex.pc
  ELSE IF ifid.valid THEN ifid.pc ELSE fetchPc

Reference == INSTANCE Isa WITH
  regs <- IF Pending THEN [regs EXCEPT ![memwb.ins.rd] = memwb.data] ELSE regs,
  csr  <- IF exmem.valid /\ IsCsr(exmem.ins) THEN exmem.alu ELSE csr,
  pc   <- Apc

(* The pipeline executes the program as the reference machine does: no     *)
(* stall, forwarding path or misprediction loses, repeats or reorders an   *)
(* instruction or gives it a stale operand (pipeline/mod.rs clock()).      *)
RefinesIsa == Reference!Spec

(* A stalled instruction waits one cycle: what it waits for has then moved *)
(* on (hazard.rs update(); ARCHITECTURE.md, the two branch stalls).        *)
StallsLastOneCycle == [][Stall => ~Stall']_vars

(* Instructions keep leaving ID for good and arriving in EX/MEM: a stall   *)
(* for a branch never feeds on the copy of the branch that it lets through *)
(* (hazard.rs update(), mod.rs step 3).                                    *)
Progress == []<>(exmem.valid /\ ~exmem.replay)

(* The load a user waits for goes on to EX/MEM; the bubble comes behind it *)
(* (hazard.rs update(): "insert bubble between ID and EX").                *)
LoadSurvivesStall == [][LoadUse /\ idex.valid => exmem'.valid]_vars

(* A trap return resumes the program where the interrupt stopped it: mepc *)
(* is the first instruction not yet executed (take_trap();                 *)
(* check_and_handle_interrupt() passes the fetch pc).                      *)
ResumesWhereInterrupted == [][TakeInterrupt => mepc' = Apc]_vars

(* The words that can be executed after word a of program p.               *)
Successors(p, a) ==
  CASE p[a].op = "jalr" -> Word
    [] p[a].op = "jal"  -> {Plus(a, p[a].imm)}
    [] p[a].op = "beq"  -> {Plus(a, 1), Plus(a, p[a].imm)}
    [] OTHER            -> {Plus(a, 1)}

(* Valid instructions in adjacent stages follow each other in the program: *)
(* whatever is fetched on a wrong path, or was in flight at a trap or trap *)
(* return, is squashed before it is next to an instruction that the new    *)
(* path runs (clock() step 3, execute_trap_return(), flush_pipeline()).    *)
InFlightFollowsProgram ==
  /\ exmem.valid /\ idex.valid /\ ~exmem.replay =>
        idex.pc \in Successors(program, exmem.pc)
  /\ idex.valid /\ ifid.valid /\ ~idex.replay /\ ~IsTrapReturn(idex.ins) =>
        ifid.pc \in Successors(program, idex.pc)

(* A handler that was entered returns: its trap return reaches EX.         *)
HandlerReturns == ~mie ~> mie

-----------------------------------------------------------------------------
(* Programs without the hazards the pipeline does not resolve: a load is   *)
(* not followed at once by an instruction with its register in a source    *)
(* field, jumps do not link, no trap returns, and the register a CSR       *)
(* instruction reads is not written by the two instructions before it.     *)
HazardFree(p) ==
  \A a \in Word :
    /\ ~IsTrapReturn(p[a])
    /\ IsJump(p[a]) => p[a].rd = 0
    /\ IsLoad(p[a]) /\ WritesReg(p[a]) => ~Reads(p[Plus(a, 1)], p[a].rd)
    /\ WritesReg(p[a]) => \A b \in Successors(p, a) : \A c \in Successors(p, b) \cup {b} :
                            IsCsr(p[c]) => p[c].rs1 # p[a].rd
=============================================================================
