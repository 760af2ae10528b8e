----------------------------- MODULE TrapFrames -----------------------------
(***************************************************************************)
(* What a trap leaves behind: the epc and cause registers of its level     *)
(* (take_m_trap() and take_s_trap() of src/src/cpu/csr/trap.rs), and the   *)
(* frames of a machine-mode handler that lets itself be interrupted.  Of a *)
(* program counter only the place in the software matters.                 *)
(***************************************************************************)
EXTENDS Traps, SequencesExt

CONSTANT Depth   \* how many handlers may have their frames on the stack

(* A program, the handler of its page faults in supervisor mode, and a     *)
(* machine-mode handler: it saves its frame, enables interrupts, disables  *)
(* them, restores the frame and returns.                                   *)
Places == {"boot", "main", "supervisor", "entered", "saved", "open", "closed", "restored"}

TrapRegisters == [epc : Places, interrupt : BOOLEAN, code : Bits]
Frame == [regs : TrapRegisters, status : Status]
Interruption == [pc : Places, priv : Privileges, ie : BOOLEAN]

(* machine: mepc and mcause; supervisor: sepc and scause; stack: the saved *)
(* frames.  History: what the machine-mode traps not yet returned from,    *)
(* and the latest trap to supervisor mode, have interrupted.               *)
NestState ==
  [pc : Places, machine : TrapRegisters, supervisor : TrapRegisters,
   stack : Seq(Frame), from : Seq(Interruption), delegated : Seq(Interruption)]

NewRegisters == [epc |-> "boot", interrupt |-> FALSE, code |-> 0]
NewNest ==
  [pc |-> "boot", machine |-> NewRegisters, supervisor |-> NewRegisters,
   stack |-> <<>>, from |-> <<>>, delegated |-> <<>>]

-----------------------------------------------------------------------------
Registered(n, interrupt, cause) == [epc |-> n.pc, interrupt |-> interrupt, code |-> cause]
Interrupted(n, h, status) == [pc |-> n.pc, priv |-> h.priv, ie |-> status.ie]

(* After a trap that hart h takes.                                         *)
WrongTrapped(n, h, interrupt, cause) ==  \* registers of the mode it comes from
  LET regs == Registered(n, interrupt, cause)
      r == IF h.priv = "S" THEN [n EXCEPT !.supervisor = regs]
           ELSE [n EXCEPT !.machine = regs]
  IN  IF Delegated(h, interrupt, cause)
      THEN [r EXCEPT !.pc = "supervisor", !.delegated = <<Interrupted(n, h, h.sstatus)>>]
      ELSE [r EXCEPT !.pc = "entered", !.from = <<Interrupted(n, h, h.mstatus)>> \o @]
Trapped(n, h, interrupt, cause) ==
  IF Delegated(h, interrupt, cause)
  THEN [n EXCEPT !.pc = "supervisor", !.supervisor = Registered(n, interrupt, cause),
                 !.delegated = <<Interrupted(n, h, h.sstatus)>>]
  ELSE [n EXCEPT !.pc = "entered", !.machine = Registered(n, interrupt, cause),
                 !.from = <<Interrupted(n, h, h.mstatus)>> \o @]

AfterInterrupt(n, h) ==
  IF TakesMachine(h) THEN Trapped(n, h, TRUE, MachinePending(h))
  ELSE IF TakesSupervisor(h) THEN Trapped(n, h, TRUE, SupervisorPending(h))
  ELSE n

(* The steps of the handler.                                               *)
Saved(n, h) ==
  [n EXCEPT !.pc = "saved", !.stack = <<[regs |-> n.machine, status |-> h.mstatus]>> \o @]
Restored(n) ==
  [n EXCEPT !.pc = "restored", !.machine = Head(n.stack).regs, !.stack = Tail(@)]
Returned(n) == [n EXCEPT !.pc = n.machine.epc, !.from = Tail(@)]
=============================================================================
