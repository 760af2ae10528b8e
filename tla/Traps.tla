------------------------------- MODULE Traps --------------------------------
(***************************************************************************)
(* Privilege, interrupt CSRs and traps of the hart, as operators: CSR      *)
(* writes (src/src/cpu/csr), the choice and the taking of a trap, and the  *)
(* trap return (src/src/cpu/pipeline/mod.rs).  Interrupt registers are     *)
(* sets of bit numbers; of the status registers the fields that traps use  *)
(* are kept.  epc and cause are in TrapFrames; vectors and tval are left   *)
(* out.                                                                    *)
(***************************************************************************)
EXTENDS Integers, Sequences

CONSTANT Values   \* the bit sets software writes to interrupt registers

Bits == 0 .. 15
Privileges == {"U", "S", "M"}
NoCause == 0

ASSUME TrapsAssumption == Values \subseteq SUBSET Bits

Status == [ie : BOOLEAN, pie : BOOLEAN, pp : Privileges]
Hart ==
  [priv : Privileges, mstatus : Status, sstatus : Status,
   mie : SUBSET Bits, mip : SUBSET Bits, sie : SUBSET Bits, sip : SUBSET Bits,
   mideleg : SUBSET Bits, medeleg : SUBSET Bits]

NewStatus == [ie |-> FALSE, pie |-> FALSE, pp |-> "U"]
NewHart ==
  [priv |-> "M", mstatus |-> NewStatus, sstatus |-> NewStatus,
   mie |-> {}, mip |-> {}, sie |-> {}, sip |-> {}, mideleg |-> {}, medeleg |-> {}]

MSI == 3
MTI == 7
MEI == 11
SSI == 1
STI == 5
SEI == 9
SupervisorBits == {SSI, STI, SEI}

-----------------------------------------------------------------------------
(* CSR writes; a set or clear instruction writes what it computed from the *)
(* old value.  check_access() keeps each mode to its own registers and     *)
(* those below.                                                            *)
MieMask     == {0, 1, 3, 4, 5, 7, 8, 9, 11}
MidelegMask == {2, 6, 10}
MedelegMask == Bits \ {10, 11, 14}

WriteMstatus(h, s) == [h EXCEPT !.mstatus = s]
WriteMie(h, v)     == [h EXCEPT !.mie = v \cap MieMask]
WriteMip(h, v)     == [h EXCEPT !.mip = (@ \ SupervisorBits) \cup (v \cap SupervisorBits)]
WriteMideleg(h, v) == [h EXCEPT !.mideleg = v \cap MidelegMask]
WriteMedeleg(h, v) == [h EXCEPT !.medeleg = v \cap MedelegMask]

WriteSstatus(h, s) == [h EXCEPT !.sstatus = s]
WriteSie(h, v)     == [h EXCEPT !.sie = v \cap SupervisorBits]
WriteSip(h, v) ==
  [h EXCEPT !.sip = IF h.priv = "M" THEN v \cap SupervisorBits
                    ELSE IF SSI \in v THEN @ ELSE @ \ {SSI}]

MachineWrite(h, new) ==
  \/ \E s \in Status : new = WriteMstatus(h, s)
  \/ \E v \in Values :
       \/ new = WriteMie(h, v) \/ new = WriteMideleg(h, v)
       \/ new = WriteMip(h, v) \/ new = WriteMedeleg(h, v)

SupervisorWrite(h, new) ==
  \/ \E s \in Status : s.pp # "M" /\ new = WriteSstatus(h, s)
  \/ \E v \in Values : new = WriteSie(h, v) \/ new = WriteSip(h, v)

CsrWrite(h, new) ==
  \/ h.priv = "M" /\ MachineWrite(h, new)
  \/ h.priv # "U" /\ SupervisorWrite(h, new)

-----------------------------------------------------------------------------
(* should_delegate(): mideleg has a bit of its own for each supervisor     *)
(* interrupt, medeleg one per exception.                                   *)
WrongDelegated(h, interrupt, cause) ==  \* in machine mode too
  IF interrupt THEN cause \in SupervisorBits /\ cause + 1 \in h.mideleg
  ELSE cause \in h.medeleg
Delegated(h, interrupt, cause) ==
  /\ h.priv # "M"
  /\ IF interrupt THEN cause \in SupervisorBits /\ cause + 1 \in h.mideleg
     ELSE cause \in h.medeleg

WrongEntered(s, priv) == [ie |-> FALSE, pie |-> TRUE, pp |-> priv]  \* enabled on return
Entered(s, priv) == [ie |-> FALSE, pie |-> s.ie, pp |-> priv]

(* take_trap(), take_s_trap() and take_m_trap().                           *)
TakeTrap(h, interrupt, cause) ==
  IF Delegated(h, interrupt, cause)
  THEN [h EXCEPT !.sstatus = Entered(@, h.priv), !.priv = "S"]
  ELSE [h EXCEPT !.mstatus = Entered(@, h.priv), !.priv = "M"]

(* execute_trap_return(): mret, sret and uret alike return by mstatus.     *)
TrapReturn(h) ==
  [h EXCEPT !.mstatus = [ie |-> @.pie, pie |-> TRUE, pp |-> "U"], !.priv = h.mstatus.pp]

(* sync_interrupts(): the lines of the interrupt controllers.              *)
Sync(h, mtip, msip, meip, seip) ==
  [h EXCEPT !.mip = (@ \ {MSI, MTI, MEI}) \cup
                    {b \in {MSI, MTI, MEI} : \/ b = MSI /\ msip
                                             \/ b = MTI /\ mtip
                                             \/ b = MEI /\ meip},
            !.sip = IF seip THEN @ \cup {SEI} ELSE @ \ {SEI}]

(* highest_priority_interrupt() and get_pending_interrupt().               *)
Highest(pending, order) ==
  LET Here(i) == order[i] \in pending
  IN  IF \E i \in DOMAIN order : Here(i)
      THEN order[CHOOSE i \in DOMAIN order : Here(i) /\ \A j \in 1 .. i - 1 : ~Here(j)]
      ELSE NoCause
MachinePending(h)    == Highest(h.mip \cap h.mie, <<MEI, MTI, MSI>>)
SupervisorPending(h) == Highest(h.sip \cap h.sie, <<SEI, STI, SSI>>)

(* check_and_handle_interrupt().                                           *)
TakesMachine(h)    == (h.priv # "M" \/ h.mstatus.ie) /\ MachinePending(h) # NoCause
TakesSupervisor(h) == h.priv = "S" /\ h.sstatus.ie /\ SupervisorPending(h) # NoCause

HandleInterrupt(h) ==
  IF TakesMachine(h) THEN TakeTrap(h, TRUE, MachinePending(h))
  ELSE IF TakesSupervisor(h) THEN TakeTrap(h, TRUE, SupervisorPending(h))
  ELSE h
=============================================================================
