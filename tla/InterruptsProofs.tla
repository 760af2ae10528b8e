-------------------------- MODULE InterruptsProofs --------------------------
(***************************************************************************)
(* Theorems about Interrupts, for every set of sources, every size of the  *)
(* devices and every value software writes.                                *)
(***************************************************************************)
EXTENDS Interrupts, PlicProofs, SequenceTheorems

(* The nested handlers, for any depth of nesting: a frame on the stack is  *)
(* what the trap below it left.                                            *)
Handler == {"entered", "saved", "open", "closed", "restored"}

(* The traps whose frame is still, or again, in the registers.             *)
Unsaved(n) == IF n.pc \in {"entered", "restored"} THEN 1 ELSE 0

Keeps(epc, status, i) == epc = i.pc /\ status.pie = i.ie /\ status.pp = i.priv

(* Frames and interruptions, from the innermost out.                       *)
Aligned(n) ==
  /\ Len(n.from) = Len(n.stack) + Unsaved(n)
  /\ \A k \in 1 .. Len(n.stack) :
       /\ Keeps(n.stack[k].regs.epc, n.stack[k].status, n.from[k + Unsaved(n)])
       /\ ~n.stack[k].status.ie

(* Only the outermost trap interrupts something else than an open handler. *)
Chained(n) ==
  \A k \in 1 .. Len(n.from) :
    IF k < Len(n.from) THEN n.from[k].pc = "open" /\ n.from[k].priv = "M"
    ELSE n.from[k].pc \in {"main", "supervisor"}

(* Where the handlers are, and what that says of the hart.                 *)
Placed(n, h) ==
  /\ n.pc \in Handler <=> Len(n.from) > 0
  /\ n.pc \in Handler \cup {"boot"} => h.priv = "M"
  /\ n.pc \in (Handler \ {"open"}) \cup {"boot"} => ~h.mstatus.ie
  /\ Unsaved(n) = 1 => Keeps(n.machine.epc, h.mstatus, n.from[1])

Nesting(n, h) == n \in NestState /\ Aligned(n) /\ Chained(n) /\ Placed(n, h)

LEMMA Push ==
  ASSUME NEW S, NEW s \in Seq(S), NEW x \in S
  PROVE  /\ <<x>> \o s \in Seq(S)
         /\ Len(<<x>> \o s) = Len(s) + 1
         /\ (<<x>> \o s)[1] = x
         /\ \A k \in 1 .. Len(s) : (<<x>> \o s)[k + 1] = s[k]
OBVIOUS

LEMMA Pop ==
  ASSUME NEW S, NEW s \in Seq(S), Len(s) > 0
  PROVE  /\ Tail(s) \in Seq(S)
         /\ Len(Tail(s)) = Len(s) - 1
         /\ Head(s) = s[1] /\ s[1] \in S
         /\ \A k \in 1 .. Len(s) - 1 : Tail(s)[k] = s[k + 1]
OBVIOUS

LEMMA HighestInBits ==
  ASSUME NEW a \in Bits, NEW b \in Bits, NEW c \in Bits, NEW pending
  PROVE  Highest(pending, <<a, b, c>>) \in Bits
<1> DEFINE order == <<a, b, c>>
           Here(i) == order[i] \in pending
           First(i) == Here(i) /\ \A j \in 1 .. i - 1 : ~Here(j)
<1>1. CASE \E i \in DOMAIN order : Here(i)
  <2>1. DOMAIN order = 1 .. 3 /\ \A i \in 1 .. 3 : order[i] \in Bits  OBVIOUS
  <2>2. \E i \in 1 .. 3 : First(i)
    <3>1. CASE Here(1)  BY <3>1
    <3>2. CASE ~Here(1) /\ Here(2)  BY <3>2
    <3>3. CASE ~Here(1) /\ ~Here(2)  BY <1>1, <2>1, <3>3
    <3> QED  BY <3>1, <3>2, <3>3
  <2> HIDE DEF First
  <2>3. (CHOOSE i \in 1 .. 3 : First(i)) \in 1 .. 3  BY <2>2
  <2>4. Highest(pending, order) = order[CHOOSE i \in 1 .. 3 : First(i)]
    BY <1>1, <2>1 DEF Highest, First
  <2> QED  BY <2>1, <2>3, <2>4
<1>2. CASE ~\E i \in DOMAIN order : Here(i)
  BY <1>2 DEF Highest, NoCause, Bits
<1> QED  BY <1>1, <1>2

LEMMA CausesInBits ==
  ASSUME NEW h
  PROVE  MachinePending(h) \in Bits /\ SupervisorPending(h) \in Bits
<1>1. /\ MEI \in Bits /\ MTI \in Bits /\ MSI \in Bits
      /\ SEI \in Bits /\ STI \in Bits /\ SSI \in Bits
  BY DEF MEI, MTI, MSI, SEI, STI, SSI, Bits
<1> QED  BY <1>1, HighestInBits DEF MachinePending, SupervisorPending

(* A trap is taken from a program, a supervisor's or an open handler.      *)
LEMMA TrapNests ==
  ASSUME NEW n, NEW h \in Hart, Nesting(n, h), NEW interrupt \in BOOLEAN, NEW cause \in Bits,
         n.pc \in {"main", "supervisor", "open"}
  PROVE  Nesting(Trapped(n, h, interrupt, cause), TakeTrap(h, interrupt, cause))
<1> DEFINE t == Trapped(n, h, interrupt, cause)
           g == TakeTrap(h, interrupt, cause)
           regs == Registered(n, interrupt, cause)
<1>1. n \in NestState /\ Unsaved(n) = 0  BY DEF Nesting, Unsaved
<1>2. regs \in TrapRegisters /\ regs.epc = n.pc
  BY <1>1 DEF Registered, TrapRegisters, NestState
<1>3. /\ h.priv \in Privileges /\ h.mstatus \in Status /\ h.sstatus \in Status
  BY DEF Hart
<1> HIDE DEF regs
<1>4. CASE Delegated(h, interrupt, cause)
  <2> DEFINE d == <<Interrupted(n, h, h.sstatus)>>
  <2>1. h.priv # "M"  BY <1>4 DEF Delegated
  <2>2. n.pc \notin Handler  BY <2>1 DEF Nesting, Placed
  <2>3. d \in Seq(Interruption)
    BY <1>1, <1>3 DEF Interrupted, Interruption, NestState, Status
  <2> HIDE DEF d
  <2>4. t = [n EXCEPT !.pc = "supervisor", !.supervisor = regs, !.delegated = d]
    BY <1>4 DEF Trapped, regs, d
  <2>5. /\ t \in NestState /\ t.pc = "supervisor"
        /\ t.from = n.from /\ t.stack = n.stack /\ t.machine = n.machine
    BY <1>1, <1>2, <2>3, <2>4 DEF NestState, Places
  <2> HIDE DEF t
  <2>6. Unsaved(t) = 0  BY <2>5 DEF Unsaved
  <2>7. Aligned(t) /\ Chained(t)
    BY <1>1, <2>5, <2>6 DEF Nesting, Aligned, Chained
  <2>8. Placed(t, g)  BY <2>2, <2>5, <2>6 DEF Nesting, Placed, Handler
  <2> QED  BY <2>5, <2>7, <2>8 DEF Nesting, t
<1>5. CASE ~Delegated(h, interrupt, cause)
  <2> DEFINE i == Interrupted(n, h, h.mstatus)
  <2>1. i \in Interruption /\ i.pc = n.pc /\ i.priv = h.priv /\ i.ie = h.mstatus.ie
    BY <1>1, <1>3 DEF Interrupted, Interruption, NestState, Status
  <2> HIDE DEF i
  <2>2. t = [n EXCEPT !.pc = "entered", !.machine = regs, !.from = <<i>> \o @]
    BY <1>5 DEF Trapped, regs, i
  <2>3. n.from \in Seq(Interruption)  BY <1>1 DEF NestState
  <2>4. <<i>> \o n.from \in Seq(Interruption)  BY <2>1, <2>3, Push
  <2>5. /\ t \in NestState /\ t.pc = "entered" /\ t.machine = regs
        /\ t.from = <<i>> \o n.from /\ t.stack = n.stack
    BY <1>1, <1>2, <2>2, <2>4 DEF NestState, Places
  <2>6. /\ Len(t.from) = Len(n.from) + 1 /\ t.from[1] = i
        /\ \A k \in 1 .. Len(n.from) : t.from[k + 1] = n.from[k]
        /\ Len(n.from) \in Nat
    BY <2>1, <2>3, <2>5, Push
  <2> HIDE DEF t
  <2>7. Unsaved(t) = 1  BY <2>5 DEF Unsaved
  <2>8. Aligned(t)
    BY <1>1, <2>5, <2>6, <2>7 DEF Nesting, Aligned
  <2>9. Chained(t)
    <3> SUFFICES ASSUME NEW k \in 1 .. Len(t.from)
                 PROVE  IF k < Len(t.from) THEN t.from[k].pc = "open" /\ t.from[k].priv = "M"
                        ELSE t.from[k].pc \in {"main", "supervisor"}
      BY DEF Chained
    <3>1. CASE k = 1
      <4>1. CASE Len(n.from) > 0
        <5>1. n.pc = "open" /\ h.priv = "M"  BY <4>1 DEF Nesting, Placed, Handler
        <5> QED  BY <2>1, <2>6, <3>1, <4>1, <5>1
      <4>2. CASE ~(Len(n.from) > 0)
        <5>1. n.pc \in {"main", "supervisor"}  BY <4>2 DEF Nesting, Placed, Handler
        <5> QED  BY <2>1, <2>6, <3>1, <4>2, <5>1
      <4> QED  BY <4>1, <4>2
    <3>2. CASE k # 1
      <4>1. k - 1 \in 1 .. Len(n.from) /\ t.from[k] = n.from[k - 1]
        <5>1. k - 1 \in 1 .. Len(n.from) /\ (k - 1) + 1 = k  BY <2>6, <3>2
        <5> QED  BY <2>6, <5>1
      <4> QED  BY <2>6, <4>1 DEF Nesting, Chained
    <3> QED  BY <3>1, <3>2
  <2>10. Placed(t, g)
    <3>1. g = [h EXCEPT !.mstatus = Entered(@, h.priv), !.priv = "M"]
      BY <1>5 DEF TakeTrap
    <3>2. /\ g.priv = "M" /\ g.mstatus = Entered(h.mstatus, h.priv)
      BY <3>1 DEF Hart
    <3>3. ~g.mstatus.ie /\ g.mstatus.pie = h.mstatus.ie /\ g.mstatus.pp = h.priv
      BY <3>2 DEF Entered
    <3>4. Keeps(t.machine.epc, g.mstatus, t.from[1])
      BY <1>2, <2>1, <2>5, <2>6, <3>3 DEF Keeps
    <3> QED  BY <2>5, <2>6, <3>2, <3>3, <3>4 DEF Placed, Handler
  <2> QED  BY <2>5, <2>8, <2>9, <2>10 DEF Nesting, t
<1> QED  BY <1>4, <1>5

(* Interrupts are taken by programs and open handlers only.                *)
LEMMA InterruptNests ==
  ASSUME NEW n, NEW h \in Hart, Nesting(n, h)
  PROVE  Nesting(AfterInterrupt(n, h), HandleInterrupt(h))
<1>1. MachinePending(h) \in Bits /\ SupervisorPending(h) \in Bits  BY CausesInBits
<1>2. ASSUME TakesMachine(h) \/ TakesSupervisor(h)
      PROVE  n.pc \in {"main", "supervisor", "open"}
  <2>1. n.pc \in Places  BY DEF Nesting, NestState
  <2>2. n.pc \notin (Handler \ {"open"}) \cup {"boot"}
    BY <1>2 DEF TakesMachine, TakesSupervisor, Nesting, Placed
  <2> QED  BY <2>1, <2>2 DEF Places, Handler
<1>3. CASE TakesMachine(h)
  BY <1>1, <1>2, <1>3, TrapNests DEF AfterInterrupt, HandleInterrupt
<1>4. CASE ~TakesMachine(h) /\ TakesSupervisor(h)
  BY <1>1, <1>2, <1>4, TrapNests DEF AfterInterrupt, HandleInterrupt
<1>5. CASE ~TakesMachine(h) /\ ~TakesSupervisor(h)
  BY <1>5 DEF AfterInterrupt, HandleInterrupt
<1> QED  BY <1>3, <1>4, <1>5

LEMMA SaveNests ==
  ASSUME NEW n, NEW h \in Hart, Nesting(n, h), n.pc = "entered"
  PROVE  Nesting(Saved(n, h), h)
<1> DEFINE f == [regs |-> n.machine, status |-> h.mstatus]
           t == Saved(n, h)
<1>1. /\ n \in NestState /\ Unsaved(n) = 1 /\ h.mstatus \in Status /\ ~h.mstatus.ie
      /\ Keeps(n.machine.epc, h.mstatus, n.from[1])
  BY DEF Nesting, Placed, Unsaved, Hart, Handler
<1>2. f \in Frame /\ f.regs.epc = n.machine.epc /\ f.status = h.mstatus
  BY <1>1 DEF Frame, NestState
<1> HIDE DEF f
<1>3. t = [n EXCEPT !.pc = "saved", !.stack = <<f>> \o @]  BY DEF Saved, f
<1>4. n.stack \in Seq(Frame) /\ n.from \in Seq(Interruption)  BY <1>1 DEF NestState
<1>5. <<f>> \o n.stack \in Seq(Frame)  BY <1>2, <1>4, Push
<1>6. /\ t \in NestState /\ t.pc = "saved" /\ t.stack = <<f>> \o n.stack
      /\ t.from = n.from
  BY <1>1, <1>3, <1>5 DEF NestState, Places
<1>7. /\ Len(t.stack) = Len(n.stack) + 1 /\ t.stack[1] = f
      /\ \A k \in 1 .. Len(n.stack) : t.stack[k + 1] = n.stack[k]
      /\ Len(n.stack) \in Nat
  BY <1>2, <1>4, <1>6, Push
<1> HIDE DEF t
<1>8. Unsaved(t) = 0  BY <1>6 DEF Unsaved
<1>9. Aligned(t)
  <2>1. Len(n.from) = Len(n.stack) + 1  BY <1>1 DEF Nesting, Aligned
  <2>2. ASSUME NEW k \in 1 .. Len(t.stack)
        PROVE  /\ Keeps(t.stack[k].regs.epc, t.stack[k].status, t.from[k])
               /\ ~t.stack[k].status.ie
    <3>1. CASE k = 1  BY <1>1, <1>2, <1>6, <1>7, <3>1
    <3>2. CASE k # 1
      <4>1. k - 1 \in 1 .. Len(n.stack) /\ (k - 1) + 1 = k  BY <1>7, <3>2
      <4>2. t.stack[k] = n.stack[k - 1]  BY <1>7, <4>1
      <4>3. /\ Keeps(n.stack[k - 1].regs.epc, n.stack[k - 1].status, n.from[k])
            /\ ~n.stack[k - 1].status.ie
        BY <1>1, <4>1 DEF Nesting, Aligned
      <4> QED  BY <1>6, <4>2, <4>3
    <3> QED  BY <3>1, <3>2
  <2>3. /\ Len(t.from) = Len(t.stack) + Unsaved(t)
        /\ \A k \in 1 .. Len(t.stack) : k + Unsaved(t) = k
    BY <1>6, <1>7, <1>8, <2>1
  <2> QED  BY <2>2, <2>3 DEF Aligned
<1>10. Chained(t)  BY <1>6 DEF Nesting, Chained
<1>11. Placed(t, h)  BY <1>6, <1>8 DEF Nesting, Placed, Handler
<1> QED  BY <1>6, <1>9, <1>10, <1>11 DEF Nesting, t

(* Opening and closing change nothing but where the handler is.            *)
LEMMA MoveNests ==
  ASSUME NEW n, NEW h \in Hart, Nesting(n, h), NEW at, NEW s \in Status,
         \/ n.pc = "saved" /\ at = "open"
         \/ n.pc = "open" /\ at = "closed" /\ ~s.ie
  PROVE  Nesting([n EXCEPT !.pc = at], WriteMstatus(h, s))
<1> DEFINE t == [n EXCEPT !.pc = at]
           g == WriteMstatus(h, s)
<1>1. n \in NestState /\ n.pc \in Handler /\ h.priv = "M"  BY DEF Nesting, Placed, Handler
<1>2. /\ t \in NestState /\ t.pc = at /\ t.from = n.from /\ t.stack = n.stack
      /\ Unsaved(n) = 0
  BY <1>1 DEF NestState, Places, Unsaved
<1>3. g.priv = "M" /\ g.mstatus = s  BY <1>1 DEF WriteMstatus, Hart
<1> HIDE DEF t, g
<1>4. Unsaved(t) = 0  BY <1>2 DEF Unsaved
<1>5. Aligned(t) /\ Chained(t)  BY <1>2, <1>4 DEF Nesting, Aligned, Chained
<1>6. Placed(t, g)  BY <1>1, <1>2, <1>3, <1>4 DEF Nesting, Placed, Handler
<1> QED  BY <1>2, <1>5, <1>6 DEF Nesting, t, g

LEMMA RestoreNests ==
  ASSUME NEW n, NEW h \in Hart, Nesting(n, h), n.pc \in {"saved", "closed"}
  PROVE  /\ Head(n.stack).status \in Status
         /\ Nesting(Restored(n), WriteMstatus(h, Head(n.stack).status))
<1> DEFINE f == Head(n.stack)
           t == Restored(n)
           g == WriteMstatus(h, f.status)
<1>1. n \in NestState /\ n.pc \in Handler /\ Unsaved(n) = 0 /\ h.priv = "M" /\ ~h.mstatus.ie
  BY DEF Nesting, Placed, Handler, Unsaved
<1>2. n.stack \in Seq(Frame) /\ Len(n.stack) > 0 /\ Len(n.from) = Len(n.stack)
  BY <1>1 DEF Nesting, Aligned, Placed, NestState
<1>3. /\ f \in Frame /\ f = n.stack[1] /\ Tail(n.stack) \in Seq(Frame)
      /\ Len(Tail(n.stack)) = Len(n.stack) - 1
      /\ \A k \in 1 .. Len(n.stack) - 1 : Tail(n.stack)[k] = n.stack[k + 1]
  BY <1>2, Pop
<1>4. f.status \in Status /\ f.regs \in TrapRegisters  BY <1>3 DEF Frame
<1>5. Keeps(f.regs.epc, f.status, n.from[1]) /\ ~f.status.ie
  BY <1>1, <1>2, <1>3 DEF Nesting, Aligned
<1> HIDE DEF f
<1>6. t = [n EXCEPT !.pc = "restored", !.machine = f.regs, !.stack = Tail(@)]
  BY DEF Restored, f
<1>7. /\ t \in NestState /\ t.pc = "restored" /\ t.from = n.from
      /\ t.stack = Tail(n.stack) /\ t.machine = f.regs
  BY <1>1, <1>3, <1>4, <1>6 DEF NestState, Places
<1>8. g.priv = "M" /\ g.mstatus = f.status  BY <1>1 DEF WriteMstatus, Hart
<1> HIDE DEF t, g
<1>9. Unsaved(t) = 1  BY <1>7 DEF Unsaved
<1>10. Aligned(t)
  BY <1>1, <1>2, <1>3, <1>7, <1>9 DEF Nesting, Aligned
<1>11. Chained(t)  BY <1>7 DEF Nesting, Chained
<1>12. Placed(t, g)
  BY <1>1, <1>2, <1>5, <1>7, <1>8 DEF Placed, Handler
<1> QED  BY <1>4, <1>7, <1>10, <1>11, <1>12 DEF Nesting, t, g, f

(* A return takes back what was interrupted last.                          *)
LEMMA ReturnNests ==
  ASSUME NEW n, NEW h \in Hart, Nesting(n, h), n.pc \in {"entered", "restored"}
  PROVE  /\ Nesting(Returned(n), TrapReturn(h))
         /\ Returned(n).pc = n.from[1].pc
         /\ TrapReturn(h).priv = n.from[1].priv
         /\ TrapReturn(h).mstatus.ie = n.from[1].ie
         /\ Head(n.from) = n.from[1] /\ n.from[1] \in Interruption
<1> DEFINE t == Returned(n)
           g == TrapReturn(h)
           i == n.from[1]
<1>1. n \in NestState /\ Unsaved(n) = 1 /\ Keeps(n.machine.epc, h.mstatus, i)
  BY DEF Nesting, Placed, Unsaved
<1>2. n.from \in Seq(Interruption) /\ Len(n.from) > 0 /\ Len(n.from) = Len(n.stack) + 1
  BY <1>1 DEF Nesting, Aligned, Placed, NestState, Handler
<1>3. /\ i \in Interruption /\ Head(n.from) = i /\ Tail(n.from) \in Seq(Interruption)
      /\ Len(Tail(n.from)) = Len(n.from) - 1
      /\ \A k \in 1 .. Len(n.from) - 1 : Tail(n.from)[k] = n.from[k + 1]
  BY <1>2, Pop
<1>4. n.machine.epc = i.pc /\ h.mstatus.pp = i.priv /\ h.mstatus.pie = i.ie
  BY <1>1 DEF Keeps
<1>5. g.priv = i.priv /\ g.mstatus.ie = i.ie
  BY <1>4 DEF TrapReturn, Hart
<1>6. /\ t \in NestState /\ t.pc = i.pc /\ t.from = Tail(n.from) /\ t.stack = n.stack
  BY <1>1, <1>3, <1>4 DEF Returned, NestState, Interruption
<1>7. IF Len(n.from) > 1 THEN i.pc = "open" /\ i.priv = "M" ELSE i.pc \in {"main", "supervisor"}
  BY <1>2 DEF Nesting, Chained
<1> HIDE DEF t, g, i
<1>8. Unsaved(t) = 0  BY <1>6, <1>7 DEF Unsaved
<1>9. Aligned(t)
  BY <1>1, <1>2, <1>3, <1>6, <1>8 DEF Nesting, Aligned
<1>10. Chained(t)
  BY <1>2, <1>3, <1>6 DEF Nesting, Chained
<1>11. Placed(t, g)
  BY <1>2, <1>3, <1>5, <1>6, <1>7, <1>8 DEF Placed, Handler
<1> QED  BY <1>3, <1>5, <1>6, <1>9, <1>10, <1>11 DEF Nesting, t, g, i

-----------------------------------------------------------------------------
(* Privilege.                                                              *)

(* Below machine mode mpp is U: software there cannot write mstatus, and a *)
(* trap that stays below leaves it alone.                                  *)
LowModesReturnToUser(h) == h.priv # "M" => h.mstatus.pp = "U"
Sound(h) == h \in Hart /\ LowModesReturnToUser(h)

USE DEF Status, Privileges

LEMMA StatusSound ==
  ASSUME NEW s \in Status, NEW p \in Privileges
  PROVE  Entered(s, p) \in Status
BY DEF Entered

LEMMA MachineTrapSound ==
  ASSUME NEW h, Sound(h)
  PROVE  Sound([h EXCEPT !.mstatus = Entered(@, h.priv), !.priv = "M"])
<1> DEFINE n == [h EXCEPT !.mstatus = Entered(@, h.priv), !.priv = "M"]
<1>1. h \in Hart  BY DEF Sound
<1>2. Entered(h.mstatus, h.priv) \in Status  BY <1>1, StatusSound DEF Hart
<1>3. n \in Hart /\ n.priv = "M"  BY <1>1, <1>2 DEF Hart
<1> QED  BY <1>3 DEF Sound, LowModesReturnToUser

LEMMA SupervisorTrapSound ==
  ASSUME NEW h, Sound(h), h.priv # "M"
  PROVE  Sound([h EXCEPT !.sstatus = Entered(@, h.priv), !.priv = "S"])
<1> DEFINE n == [h EXCEPT !.sstatus = Entered(@, h.priv), !.priv = "S"]
<1>1. h \in Hart /\ h.mstatus.pp = "U"  BY DEF Sound, LowModesReturnToUser
<1>2. Entered(h.sstatus, h.priv) \in Status  BY <1>1, StatusSound DEF Hart
<1>3. n \in Hart /\ n.mstatus = h.mstatus  BY <1>1, <1>2 DEF Hart
<1> QED  BY <1>1, <1>3 DEF Sound, LowModesReturnToUser

LEMMA TrapSound ==
  ASSUME NEW h, Sound(h), NEW interrupt, NEW cause
  PROVE  Sound(TakeTrap(h, interrupt, cause))
<1>1. CASE Delegated(h, interrupt, cause)
  <2>1. h.priv # "M"  BY <1>1 DEF Delegated
  <2> QED  BY <1>1, <2>1, SupervisorTrapSound DEF TakeTrap
<1>2. CASE ~Delegated(h, interrupt, cause)
  BY <1>2, MachineTrapSound DEF TakeTrap
<1> QED  BY <1>1, <1>2

LEMMA InterruptSound ==
  ASSUME NEW h, Sound(h)
  PROVE  Sound(HandleInterrupt(h))
BY TrapSound DEF HandleInterrupt

LEMMA SyncSound ==
  ASSUME NEW h, Sound(h), NEW mtip, NEW msip, NEW meip, NEW seip
  PROVE  /\ Sound(Sync(h, mtip, msip, meip, seip))
         /\ Sync(h, mtip, msip, meip, seip).priv = h.priv
         /\ Sync(h, mtip, msip, meip, seip).mstatus = h.mstatus
<1>1. h \in Hart  BY DEF Sound
<1> DEFINE mip == (h.mip \ {MSI, MTI, MEI}) \cup
                  {b \in {MSI, MTI, MEI} : \/ b = MSI /\ msip
                                           \/ b = MTI /\ mtip
                                           \/ b = MEI /\ meip}
           sip == IF seip THEN h.sip \cup {SEI} ELSE h.sip \ {SEI}
           n   == [h EXCEPT !.mip = mip, !.sip = sip]
<1>2. mip \in SUBSET Bits
  <2>1. {MSI, MTI, MEI} \subseteq Bits  BY DEF MSI, MTI, MEI, Bits
  <2>2. h.mip \subseteq Bits  BY <1>1 DEF Hart
  <2> QED  BY <2>1, <2>2, Zenon
<1>3. sip \in SUBSET Bits
  <2>1. SEI \in Bits  BY DEF SEI, Bits
  <2>2. h.sip \subseteq Bits  BY <1>1 DEF Hart
  <2> QED  BY <2>1, <2>2, Zenon
<1> HIDE DEF mip, sip
<1>4. n \in Hart /\ n.priv = h.priv /\ n.mstatus = h.mstatus  BY <1>1, <1>2, <1>3 DEF Hart
<1>5. Sound(n)  BY <1>4 DEF Sound, LowModesReturnToUser
<1> QED  BY <1>4, <1>5 DEF Sync, mip, sip

LEMMA ReturnSound ==
  ASSUME NEW h, Sound(h)
  PROVE  Sound(TrapReturn(h)) /\ NotAbove(TrapReturn(h).priv, h.priv)
<1> DEFINE n == TrapReturn(h)
<1>1. h \in Hart  BY DEF Sound
<1>2. n \in Hart /\ n.priv = h.mstatus.pp /\ n.mstatus.pp = "U"
  BY <1>1 DEF TrapReturn, Hart
<1> QED  BY <1>1, <1>2 DEF Sound, LowModesReturnToUser, NotAbove, Hart

LEMMA MstatusSound ==
  ASSUME NEW h, Sound(h), h.priv = "M", NEW s \in Status
  PROVE  Sound(WriteMstatus(h, s))
<1>1. h \in Hart  BY DEF Sound
<1>2. WriteMstatus(h, s) \in Hart /\ WriteMstatus(h, s).priv = "M"
  BY <1>1 DEF WriteMstatus, Hart
<1> QED  BY <1>2 DEF Sound, LowModesReturnToUser

(* The other CSRs.                                                         *)
LEMMA RegisterSound ==
  ASSUME NEW h, Sound(h), NEW v \in SUBSET Bits
  PROVE  /\ Sound(WriteMie(h, v)) /\ Sound(WriteMip(h, v))
         /\ Sound(WriteMideleg(h, v)) /\ Sound(WriteMedeleg(h, v))
         /\ Sound(WriteSie(h, v)) /\ Sound(WriteSip(h, v))
<1>1. h \in Hart  BY DEF Sound
<1> DEFINE Kept(n) == n \in Hart /\ n.priv = h.priv /\ n.mstatus = h.mstatus
<1>2. ASSUME NEW n, Kept(n)  PROVE Sound(n)
  BY <1>2 DEF Sound, LowModesReturnToUser
<1>3. SupervisorBits \subseteq Bits  BY DEF SupervisorBits, SSI, STI, SEI, Bits
<1>4. Kept(WriteMie(h, v))  BY <1>1 DEF WriteMie, Hart
<1>5. Kept(WriteMideleg(h, v))  BY <1>1 DEF WriteMideleg, Hart
<1>6. Kept(WriteMedeleg(h, v))  BY <1>1 DEF WriteMedeleg, Hart
<1>7. Kept(WriteMip(h, v))  BY <1>1, <1>3 DEF WriteMip, Hart
<1>8. Kept(WriteSie(h, v))  BY <1>1 DEF WriteSie, Hart
<1>9. Kept(WriteSip(h, v))  BY <1>1, <1>3 DEF WriteSip, Hart
<1> QED  BY <1>2, <1>4, <1>5, <1>6, <1>7, <1>8, <1>9

LEMMA SstatusSound ==
  ASSUME NEW h, Sound(h), NEW s \in Status
  PROVE  Sound(WriteSstatus(h, s))
<1>1. h \in Hart  BY DEF Sound
<1>2. /\ WriteSstatus(h, s) \in Hart
      /\ WriteSstatus(h, s).priv = h.priv /\ WriteSstatus(h, s).mstatus = h.mstatus
  BY <1>1 DEF WriteSstatus, Hart
<1> QED  BY <1>2 DEF Sound, LowModesReturnToUser

LEMMA CsrSound ==
  ASSUME NEW h, Sound(h), NEW new, CsrWrite(h, new)
  PROVE  Sound(new)
<1>1. Values \subseteq SUBSET Bits  BY TrapsAssumption
<1>2. CASE h.priv = "M" /\ MachineWrite(h, new)
  BY <1>1, <1>2, MstatusSound, RegisterSound DEF MachineWrite
<1>3. CASE SupervisorWrite(h, new)
  BY <1>1, <1>3, SstatusSound, RegisterSound DEF SupervisorWrite
<1> QED  BY <1>2, <1>3 DEF CsrWrite

LEMMA InitSound == Init => Sound(hart)
<1> SUFFICES ASSUME Init PROVE Sound(hart)  OBVIOUS
<1>1. NewHart \in Hart /\ NewHart.priv = "M"  BY DEF NewHart, NewStatus, Hart
<1> QED  BY <1>1 DEF Init, Sound, LowModesReturnToUser

LEMMA SetUpSound ==
  ASSUME Sound(hart), NEW step, SetUp(step)
  PROVE  Sound(hart')
<1> DEFINE s == [NewStatus EXCEPT !.ie = TRUE]
<1>1. s \in Status  BY DEF NewStatus
<1>2. {MEI} \in SUBSET Bits  BY DEF MEI, Bits
<1>3. Sound(WriteMie(hart, {MEI}))  BY <1>2, RegisterSound
<1>4. Sound(WriteMstatus(hart, s))  BY <1>1, MstatusSound DEF SetUp
<1> HIDE DEF s
<1>5. \/ hart' = WriteMie(hart, {MEI}) \/ hart' = WriteMstatus(hart, s) \/ hart' = hart
  BY DEF SetUp, s
<1> QED  BY <1>3, <1>4, <1>5

LEMMA BootSound ==
  ASSUME NEW h, Sound(h), h.priv = "M", NEW priv \in Privileges, NEW m \in BOOLEAN,
         NEW s \in BOOLEAN, NEW v \in SUBSET Bits
  PROVE  Sound(TrapReturn(WriteMstatus(WriteSstatus(WriteMedeleg(
                 WriteMie(h, {MSI, MTI}), v), [NewStatus EXCEPT !.ie = s]),
                 [ie |-> FALSE, pie |-> m, pp |-> priv])))
<1> DEFINE a == WriteMie(h, {MSI, MTI})
           b == WriteMedeleg(a, v)
           c == WriteSstatus(b, [NewStatus EXCEPT !.ie = s])
           d == WriteMstatus(c, [ie |-> FALSE, pie |-> m, pp |-> priv])
<1>1. {MSI, MTI} \in SUBSET Bits  BY DEF MSI, MTI, Bits
<1>2. [NewStatus EXCEPT !.ie = s] \in Status /\ [ie |-> FALSE, pie |-> m, pp |-> priv] \in Status
  BY DEF NewStatus
<1>3. Sound(a) /\ a.priv = "M"
  <2>1. Sound(a)  BY <1>1, RegisterSound
  <2>2. a.priv = "M"  BY DEF WriteMie, Sound, Hart
  <2> QED  BY <2>1, <2>2
<1> HIDE DEF a
<1>4. Sound(b) /\ b.priv = "M"  BY <1>3, RegisterSound DEF WriteMedeleg, Sound, Hart
<1> HIDE DEF b
<1>5. Sound(c) /\ c.priv = "M"  BY <1>2, <1>4, SstatusSound DEF WriteSstatus, Sound, Hart
<1> HIDE DEF c
<1>6. Sound(d)  BY <1>2, <1>5, MstatusSound
<1> HIDE DEF d
<1>7. Sound(TrapReturn(d))  BY <1>6, ReturnSound
<1> QED  BY <1>7 DEF a, b, c, d

LEMMA StatusFieldSound ==
  ASSUME NEW h, Sound(h), NEW on \in BOOLEAN
  PROVE  [h.mstatus EXCEPT !.ie = on] \in Status /\ [h.mstatus EXCEPT !.ie = on].ie = on
BY DEF Sound, Hart

(* The steps of the nested handlers.                                       *)
NestStep ==
  \/ \E priv \in Privileges, m, s \in BOOLEAN, delegated \in {{}, {13}} :
       Boot(priv, m, s, delegated)
  \/ Fault \/ SaveFrame \/ OpenInterrupts \/ CloseInterrupts \/ RestoreFrame \/ ReturnNested

InNesting == software = "nested" => Nesting(nest, hart)

LEMMA NestStepSound ==
  ASSUME Sound(hart), InNesting, NestStep
  PROVE  Sound(hart') /\ Nesting(nest', hart')
<1>1. software = "nested" /\ Nesting(nest, hart) /\ hart \in Hart
  BY DEF NestStep, Boot, Fault, SaveFrame, OpenInterrupts, CloseInterrupts, RestoreFrame,
         ReturnNested, InHandler, Nested, InNesting, Sound
<1>2. ASSUME NEW priv \in Privileges, NEW m \in BOOLEAN, NEW s \in BOOLEAN,
             NEW delegated \in {{}, {13}}, Boot(priv, m, s, delegated)
      PROVE  Sound(hart') /\ Nesting(nest', hart')
  <2>1. Sound(hart')
    <3>1. delegated \in SUBSET Bits  BY DEF Bits
    <3> QED  BY <1>2, <3>1, BootSound DEF Boot
  <2>2. nest \in NestState /\ nest.pc = "boot" /\ nest' = [nest EXCEPT !.pc = "main"]
    BY <1>1, <1>2 DEF Boot, Nesting
  <2>3. /\ nest' \in NestState /\ nest'.pc = "main"
        /\ nest'.from = nest.from /\ nest'.stack = nest.stack
    BY <2>2 DEF NestState, Places
  <2>4. Unsaved(nest) = 0 /\ Unsaved(nest') = 0  BY <2>2, <2>3 DEF Unsaved
  <2>5. Aligned(nest') /\ Chained(nest')
    BY <1>1, <2>3, <2>4 DEF Nesting, Aligned, Chained
  <2>6. Placed(nest', hart')
    BY <1>1, <2>2, <2>3, <2>4 DEF Nesting, Placed, Handler
  <2> QED  BY <2>1, <2>3, <2>5, <2>6 DEF Nesting
<1>3. CASE Fault
  <2>1. 13 \in Bits /\ nest.pc \in {"main", "supervisor", "open"}
    BY <1>3 DEF Fault, Bits
  <2> QED  BY <1>1, <1>3, <2>1, TrapSound, TrapNests DEF Fault
<1>4. CASE SaveFrame
  BY <1>1, <1>4, SaveNests DEF SaveFrame, InHandler
<1>5. CASE OpenInterrupts
  <2>1. [hart.mstatus EXCEPT !.ie = TRUE] \in Status  BY StatusFieldSound
  <2> QED  BY <1>1, <1>5, <2>1, MoveNests, MstatusSound DEF OpenInterrupts, InHandler
<1>6. CASE CloseInterrupts
  <2>1. /\ [hart.mstatus EXCEPT !.ie = FALSE] \in Status
        /\ ~[hart.mstatus EXCEPT !.ie = FALSE].ie
    BY StatusFieldSound
  <2> QED  BY <1>1, <1>6, <2>1, MoveNests, MstatusSound DEF CloseInterrupts, InHandler
<1>7. CASE RestoreFrame
  BY <1>1, <1>7, RestoreNests, MstatusSound DEF RestoreFrame, InHandler
<1>8. CASE ReturnNested
  BY <1>1, <1>8, ReturnNests, ReturnSound DEF ReturnNested, InHandler
<1> QED  BY <1>2, <1>3, <1>4, <1>5, <1>6, <1>7, <1>8 DEF NestStep

LEMMA ClockSound ==
  ASSUME Sound(hart), InNesting, Clock
  PROVE  Sound(hart') /\ InNesting'
<1> DEFINE h == Synced(clint', plic')
<1>1. Sound(h) /\ h.priv = hart.priv /\ h.mstatus = hart.mstatus
  BY SyncSound DEF Synced
<1> HIDE DEF h
<1>2. hart' = HandleInterrupt(h)  BY DEF Clock, HartNow, h
<1>3. Sound(hart')  BY <1>1, <1>2, InterruptSound
<1>4. ASSUME software = "nested"  PROVE Nesting(nest', hart')
  <2>1. Nesting(nest, h)  BY <1>1, <1>4 DEF InNesting, Nesting, Placed
  <2>2. nest' = AfterInterrupt(nest, h)  BY <1>4 DEF Clock, h
  <2> QED  BY <1>1, <1>2, <2>1, <2>2, InterruptNests DEF Sound
<1> QED  BY <1>3, <1>4 DEF Clock, InNesting

LEMMA NewNesting == Nesting(NewNest, NewHart)
<1>1. /\ NewNest \in NestState /\ NewNest.pc = "boot"
      /\ NewNest.from = <<>> /\ NewNest.stack = <<>>
  BY DEF NewNest, NestState, NewRegisters, TrapRegisters, Places, Bits
<1>2. NewHart.priv = "M" /\ ~NewHart.mstatus.ie  BY DEF NewHart, NewStatus
<1>3. Unsaved(NewNest) = 0  BY <1>1 DEF Unsaved
<1> QED  BY <1>1, <1>2, <1>3 DEF Nesting, Aligned, Chained, Placed, Handler

LEMMA StepSound == Sound(hart) /\ InNesting /\ [Next]_vars => Sound(hart') /\ InNesting'
<1> SUFFICES ASSUME Sound(hart), InNesting, [Next]_vars
             PROVE  Sound(hart') /\ InNesting'
  OBVIOUS
<1>1. CASE Clock
  BY <1>1, ClockSound
<1>2. CASE NestStep
  BY <1>2, NestStepSound DEF InNesting
<1>3. CASE Reset
  <2>1. NewHart \in Hart /\ NewHart.priv = "M"  BY DEF NewHart, NewStatus, Hart
  <2> QED  BY <1>3, <2>1, NewNesting DEF Reset, Sound, LowModesReturnToUser, InNesting
<1>4. CASE CsrInstruction
  BY <1>4, CsrSound DEF CsrInstruction, HartOnly, InNesting
<1>5. CASE ReturnFromTrap
  BY <1>5, ReturnSound DEF ReturnFromTrap, HartOnly, InNesting
<1>6. CASE HandlerReturns
  BY <1>6, ReturnSound DEF HandlerReturns, HandlerAt, InNesting
<1>7. ASSUME NEW cause \in {12, 13, 15}, PageFault(cause)  PROVE Sound(hart') /\ InNesting'
  BY <1>7, TrapSound DEF PageFault, HartOnly, InNesting
<1>8. ASSUME NEW step \in Setup, SetUp(step)  PROVE Sound(hart') /\ InNesting'
  BY <1>8, SetUpSound DEF SetUp, InNesting
<1> DEFINE Others == UNCHANGED <<software, hart, nest>>
<1>9. Others => Sound(hart') /\ InNesting'
  BY DEF InNesting
<1>10. ASSUME NEW s \in Lines, RaiseLine(s) \/ LowerLine(s)  PROVE Others
  BY <1>10 DEF RaiseLine, LowerLine, programs
<1>11. CASE ByteArrives \/ UsePlic \/ UseUart \/ UseClint
  BY <1>9, <1>11 DEF ByteArrives, UsePlic, UseUart, UseClint, programs
<1>12. ASSUME NEW t \in Times, MoveDeadline(t)  PROVE Others
  BY <1>12 DEF MoveDeadline, TimerStore, programs
<1>13. CASE SetLow \/ SetHigh
  BY <1>9, <1>13 DEF SetLow, SetHigh, TimerStore, programs
<1>14. CASE HandlerClaims \/ HandlerReads \/ HandlerIsDone \/ HandlerCompletes
  BY <1>9, <1>14
  DEF HandlerClaims, HandlerReads, HandlerIsDone, HandlerCompletes, HandlerAt, programs
<1>15. CASE UNCHANGED vars
  BY <1>9, <1>15 DEF vars
<1>16. CASE WriteCounter \/ ReadHigh \/ ReadLow \/ ReadAgain
  BY <1>9, <1>16 DEF WriteCounter, ReadHigh, ReadLow, ReadAgain, Counting
<1>17. ASSUME NEW h \in Happenings, CountedClock(h)  PROVE Others
  BY <1>17 DEF CountedClock, Counting
<1> HIDE DEF Others
<1> QED
  BY <1>1, <1>2, <1>3, <1>4, <1>5, <1>6, <1>7, <1>8, <1>9, <1>10, <1>11, <1>12, <1>13,
     <1>14, <1>15, <1>16, <1>17
  DEF Next, UartDriver, NestStep

LEMMA AlwaysSound == Spec => [](Sound(hart) /\ InNesting)
<1>1. Init => Sound(hart) /\ InNesting
  BY InitSound, NewNesting DEF Init, InNesting
<1>2. (Sound(hart) /\ InNesting) /\ [Next]_vars => (Sound(hart) /\ InNesting)'  BY StepSound
<1> QED  BY <1>1, <1>2, PTL DEF Spec

(* A trap return never raises the privilege, however CSR instructions,     *)
(* interrupts, page faults and their delegation have nested before it      *)
(* (execute_trap_return()).                                                *)
THEOREM ReturnsOnlyLower == Spec => ReturnsNeverRaise
<1>1. (Sound(hart) /\ InNesting) /\ [Next]_vars =>
        [ReturnFromTrap \/ HandlerReturns \/ ReturnNested =>
           NotAbove(hart'.priv, hart.priv)]_vars
  BY ReturnSound DEF ReturnFromTrap, HandlerReturns, ReturnNested
<1> QED  BY <1>1, AlwaysSound, PTL DEF Spec, ReturnsNeverRaise

(* For any depth: however interrupts and page faults nest in handlers that *)
(* save their frame, a return comes back to what it interrupted            *)
(* (take_m_trap(), execute_trap_return()).                                 *)
THEOREM HandlersReturn == Spec => ReturnsWhereTrapped
<1>1. (Sound(hart) /\ InNesting) /\ [Next]_vars =>
        [ReturnNested =>
           [pc |-> nest'.pc, priv |-> hart'.priv, ie |-> hart'.mstatus.ie]
             = Head(nest.from)]_vars
  <2> SUFFICES ASSUME Sound(hart), InNesting, ReturnNested
               PROVE  [pc |-> nest'.pc, priv |-> hart'.priv, ie |-> hart'.mstatus.ie]
                        = Head(nest.from)
    OBVIOUS
  <2>1. /\ Nesting(nest, hart) /\ hart \in Hart
        /\ nest.pc \in {"entered", "restored"}
        /\ hart' = TrapReturn(hart) /\ nest' = Returned(nest)
    BY DEF ReturnNested, InHandler, Nested, InNesting, Sound
  <2> DEFINE i == nest.from[1]
  <2>2. /\ nest'.pc = i.pc /\ hart'.priv = i.priv /\ hart'.mstatus.ie = i.ie
        /\ Head(nest.from) = i /\ i \in Interruption
    BY <2>1, ReturnNests
  <2> QED  BY <2>2 DEF Interruption
<1> QED  BY <1>1, AlwaysSound, PTL DEF Spec, ReturnsWhereTrapped

-----------------------------------------------------------------------------
(* The supervisor's frame: nobody enables or delegates an interrupt for    *)
(* the supervisor, so that its registers change at a delegated page fault  *)
(* and, before the program starts, at the boot only.                       *)
FrameKept(n, h) ==
  n.delegated # <<>> =>
    /\ n.supervisor = [epc |-> Head(n.delegated).pc, interrupt |-> FALSE, code |-> 13]
    /\ h.sstatus = [ie |-> FALSE, pie |-> Head(n.delegated).ie, pp |-> Head(n.delegated).priv]

FaultsOnly(n, h) ==
  /\ h.sie = {} /\ h.mideleg = {}
  /\ n.pc = "boot" => n.delegated = <<>>
  /\ FrameKept(n, h)

FrameInv == IF software = "nested" THEN FaultsOnly(nest, hart) ELSE nest.delegated = <<>>

LEMMA KeepsFaultsOnly ==
  ASSUME NEW n, NEW h, FaultsOnly(n, h), NEW m, NEW g,
         m.delegated = n.delegated, m.supervisor = n.supervisor,
         m.pc = "boot" => n.pc = "boot",
         g.sie = h.sie, g.mideleg = h.mideleg, g.sstatus = h.sstatus
  PROVE  FaultsOnly(m, g)
BY DEF FaultsOnly, FrameKept

LEMMA MachineTrapOnly ==
  ASSUME NEW n \in NestState, NEW h \in Hart, FaultsOnly(n, h), NEW interrupt, NEW cause,
         ~Delegated(h, interrupt, cause)
  PROVE  FaultsOnly(Trapped(n, h, interrupt, cause), TakeTrap(h, interrupt, cause))
<1> DEFINE m == Trapped(n, h, interrupt, cause)
           g == TakeTrap(h, interrupt, cause)
<1>1. m.delegated = n.delegated /\ m.supervisor = n.supervisor /\ m.pc = "entered"
  BY DEF Trapped, NestState
<1>2. g.sie = h.sie /\ g.mideleg = h.mideleg /\ g.sstatus = h.sstatus
  BY DEF TakeTrap, Hart
<1> HIDE DEF m, g
<1>3. FaultsOnly(m, g)  BY <1>1, <1>2, KeepsFaultsOnly
<1> QED  BY <1>3 DEF m, g

LEMMA FaultFaultsOnly ==
  ASSUME NEW n \in NestState, NEW h \in Hart, FaultsOnly(n, h)
  PROVE  FaultsOnly(Trapped(n, h, FALSE, 13), TakeTrap(h, FALSE, 13))
<1>1. CASE ~Delegated(h, FALSE, 13)
  BY <1>1, MachineTrapOnly
<1>2. CASE Delegated(h, FALSE, 13)
  <2> DEFINE m == Trapped(n, h, FALSE, 13)
             g == TakeTrap(h, FALSE, 13)
             d == Interrupted(n, h, h.sstatus)
  <2>1. /\ m.pc = "supervisor" /\ m.delegated = <<d>>
        /\ m.supervisor = [epc |-> n.pc, interrupt |-> FALSE, code |-> 13]
    BY <1>2 DEF Trapped, NestState, Registered
  <2>2. /\ g.sie = h.sie /\ g.mideleg = h.mideleg
        /\ g.sstatus = [ie |-> FALSE, pie |-> h.sstatus.ie, pp |-> h.priv]
    BY <1>2 DEF TakeTrap, Hart, Entered
  <2>3. d.pc = n.pc /\ d.ie = h.sstatus.ie /\ d.priv = h.priv  BY DEF Interrupted
  <2> HIDE DEF m, g, d
  <2>4. Head(m.delegated) = d  BY <2>1
  <2>5. FaultsOnly(m, g)  BY <2>1, <2>2, <2>3, <2>4 DEF FaultsOnly, FrameKept
  <2> QED  BY <2>5 DEF m, g
<1> QED  BY <1>1, <1>2

LEMMA NothingPending ==
  ASSUME NEW h, h.sie = {}
  PROVE  SupervisorPending(h) = NoCause
<1>1. h.sip \cap h.sie = {}  OBVIOUS
<1> QED  BY <1>1 DEF SupervisorPending, Highest

LEMMA InterruptFaultsOnly ==
  ASSUME NEW n \in NestState, NEW h \in Hart, FaultsOnly(n, h)
  PROVE  FaultsOnly(AfterInterrupt(n, h), HandleInterrupt(h))
<1>1. ~TakesSupervisor(h)  BY NothingPending DEF FaultsOnly, TakesSupervisor
<1>2. ~Delegated(h, TRUE, MachinePending(h))  BY DEF FaultsOnly, Delegated
<1>3. CASE TakesMachine(h)
  BY <1>2, <1>3, MachineTrapOnly DEF AfterInterrupt, HandleInterrupt
<1>4. CASE ~TakesMachine(h)
  BY <1>1, <1>4 DEF AfterInterrupt, HandleInterrupt
<1> QED  BY <1>3, <1>4

LEMMA ClockFaultsOnly == Sound(hart) /\ InNesting /\ FrameInv /\ Clock => FrameInv'
<1> SUFFICES ASSUME Sound(hart), InNesting, FrameInv, Clock  PROVE FrameInv'
  OBVIOUS
<1>1. CASE software = "nested"
  <2> DEFINE h == Synced(clint', plic')
  <2>1. nest \in NestState /\ h \in Hart /\ FaultsOnly(nest, hart)
    BY <1>1, SyncSound DEF InNesting, Nesting, FrameInv, Synced, Sound
  <2>2. h.sie = hart.sie /\ h.mideleg = hart.mideleg /\ h.sstatus = hart.sstatus
    BY DEF Synced, Sync, Sound, Hart
  <2>3. hart' = HandleInterrupt(h) /\ nest' = AfterInterrupt(nest, h) /\ software' = software
    BY <1>1 DEF Clock, HartNow
  <2> HIDE DEF h
  <2>4. FaultsOnly(nest, h)  BY <2>1, <2>2, KeepsFaultsOnly
  <2> QED  BY <1>1, <2>1, <2>3, <2>4, InterruptFaultsOnly DEF FrameInv
<1>2. CASE software # "nested"
  BY <1>2 DEF Clock, FrameInv
<1> QED  BY <1>1, <1>2

LEMMA NestStepFaultsOnly == Sound(hart) /\ InNesting /\ FrameInv /\ NestStep => FrameInv'
<1> SUFFICES ASSUME Sound(hart), InNesting, FrameInv, NestStep  PROVE FrameInv'
  OBVIOUS
<1>1. software = "nested" /\ software' = software /\ Nesting(nest, hart)
  BY DEF NestStep, Boot, Fault, SaveFrame, OpenInterrupts, CloseInterrupts, RestoreFrame,
         ReturnNested, InHandler, Nested, InNesting
<1>2. nest \in NestState /\ hart \in Hart /\ FaultsOnly(nest, hart)
  BY <1>1 DEF Nesting, Sound, FrameInv
<1>3. SUFFICES FaultsOnly(nest', hart')  BY <1>1 DEF FrameInv
<1>4. CASE \E priv \in Privileges, m, s \in BOOLEAN, delegated \in {{}, {13}} :
             Boot(priv, m, s, delegated)
  <2>1. /\ nest.pc = "boot" /\ nest' = [nest EXCEPT !.pc = "main"]
        /\ hart'.sie = hart.sie /\ hart'.mideleg = hart.mideleg
    BY <1>2, <1>4
    DEF Boot, TrapReturn, WriteMstatus, WriteSstatus, WriteMedeleg, WriteMie, Hart
  <2>2. nest'.delegated = <<>> /\ nest'.pc = "main"
    BY <1>2, <2>1 DEF FaultsOnly, NestState
  <2> QED  BY <1>2, <2>1, <2>2 DEF FaultsOnly, FrameKept
<1>5. CASE Fault
  BY <1>2, <1>5, FaultFaultsOnly DEF Fault
<1> DEFINE Same == /\ nest'.delegated = nest.delegated /\ nest'.supervisor = nest.supervisor
                   /\ hart'.sie = hart.sie /\ hart'.mideleg = hart.mideleg
                   /\ hart'.sstatus = hart.sstatus
<1>6. ASSUME Same, nest'.pc # "boot"  PROVE FaultsOnly(nest', hart')
  BY <1>2, <1>6, KeepsFaultsOnly
<1>7. CASE SaveFrame
  <2>1. Same /\ nest'.pc = "saved"  BY <1>2, <1>7 DEF SaveFrame, Saved, NestState
  <2> QED  BY <1>6, <2>1
<1>8. CASE OpenInterrupts \/ CloseInterrupts
  <2>1. Same /\ nest'.pc \in {"open", "closed"}
    BY <1>2, <1>8 DEF OpenInterrupts, CloseInterrupts, WriteMstatus, NestState, Hart
  <2> QED  BY <1>6, <2>1
<1>9. CASE RestoreFrame
  <2>1. Same /\ nest'.pc = "restored"
    BY <1>2, <1>9 DEF RestoreFrame, Restored, WriteMstatus, NestState, Hart
  <2> QED  BY <1>6, <2>1
<1>10. CASE ReturnNested
  <2>1. nest.pc \in {"entered", "restored"} /\ nest' = Returned(nest) /\ hart' = TrapReturn(hart)
    BY <1>10 DEF ReturnNested, InHandler
  <2>2. Same  BY <1>2, <2>1 DEF Returned, TrapReturn, NestState, Hart
  <2>3. nest'.pc # "boot"
    <3>1. nest'.pc = nest.from[1].pc /\ nest.from \in Seq(Interruption) /\ Len(nest.from) > 0
      BY <1>1, <1>2, <2>1, ReturnNests DEF Nesting, Placed, Handler, NestState
    <3>2. 1 \in 1 .. Len(nest.from)  BY <3>1
    <3> QED  BY <1>1, <3>1, <3>2 DEF Nesting, Chained
  <2> QED  BY <1>6, <2>2, <2>3
<1> QED  BY <1>4, <1>5, <1>7, <1>8, <1>9, <1>10 DEF NestStep

LEMMA StepFaultsOnly ==
  (Sound(hart) /\ InNesting) /\ FrameInv /\ [Next]_vars => FrameInv'
<1> SUFFICES ASSUME Sound(hart), InNesting, FrameInv, [Next]_vars  PROVE FrameInv'
  OBVIOUS
<1> DEFINE Others == UNCHANGED <<software, nest>> /\ (software = "nested" => UNCHANGED hart)
<1>1. Others => FrameInv'  BY DEF FrameInv, FaultsOnly, FrameKept
<1>2. CASE Clock
  BY <1>2, ClockFaultsOnly
<1>3. CASE NestStep
  BY <1>3, NestStepFaultsOnly
<1>4. CASE Reset
  BY <1>4 DEF Reset, FrameInv, FaultsOnly, FrameKept, NewNest, NewHart
<1>5. CASE CsrInstruction \/ ReturnFromTrap
  BY <1>1, <1>5 DEF CsrInstruction, ReturnFromTrap, HartOnly, programs
<1>6. ASSUME NEW cause \in {12, 13, 15}, PageFault(cause)  PROVE Others
  BY <1>6 DEF PageFault, HartOnly, programs
<1>7. ASSUME NEW step \in Setup, SetUp(step)  PROVE Others
  BY <1>7 DEF SetUp, programs
<1>8. CASE HandlerClaims \/ HandlerReads \/ HandlerIsDone \/ HandlerCompletes \/ HandlerReturns
  BY <1>1, <1>8
  DEF HandlerClaims, HandlerReads, HandlerIsDone, HandlerCompletes, HandlerReturns, HandlerAt,
      programs
<1>9. ASSUME NEW s \in Lines, RaiseLine(s) \/ LowerLine(s)  PROVE Others
  BY <1>9 DEF RaiseLine, LowerLine, programs
<1>10. CASE ByteArrives \/ UsePlic \/ UseUart \/ UseClint
  BY <1>1, <1>10 DEF ByteArrives, UsePlic, UseUart, UseClint, programs
<1>11. ASSUME NEW t \in Times, MoveDeadline(t)  PROVE Others
  BY <1>11 DEF MoveDeadline, TimerStore, programs
<1>12. CASE SetLow \/ SetHigh
  BY <1>1, <1>12 DEF SetLow, SetHigh, TimerStore, programs
<1>13. CASE UNCHANGED vars
  BY <1>1, <1>13 DEF vars
<1>14. CASE WriteCounter \/ ReadHigh \/ ReadLow \/ ReadAgain
  BY <1>1, <1>14 DEF WriteCounter, ReadHigh, ReadLow, ReadAgain, Counting
<1>15. ASSUME NEW h \in Happenings, CountedClock(h)  PROVE Others
  BY <1>15 DEF CountedClock, Counting
<1> HIDE DEF Others
<1> QED
  BY <1>1, <1>2, <1>3, <1>4, <1>5, <1>6, <1>7, <1>8, <1>9, <1>10, <1>11, <1>12, <1>13,
     <1>14, <1>15
  DEF Next, UartDriver, NestStep

(* For any depth: machine-mode traps that interrupt the supervisor's       *)
(* handler of a page fault leave it sepc, scause and sstatus as its own    *)
(* trap set them (take_trap()).                                            *)
THEOREM SupervisorReturns == Spec => []SupervisorFrameKept
<1>1. Init => FrameInv
  BY DEF Init, NewNest, NewHart, FrameInv, FaultsOnly, FrameKept
<1>2. (Sound(hart) /\ InNesting) /\ FrameInv /\ [Next]_vars => FrameInv'
  BY StepFaultsOnly
<1>3. FrameInv => SupervisorFrameKept
  BY DEF FrameInv, FaultsOnly, FrameKept, SupervisorFrameKept
<1> QED  BY <1>1, <1>2, <1>3, AlwaysSound, PTL DEF Spec

-----------------------------------------------------------------------------
(* The UART.                                                               *)
UartSound(u) == u \in UartState /\ RxCurrent(u)

USE UartAssumption

LEMMA UpdateSound ==
  ASSUME NEW u \in UartState, u.dataReady <=> u.rx > 0
  PROVE  UartSound(UpdateIir(u))
BY DEF UpdateIir, UartState, UartSound, RxCurrent

LEMMA ReceiveSound ==
  ASSUME NEW u, UartSound(u)
  PROVE  UartSound(ReceiveByte(u))
<1>1. CASE u.rx < FifoSize
  <2> DEFINE n == [u EXCEPT !.rx = @ + 1, !.dataReady = TRUE]
  <2>1. u \in UartState /\ u.rx + 1 \in 0 .. FifoSize  BY <1>1 DEF UartSound, UartState
  <2>2. n \in UartState /\ n.rx = u.rx + 1 /\ n.dataReady = TRUE  BY <2>1 DEF UartState
  <2>3. n.dataReady <=> n.rx > 0  BY <2>1, <2>2 DEF UartState
  <2> QED  BY <1>1, <2>2, <2>3, UpdateSound DEF ReceiveByte
<1>2. CASE ~(u.rx < FifoSize)
  BY <1>2 DEF ReceiveByte, UartSound, UartState, RxCurrent
<1> QED  BY <1>1, <1>2

LEMMA ReadRbrSound ==
  ASSUME NEW u, UartSound(u)
  PROVE  UartSound(ReadRbr(u))
<1>1. CASE u.dlab \/ u.rx = 0
  BY <1>1 DEF ReadRbr
<1>2. CASE ~(u.dlab \/ u.rx = 0)
  <2> DEFINE more == u.rx > 1
             n == [u EXCEPT !.rx = @ - 1, !.dataReady = more]
  <2>1. u \in UartState /\ u.rx - 1 \in 0 .. FifoSize /\ more \in BOOLEAN
    BY <1>2 DEF UartSound, UartState
  <2>2. more <=> u.rx - 1 > 0  BY <2>1 DEF UartState
  <2> HIDE DEF more
  <2>3. n \in UartState /\ n.rx = u.rx - 1 /\ n.dataReady = more  BY <2>1 DEF UartState
  <2>4. UartSound(UpdateIir(n))  BY <2>2, <2>3, UpdateSound
  <2> QED  BY <1>2, <2>4 DEF ReadRbr, more
<1> QED  BY <1>1, <1>2

LEMMA WriteThrSound ==
  ASSUME NEW u, UartSound(u)
  PROVE  UartSound(WriteThr(u))
<1>1. CASE u.dlab
  BY <1>1 DEF WriteThr
<1>2. CASE ~u.dlab
  <2> DEFINE n == [u EXCEPT !.tx = IF @ < FifoSize THEN @ + 1 ELSE @]
  <2>1. n \in UartState /\ (n.dataReady <=> n.rx > 0)
    BY <1>2 DEF UartSound, UartState, RxCurrent
  <2> QED  BY <1>2, <2>1, UpdateSound DEF WriteThr
<1> QED  BY <1>1, <1>2

LEMMA WriteIerSound ==
  ASSUME NEW u, UartSound(u), NEW e \in SUBSET {"rx", "tx"}
  PROVE  UartSound(WriteIer(u, e))
<1>1. CASE u.dlab
  BY <1>1 DEF WriteIer
<1>2. CASE ~u.dlab
  <2> DEFINE n == [u EXCEPT !.ier = e]
  <2>1. n \in UartState /\ (n.dataReady <=> n.rx > 0)
    BY <1>2 DEF UartSound, UartState, RxCurrent
  <2> QED  BY <1>2, <2>1, UpdateSound DEF WriteIer
<1> QED  BY <1>1, <1>2

LEMMA WriteFcrSound ==
  ASSUME NEW u, UartSound(u), NEW r \in SUBSET {"rx", "tx"}
  PROVE  UartSound(WriteFcr(u, r))
<1> DEFINE ready == u.dataReady /\ "rx" \notin r
           rx == IF "rx" \in r THEN 0 ELSE u.rx
           tx == IF "tx" \in r THEN 0 ELSE u.tx
           n == [u EXCEPT !.rx = rx, !.tx = tx, !.dataReady = ready]
<1>1. u \in UartState /\ RxCurrent(u)  BY DEF UartSound
<1>2. /\ ready \in BOOLEAN /\ rx \in 0 .. FifoSize /\ tx \in 0 .. FifoSize
      /\ rx > 0 => rx = u.rx
  BY <1>1 DEF UartState
<1>3. ready <=> rx > 0  BY <1>1 DEF RxCurrent, UartState
<1> HIDE DEF ready, rx, tx
<1>4. /\ n \in UartState /\ n.rx = rx /\ n.dataReady = ready
      /\ n.ier = u.ier /\ n.iir = u.iir
  BY <1>1, <1>2 DEF UartState
<1>5. UartSound(n)  BY <1>1, <1>2, <1>3, <1>4 DEF UartSound, RxCurrent
<1> QED  BY <1>5 DEF WriteFcr, ready, rx, tx

LEMMA OtherAccessSound ==
  ASSUME NEW u, UartSound(u), NEW on \in BOOLEAN
  PROVE  UartSound(ReadLsr(u)) /\ UartSound(WriteLcr(u, on))
BY DEF UartSound, UartState, RxCurrent, ReadLsr, WriteLcr

LEMMA AccessSound ==
  ASSUME NEW u, UartSound(u), NEW n \in UartAccesses(u)
  PROVE  UartSound(n)
BY ReadRbrSound, WriteThrSound, WriteIerSound, WriteFcrSound, OtherAccessSound
DEF UartAccesses

LEMMA UartStepSound == UartSound(uart) /\ [Next]_vars => UartSound(uart')
<1> SUFFICES ASSUME UartSound(uart), [Next]_vars  PROVE UartSound(uart')
  OBVIOUS
<1>1. CASE ByteArrives
  BY <1>1, ReceiveSound DEF ByteArrives
<1>2. CASE UseUart
  BY <1>2, AccessSound DEF UseUart
<1>3. CASE HandlerReads
  BY <1>3, ReadRbrSound DEF HandlerReads
<1>4. ASSUME NEW step \in Setup, SetUp(step)  PROVE UartSound(uart')
  BY <1>4, WriteIerSound DEF SetUp
<1>5. CASE Clock
  BY <1>5 DEF Clock
<1>6. CASE CsrInstruction \/ ReturnFromTrap \/ Reset
  BY <1>6 DEF CsrInstruction, ReturnFromTrap, Reset, HartOnly, devices
<1>7. ASSUME NEW cause \in {12, 13, 15}, PageFault(cause)  PROVE UNCHANGED uart
  BY <1>7 DEF PageFault, HartOnly, devices
<1>8. ASSUME NEW s \in Lines, RaiseLine(s) \/ LowerLine(s)  PROVE UNCHANGED uart
  BY <1>8 DEF RaiseLine, LowerLine
<1>9. ASSUME NEW t \in Times, MoveDeadline(t)  PROVE UNCHANGED uart
  BY <1>9 DEF MoveDeadline, TimerStore
<1>10. CASE SetLow \/ SetHigh \/ UsePlic \/ UseClint
  BY <1>10 DEF SetLow, SetHigh, TimerStore, UsePlic, UseClint
<1>11. CASE HandlerClaims \/ HandlerIsDone \/ HandlerCompletes \/ HandlerReturns
  BY <1>11 DEF HandlerClaims, HandlerIsDone, HandlerCompletes, HandlerReturns
<1>12. CASE UNCHANGED vars
  BY <1>12 DEF vars
<1>13. CASE WriteCounter \/ ReadHigh \/ ReadLow \/ ReadAgain
  BY <1>13 DEF WriteCounter, ReadHigh, ReadLow, ReadAgain, Counting, devices
<1>14. ASSUME NEW h \in Happenings, CountedClock(h)  PROVE UNCHANGED uart
  BY <1>14 DEF CountedClock, Counting, devices
<1>15. CASE NestStep
  BY <1>15
  DEF NestStep, Boot, Fault, SaveFrame, OpenInterrupts, CloseInterrupts, RestoreFrame,
      ReturnNested, InHandler, Nested, devices
<1> QED
  BY <1>1, <1>2, <1>3, <1>4, <1>5, <1>6, <1>7, <1>8, <1>9, <1>10, <1>11, <1>12, <1>13,
     <1>14, <1>15
  DEF Next, UartDriver, NestStep

(* For a FIFO of any size: whatever is received, read, written, enabled    *)
(* and reset, received bytes show as data ready and, if enabled, as the    *)
(* UART's interrupt (update_iir()).                                        *)
THEOREM RxLineAlwaysCurrent == Spec => []RxLineCurrent
<1>1. Init => UartSound(uart)
  BY DEF Init, NewUart, UartSound, UartState, RxCurrent
<1>2. UartSound(uart) /\ [Next]_vars => UartSound(uart)'
  BY UartStepSound
<1>3. UartSound(uart) => RxLineCurrent
  BY DEF UartSound, RxLineCurrent
<1> QED  BY <1>1, <1>2, <1>3, PTL DEF Spec

-----------------------------------------------------------------------------
(* The PLIC.                                                               *)
PlicSound == plic \in PlicState /\ lines \subseteq Lines

LEMMA PlicStepSound == PlicSound /\ [Next]_vars => PlicSound'
<1> SUFFICES ASSUME PlicSound, [Next]_vars  PROVE PlicSound'
  OBVIOUS
<1>1. /\ plic \in PlicState /\ lines \subseteq Lines /\ Lines \subseteq Sources
      /\ UartSource \in Sources /\ 0 \in Priorities /\ 1 \in Priorities
      /\ Context \in Contexts /\ "machine" \in Contexts
  BY InterruptsAssumption, PlicAssumption DEF PlicSound, Context, Contexts
<1> DEFINE Others == UNCHANGED <<plic, lines>>
<1>2. Others => PlicSound'  BY DEF PlicSound
<1>3. CASE Clock
  <2> DEFINE T == lines \cup (IF HasUart /\ Irq(uart) THEN {UartSource} ELSE {})
  <2>1. T \in SUBSET Sources  BY <1>1
  <2> HIDE DEF T
  <2>2. SetPending(plic, T) \in PlicState  BY <1>1, <2>1, SetPendingSound
  <2>3. plic' \in PlicState /\ lines' \subseteq Lines
    BY <1>1, <1>3, <2>2 DEF Clock, SyncPlic, T
  <2> QED  BY <2>3 DEF PlicSound
<1>4. ASSUME NEW s \in Lines, RaiseLine(s) \/ LowerLine(s)  PROVE PlicSound'
  BY <1>1, <1>4 DEF RaiseLine, LowerLine, PlicSound
<1>5. CASE UsePlic
  <2>1. \/ plic' \in StorePlic(plic, Context, Lines) \/ plic' = Claim(plic, Context)
        \/ \E s \in Lines : plic' = StoreClaim(plic, Context, s)
    BY <1>5 DEF UsePlic
  <2>2. plic' \in PlicState
    BY <1>1, <2>1, StorePlicSound, ClaimSound, StoreClaimSound
  <2> QED  BY <1>1, <1>5, <2>2 DEF UsePlic, PlicSound
<1>6. ASSUME NEW step \in Setup, SetUp(step)  PROVE PlicSound'
  <2>1. /\ [plic EXCEPT !.priority[UartSource] = 1] \in PlicState
        /\ [plic EXCEPT !.enable["machine"] = {UartSource}] \in PlicState
    BY <1>1 DEF PlicState
  <2>2. \/ plic' = [plic EXCEPT !.priority[UartSource] = 1]
        \/ plic' = [plic EXCEPT !.enable["machine"] = {UartSource}]
        \/ plic' = plic
    BY <1>6 DEF SetUp
  <2> QED  BY <1>1, <1>6, <2>1, <2>2 DEF SetUp, PlicSound
<1>7. CASE HandlerCompletes
  BY <1>1, <1>7, StoreClaimSound DEF HandlerCompletes, HandlerAt, PlicSound
<1>8. CASE ByteArrives \/ UseUart \/ UseClint
  BY <1>2, <1>8 DEF ByteArrives, UseUart, UseClint
<1>9. CASE CsrInstruction \/ ReturnFromTrap \/ Reset
  BY <1>2, <1>9 DEF CsrInstruction, ReturnFromTrap, Reset, HartOnly, devices
<1>10. ASSUME NEW cause \in {12, 13, 15}, PageFault(cause)  PROVE Others
  BY <1>10 DEF PageFault, HartOnly, devices
<1>11. ASSUME NEW t \in Times, MoveDeadline(t)  PROVE Others
  BY <1>11 DEF MoveDeadline, TimerStore
<1>12. CASE SetLow \/ SetHigh
  BY <1>2, <1>12 DEF SetLow, SetHigh, TimerStore
<1>13. CASE HandlerClaims \/ HandlerReads \/ HandlerIsDone \/ HandlerReturns
  BY <1>2, <1>13 DEF HandlerClaims, HandlerReads, HandlerIsDone, HandlerReturns, HandlerAt
<1>14. CASE UNCHANGED vars
  BY <1>2, <1>14 DEF vars
<1>15. CASE WriteCounter \/ ReadHigh \/ ReadLow \/ ReadAgain
  BY <1>2, <1>15 DEF WriteCounter, ReadHigh, ReadLow, ReadAgain, Counting, devices
<1>16. ASSUME NEW h \in Happenings, CountedClock(h)  PROVE Others
  BY <1>16 DEF CountedClock, Counting, devices
<1>17. CASE NestStep
  BY <1>2, <1>17
  DEF NestStep, Boot, Fault, SaveFrame, OpenInterrupts, CloseInterrupts, RestoreFrame,
      ReturnNested, InHandler, Nested, devices
<1> HIDE DEF Others
<1> QED
  BY <1>2, <1>3, <1>4, <1>5, <1>6, <1>7, <1>8, <1>9, <1>10, <1>11, <1>12, <1>13, <1>14,
     <1>15, <1>16, <1>17
  DEF Next, UartDriver, NestStep

LEMMA AlwaysPlicSound == Spec => []PlicSound
<1>1. Init => PlicSound
  <2>1. NewPlic \in PlicState  BY PlicAssumption DEF NewPlic, PlicState
  <2> QED  BY <2>1 DEF Init, PlicSound
<1>2. PlicSound /\ [Next]_vars => PlicSound'  BY PlicStepSound
<1> QED  BY <1>1, <1>2, PTL DEF Spec

(* For any number of sources and priorities, whatever was raised, claimed, *)
(* completed and stored: a context is offered the first of its sources of  *)
(* the highest priority above the threshold (best_pending_source()).       *)
THEOREM BestIsClaimed == Spec => []ClaimsBest
<1>1. PlicSound => ClaimsBest
  BY BestAmongOffered DEF PlicSound, ClaimsBest, IsBest
<1> QED  BY <1>1, AlwaysPlicSound, PTL

-----------------------------------------------------------------------------
(* Halves of registers.                                                    *)
LEMMA ProductGrows ==
  ASSUME NEW a \in Nat, NEW b \in Nat, NEW c \in Nat, a <= b
  PROVE  a * c <= b * c
OBVIOUS

LEMMA HalfPositive ==
  /\ Half \in Nat \ {0} /\ Half * Half \in Nat \ {0} /\ (Half - 1) * Half = Half * Half - Half
  /\ \A v \in Halves : v \in Nat /\ v <= Half - 1
  /\ \A t \in Times : t \in Nat /\ t < Half * Half
  /\ Half - 1 \in Halves
BY ClintAssumption DEF Halves, Times

LEMMA Divided ==
  ASSUME NEW t \in Nat
  PROVE  /\ t \div Half \in Nat /\ t % Half \in Halves
         /\ t = (t \div Half) * Half + (t % Half)
BY ClintAssumption DEF Halves

LEMMA HighHalf ==
  ASSUME NEW t \in Times
  PROVE  t \div Half \in Halves
<1> DEFINE d == t \div Half
<1>1. /\ d \in Nat /\ t % Half \in Halves /\ t = d * Half + (t % Half) /\ t < Half * Half
      /\ Half \in Nat
  BY HalfPositive, Divided
<1> HIDE DEF d
<1>2. ASSUME Half <= d  PROVE FALSE
   <2>1. Half * Half <= d * Half  BY <1>1, <1>2, ProductGrows
   <2> QED  BY <1>1, <2>1 DEF Halves
<1>3. d \in Halves  BY <1>1, <1>2 DEF Halves
<1> QED  BY <1>3 DEF d

LEMMA Composed ==
  ASSUME NEW h \in Halves, NEW l \in Halves
  PROVE  h * Half + l \in Times
<1>1. Half \in Nat \ {0} /\ h \in Nat /\ l \in Nat /\ h <= Half - 1 /\ l <= Half - 1
  BY HalfPositive
<1>2. h * Half <= (Half - 1) * Half  BY <1>1, ProductGrows
<1>3. (Half - 1) * Half = Half * Half - Half  BY HalfPositive
<1> QED  BY <1>1, <1>2, <1>3 DEF Times

LEMMA Undone ==
  ASSUME NEW h \in Halves, NEW l \in Halves
  PROVE  (h * Half + l) \div Half = h /\ (h * Half + l) % Half = l
<1> DEFINE t == h * Half + l
           d == t \div Half
           m == t % Half
<1>1. Half \in Nat \ {0} /\ h \in Nat /\ l \in Nat /\ l < Half  BY HalfPositive
<1>2. t \in Nat  BY <1>1
<1>3. d \in Nat /\ m \in Nat /\ m < Half /\ h * Half + l = d * Half + m
  BY <1>1, <1>2, Divided DEF Halves
<1> HIDE DEF t, d, m
<1>4. ASSUME d < h  PROVE FALSE
  <2>1. (d + 1) * Half <= h * Half  BY <1>1, <1>3, <1>4, ProductGrows
  <2>2. (d + 1) * Half = d * Half + Half  BY <1>1, <1>3
  <2> QED  BY <1>1, <1>3, <2>1, <2>2
<1>5. ASSUME h < d  PROVE FALSE
  <2>1. (h + 1) * Half <= d * Half  BY <1>1, <1>3, <1>5, ProductGrows
  <2>2. (h + 1) * Half = h * Half + Half  BY <1>1, <1>3
  <2> QED  BY <1>1, <1>3, <2>1, <2>2
<1>6. d = h  BY <1>1, <1>3, <1>4, <1>5
<1>7. m = l  BY <1>1, <1>3, <1>6
<1> QED  BY <1>6, <1>7 DEF t, d, m

(* What a store to one half leaves.                                        *)
LEMMA HalfStored ==
  ASSUME NEW t \in Times, NEW v \in Halves
  PROVE  /\ WithLow(t, v) \in Times /\ WithHigh(t, v) \in Times
         /\ WithHigh(t, Half - 1) >= t
         /\ WithHigh(t, Half - 1) \div Half = Half - 1
         /\ WithLow(t, v) = (t \div Half) * Half + v
         /\ WithHigh(t, v) % Half = t % Half
<1>1. /\ t \div Half \in Halves /\ t % Half \in Halves /\ t \in Nat
      /\ t = (t \div Half) * Half + (t % Half)
      /\ Half - 1 \in Halves /\ Half \in Nat
  BY HighHalf, HalfPositive, Divided
<1> DEFINE d == t \div Half
           m == t % Half
<1>2. d \in Halves /\ m \in Halves /\ t = d * Half + m  BY <1>1
<1> HIDE DEF d, m
<1>3. WithLow(t, v) = d * Half + v /\ WithHigh(t, v) = v * Half + m
      /\ WithHigh(t, Half - 1) = (Half - 1) * Half + m
  BY DEF WithLow, WithHigh, d, m
<1>4. d \in Nat /\ Half - 1 \in Nat /\ d <= Half - 1 /\ m \in Nat  BY <1>1, <1>2, HalfPositive
<1>5. d * Half <= (Half - 1) * Half  BY <1>1, <1>4, ProductGrows
<1>6. d * Half \in Nat /\ (Half - 1) * Half \in Nat  BY <1>1, <1>4
<1>7. (Half - 1) * Half + m >= t  BY <1>2, <1>4, <1>5, <1>6
<1>8. (v * Half + m) % Half = m /\ ((Half - 1) * Half + m) \div Half = Half - 1
  BY <1>1, <1>2, Undone
<1>9. d * Half + v \in Times /\ v * Half + m \in Times  BY <1>2, Composed
<1> QED  BY <1>3, <1>7, <1>8, <1>9 DEF d, m

-----------------------------------------------------------------------------
(* The timer and the program that moves its deadline.                      *)
ClintSound == clint \in ClintState

(* While its deadline is moved the comparator holds the former one with    *)
(* the highest high half, then the new one with it.                        *)
Comparator(at, t, deadline, former) ==
  CASE at = "out"  -> t = deadline
    [] at = "low"  -> t >= former /\ t \div Half = Half - 1
    [] at = "high" -> t >= deadline /\ t % Half = deadline % Half
TimerInv ==
  software = "timer" =>
    /\ driver.at \in {"out", "low", "high"}
    /\ Comparator(driver.at, clint.mtimecmp, driver.deadline, driver.former)

DriverSound == driver \in Driver

LEMMA ClintOperations ==
  ASSUME NEW c \in ClintState, NEW b \in BOOLEAN, NEW half, NEW v \in Halves
  PROVE  /\ StoreMsip(c, b) \in ClintState /\ StoreMsip(c, b).mtimecmp = c.mtimecmp
         /\ StoreMtime(c, half, v) \in ClintState
         /\ StoreMtime(c, half, v).mtimecmp = c.mtimecmp
         /\ StoreMtimecmp(c, half, v) \in ClintState
         /\ Tick(c, 1) \in ClintState /\ Tick(c, 1).mtimecmp = c.mtimecmp
<1>1. c.mtime \in Times /\ c.mtimecmp \in Times  BY DEF ClintState
<1>2. /\ WithLow(c.mtime, v) \in Times /\ WithHigh(c.mtime, v) \in Times
      /\ WithLow(c.mtimecmp, v) \in Times /\ WithHigh(c.mtimecmp, v) \in Times
  BY <1>1, HalfStored
<1>3. (c.mtime + 1) % (Half * Half) \in Times
  BY <1>1, HalfPositive DEF Times
<1>4. StoreMsip(c, b) \in ClintState /\ StoreMsip(c, b).mtimecmp = c.mtimecmp
  BY DEF ClintState, StoreMsip
<1>5. /\ StoreMtime(c, half, v) \in ClintState
      /\ StoreMtime(c, half, v).mtimecmp = c.mtimecmp
  BY <1>2 DEF ClintState, StoreMtime
<1>6. StoreMtimecmp(c, half, v) \in ClintState
  BY <1>2 DEF ClintState, StoreMtimecmp
<1>7. Tick(c, 1) \in ClintState /\ Tick(c, 1).mtimecmp = c.mtimecmp
  BY <1>3 DEF ClintState, Tick
<1> QED  BY <1>4, <1>5, <1>6, <1>7

TimerSound == ClintSound /\ DriverSound /\ TimerInv

LEMMA MoveSound ==
  ASSUME TimerSound, NEW t \in Times, MoveDeadline(t)
  PROVE  TimerSound'
<1> DEFINE former == clint.mtimecmp
<1>1. /\ clint \in ClintState /\ driver \in Driver /\ former \in Times
      /\ software = "timer" /\ software' = "timer" /\ driver.at = "out"
      /\ former = driver.deadline
  BY DEF TimerSound, ClintSound, DriverSound, TimerInv, Comparator, ClintState,
         MoveDeadline, TimerStore
<1>2. Half - 1 \in Halves  BY HalfPositive
<1>3. clint' \in ClintState
  BY <1>1, <1>2, ClintOperations DEF MoveDeadline, TimerStore
<1>4. clint'.mtimecmp = WithHigh(former, Half - 1)
  BY <1>1 DEF MoveDeadline, TimerStore, StoreMtimecmp, ClintState
<1>5. driver' \in Driver /\ driver'.at = "low" /\ driver'.former = former
  BY <1>1 DEF MoveDeadline, TimerStore, Driver
<1>6. WithHigh(former, Half - 1) >= former /\ WithHigh(former, Half - 1) \div Half = Half - 1
  BY <1>1, <1>2, HalfStored
<1> QED  BY <1>1, <1>3, <1>4, <1>5, <1>6
         DEF TimerSound, ClintSound, DriverSound, TimerInv, Comparator

LEMMA SetLowSound ==
  ASSUME TimerSound, SetLow
  PROVE  TimerSound'
<1> DEFINE c == clint.mtimecmp
           d == driver.deadline
<1>1. /\ clint \in ClintState /\ driver \in Driver /\ c \in Times /\ d \in Times
      /\ software = "timer" /\ software' = "timer" /\ driver.at = "low"
      /\ c \div Half = Half - 1
  BY DEF TimerSound, ClintSound, DriverSound, TimerInv, Comparator, ClintState, Driver,
         SetLow, TimerStore
<1>2. d % Half \in Halves /\ d \div Half \in Halves /\ Half - 1 \in Halves
      /\ d \in Nat /\ d = (d \div Half) * Half + (d % Half)
  BY <1>1, HalfPositive, HighHalf, Divided
<1>3. clint' \in ClintState
  BY <1>1, <1>2, ClintOperations DEF SetLow, TimerStore
<1>4. clint'.mtimecmp = WithLow(c, d % Half)
  BY <1>1 DEF SetLow, TimerStore, StoreMtimecmp, ClintState
<1>5. driver' \in Driver /\ driver'.at = "high" /\ driver'.deadline = d
  BY <1>1 DEF SetLow, TimerStore, Driver
<1> DEFINE m == d % Half
           q == d \div Half
<1>6. WithLow(c, m) = (Half - 1) * Half + m  BY <1>1, <1>2, HalfStored
<1>7. ((Half - 1) * Half + m) % Half = m  BY <1>2, Undone
<1>8. (Half - 1) * Half + m >= d
  <2>1. q \in Nat /\ Half - 1 \in Nat /\ Half \in Nat /\ m \in Nat /\ q <= Half - 1
        /\ d = q * Half + m
    BY <1>2, HalfPositive
  <2> HIDE DEF m, q
  <2>2. q * Half <= (Half - 1) * Half  BY <2>1, ProductGrows
  <2>3. q * Half \in Nat /\ (Half - 1) * Half \in Nat  BY <2>1
  <2> QED  BY <2>1, <2>2, <2>3
<1> QED  BY <1>1, <1>3, <1>4, <1>5, <1>6, <1>7, <1>8
         DEF TimerSound, ClintSound, DriverSound, TimerInv, Comparator

LEMMA SetHighSound ==
  ASSUME TimerSound, SetHigh
  PROVE  TimerSound'
<1> DEFINE c == clint.mtimecmp
           d == driver.deadline
<1>1. /\ clint \in ClintState /\ driver \in Driver /\ c \in Times /\ d \in Times
      /\ software = "timer" /\ software' = "timer" /\ driver.at = "high"
      /\ c % Half = d % Half
  BY DEF TimerSound, ClintSound, DriverSound, TimerInv, Comparator, ClintState, Driver,
         SetHigh, TimerStore
<1>2. d \div Half \in Halves /\ d = (d \div Half) * Half + (d % Half)
  BY <1>1, HalfPositive, HighHalf, Divided
<1>3. clint' \in ClintState
  BY <1>1, <1>2, ClintOperations DEF SetHigh, TimerStore
<1>4. clint'.mtimecmp = WithHigh(c, d \div Half)
  BY <1>1 DEF SetHigh, TimerStore, StoreMtimecmp, ClintState
<1>5. driver' \in Driver /\ driver'.at = "out" /\ driver'.deadline = d
  BY <1>1 DEF SetHigh, TimerStore, Driver
<1>6. WithHigh(c, d \div Half) = d  BY <1>1, <1>2 DEF WithHigh
<1> QED  BY <1>1, <1>3, <1>4, <1>5, <1>6
         DEF TimerSound, ClintSound, DriverSound, TimerInv, Comparator

LEMMA TimerStepSound == TimerSound /\ [Next]_vars => TimerSound'
<1> SUFFICES ASSUME TimerSound, [Next]_vars  PROVE TimerSound'
  OBVIOUS
<1>1. clint \in ClintState /\ driver \in Driver /\ TimerInv
  BY DEF TimerSound, ClintSound, DriverSound
<1> DEFINE Kept == /\ software' = software /\ clint' \in ClintState
                   /\ clint'.mtimecmp = clint.mtimecmp /\ driver' \in Driver
                   /\ software = "timer" => driver' = driver
           Others == UNCHANGED <<software, clint, driver>>
<1>2. Kept => TimerSound'
  BY <1>1 DEF TimerSound, ClintSound, DriverSound, TimerInv, Comparator
<1>3. Others => TimerSound'
  BY <1>1, <1>2
<1>4. CASE Clock
  <2>1. clint' \in ClintState /\ clint'.mtimecmp = clint.mtimecmp
    BY <1>1, <1>4, ClintOperations, HalfPositive DEF Clock
  <2>2. driver' \in Driver /\ (software = "timer" => driver' = driver)
    BY <1>1, <1>4 DEF Clock, Driver
  <2> QED  BY <1>2, <1>4, <2>1, <2>2 DEF Clock
<1>5. CASE UseClint
  <2>1. \/ \E b \in BOOLEAN : clint' = StoreMsip(clint, b)
        \/ \E half \in {"low", "high"}, v \in Halves : clint' = StoreMtime(clint, half, v)
    BY <1>5 DEF UseClint
  <2>2. clint' \in ClintState /\ clint'.mtimecmp = clint.mtimecmp
    <3>1. ASSUME NEW b \in BOOLEAN, clint' = StoreMsip(clint, b)
          PROVE  clint' \in ClintState /\ clint'.mtimecmp = clint.mtimecmp
      BY <1>1, <3>1 DEF StoreMsip, ClintState
    <3>2. ASSUME NEW half \in {"low", "high"}, NEW v \in Halves, clint' = StoreMtime(clint, half, v)
          PROVE  clint' \in ClintState /\ clint'.mtimecmp = clint.mtimecmp
      <4>1. clint \in ClintState /\ FALSE \in BOOLEAN  BY <1>1
      <4>2. /\ StoreMtime(clint, half, v) \in ClintState
            /\ StoreMtime(clint, half, v).mtimecmp = clint.mtimecmp
        BY <4>1, ClintOperations
      <4> QED  BY <3>2, <4>2
    <3> QED  BY <2>1, <3>1, <3>2
  <2> QED  BY <1>1, <1>2, <1>5, <2>2 DEF UseClint
<1>6. ASSUME NEW t \in Times, MoveDeadline(t)  PROVE TimerSound'
  BY <1>6, MoveSound
<1>7. CASE SetLow
  BY <1>7, SetLowSound
<1>8. CASE SetHigh
  BY <1>8, SetHighSound
<1>9. ASSUME NEW step \in Setup, SetUp(step)  PROVE TimerSound'
  <2>1. driver' \in Driver  BY <1>1, <1>9 DEF SetUp, Driver
  <2> QED  BY <1>1, <1>2, <1>9, <2>1 DEF SetUp
<1>10. CASE HandlerClaims \/ HandlerReads \/ HandlerIsDone \/ HandlerCompletes \/ HandlerReturns
  <2>1. \E at, to \in {"out", "low", "high", "claim", "drain", "complete", "return"} :
          HandlerAt(at, to)
    BY <1>10 DEF HandlerClaims, HandlerReads, HandlerIsDone, HandlerCompletes, HandlerReturns
  <2>2. PICK to \in {"out", "low", "high", "claim", "drain", "complete", "return"} :
          driver' = [driver EXCEPT !.at = to]
    BY <2>1 DEF HandlerAt
  <2>3. driver' \in Driver  BY <1>1, <2>2 DEF Driver
  <2>4. software = "driver" /\ UNCHANGED <<software, clint>>  BY <2>1 DEF HandlerAt
  <2> QED  BY <1>1, <1>2, <2>3, <2>4
<1>11. ASSUME NEW s \in Lines, RaiseLine(s) \/ LowerLine(s)  PROVE Others
  BY <1>11 DEF RaiseLine, LowerLine
<1>12. CASE ByteArrives \/ UsePlic \/ UseUart
  BY <1>3, <1>12 DEF ByteArrives, UsePlic, UseUart
<1>13. CASE CsrInstruction \/ ReturnFromTrap \/ Reset
  BY <1>3, <1>13 DEF CsrInstruction, ReturnFromTrap, Reset, HartOnly, devices
<1>14. ASSUME NEW cause \in {12, 13, 15}, PageFault(cause)  PROVE Others
  BY <1>14 DEF PageFault, HartOnly, devices
<1>15. CASE UNCHANGED vars
  BY <1>3, <1>15 DEF vars
<1>16. CASE WriteCounter \/ ReadHigh \/ ReadLow \/ ReadAgain
  BY <1>3, <1>16 DEF WriteCounter, ReadHigh, ReadLow, ReadAgain, Counting, devices
<1>17. ASSUME NEW h \in Happenings, CountedClock(h)  PROVE Others
  BY <1>17 DEF CountedClock, Counting, devices
<1>18. CASE NestStep
  BY <1>3, <1>18
  DEF NestStep, Boot, Fault, SaveFrame, OpenInterrupts, CloseInterrupts, RestoreFrame,
      ReturnNested, InHandler, Nested, devices
<1> HIDE DEF Others, Kept
<1> QED
  BY <1>3, <1>4, <1>5, <1>6, <1>7, <1>8, <1>9, <1>10, <1>11, <1>12, <1>13, <1>14, <1>15,
     <1>16, <1>17, <1>18
  DEF Next, UartDriver, NestStep

LEMMA AlwaysTimerSound == Spec => []TimerSound
<1>1. Init => TimerSound
  <2>1. NewClint \in ClintState
    BY HalfPositive DEF NewClint, ClintState, Times
  <2>2. NewClint.mtimecmp \in Times  BY <2>1 DEF ClintState
  <2> QED  BY <2>1, <2>2
           DEF Init, TimerSound, ClintSound, DriverSound, TimerInv, Comparator, Driver, Setup
<1>2. TimerSound /\ [Next]_vars => TimerSound'  BY TimerStepSound
<1> QED  BY <1>1, <1>2, PTL DEF Spec

(* For registers of any width: while the deadline is moved by halves, and  *)
(* the time runs on or is set, no timer interrupt is pending before the    *)
(* former and the new deadline (write_register() of the CLINT).            *)
THEOREM TimerIsNeverEarly == Spec => []TimerNotEarly
<1>1. TimerSound => TimerNotEarly
  <2> SUFFICES ASSUME TimerSound, software = "timer", Mtip(clint)
               PROVE  \/ clint.mtime >= driver.deadline
                      \/ driver.at # "out" /\ clint.mtime >= driver.former
    BY DEF TimerNotEarly
  <2>1. /\ clint.mtime \in Nat /\ clint.mtimecmp \in Nat
        /\ driver.deadline \in Nat /\ driver.former \in Nat
    BY HalfPositive DEF TimerSound, ClintSound, DriverSound, ClintState, Driver
  <2>2. clint.mtime >= clint.mtimecmp  BY DEF Mtip
  <2>3. \/ driver.at = "low" /\ clint.mtimecmp >= driver.former
        \/ clint.mtimecmp >= driver.deadline
    <3>1. /\ driver.at \in {"out", "low", "high"}
          /\ Comparator(driver.at, clint.mtimecmp, driver.deadline, driver.former)
      BY DEF TimerSound, TimerInv
    <3>2. CASE driver.at = "out"  BY <2>1, <3>1, <3>2 DEF Comparator
    <3>3. CASE driver.at = "low"  BY <3>1, <3>3 DEF Comparator
    <3>4. CASE driver.at = "high"  BY <3>1, <3>4 DEF Comparator
    <3> QED  BY <3>1, <3>2, <3>3, <3>4
  <2> QED  BY <2>1, <2>2, <2>3
<1> QED  BY <1>1, AlwaysTimerSound, PTL

-----------------------------------------------------------------------------
(* The performance counter and the program that reads it by halves.  The   *)
(* program's reading starts at a count reader.start; n counts further on,  *)
(* wraps not subtracted, the counter shows a low half and, an event        *)
(* counter, a high half.                                                   *)
ShowsLow(n, l) == \E w \in Nat : n = w * Half + l
Shows(n, h, l) == \E v \in Nat : n = (v * Half + h) * Half + l
ShowsHigh(n, h) == \E l \in Halves : Shows(n, h, l)

Whole(p) == p.counter = "mhpmcounter"
ShowsCount(p, n) == ShowsLow(n, p.low) /\ (Whole(p) => Shows(n, p.high, p.low))

(* The counts during a reading, while they are all known.                  *)
Counted(p, r) == ShowsCount(p, r.start + r.since)
HighRead(p, r, t) == Whole(p) => ShowsHigh(r.start + t, r.high)
LowRead(p, r) ==
  \E t \in 0 .. r.since :
    /\ ShowsLow(r.start + t, r.low)
    /\ \E u \in 0 .. t : HighRead(p, r, u)
BothRead(p, r) ==
  \E k \in 0 .. r.since :
    /\ ShowsLow(r.start + k, r.low)
    /\ Whole(p) => Shows(r.start + k, r.high, r.low)

Reading(p, r) ==
  /\ r.at = "high" => r.since = 0
  /\ r.at = "low" /\ r.since < Half * Half =>
       Counted(p, r) /\ \E u \in 0 .. r.since : HighRead(p, r, u)
  /\ r.at = "again" /\ r.since < Half * Half => Counted(p, r) /\ LowRead(p, r)
  /\ r.at = "done" /\ r.since <= Half * (Half - 1) => BothRead(p, r)

CounterSound == perf \in PerfState /\ reader \in Reader /\ Reading(perf, reader)

(* One count further the counter shows the next count.                     *)
LEMMA CountShows ==
  ASSUME NEW p \in PerfState, NEW n \in Nat, ShowsCount(p, n)
  PROVE  ShowsCount(Incremented(p), n + 1)
<1> DEFINE q == Incremented(p)
<1>1. /\ Half \in Nat \ {0} /\ p.low \in Halves /\ p.high \in Halves
      /\ p.low \in Nat /\ p.low <= Half - 1 /\ p.high \in Nat /\ p.high <= Half - 1
  BY HalfPositive DEF PerfState
<1>2. /\ q.counter = p.counter /\ q.low = (p.low + 1) % Half
      /\ q.high = IF p.low = Half - 1 /\ Whole(p) THEN (p.high + 1) % Half ELSE p.high
  BY DEF Incremented, PerfState, Whole
<1>3. PICK w \in Nat : n = w * Half + p.low  BY DEF ShowsCount, ShowsLow
<1> HIDE DEF q
<1>4. ASSUME NEW a \in Halves
      PROVE  IF a = Half - 1 THEN (a + 1) % Half = 0 ELSE (a + 1) % Half = a + 1
  BY <1>1 DEF Halves
<1>5. CASE p.low # Half - 1
  <2>1. q.low = p.low + 1 /\ q.high = p.high  BY <1>1, <1>2, <1>4, <1>5
  <2>2. n + 1 = w * Half + q.low  BY <1>1, <1>3, <2>1
  <2>3. ASSUME Whole(p)  PROVE Shows(n + 1, q.high, q.low)
    <3>1. PICK v \in Nat : n = (v * Half + p.high) * Half + p.low
      BY <2>3 DEF ShowsCount, Shows
    <3>2. n + 1 = (v * Half + q.high) * Half + q.low  BY <1>1, <2>1, <3>1
    <3> QED  BY <3>2 DEF Shows
  <2> QED  BY <1>2, <2>2, <2>3 DEF ShowsCount, ShowsLow, Whole, q
<1>6. CASE p.low = Half - 1
  <2>1. q.low = 0  BY <1>1, <1>2, <1>4, <1>6
  <2>2. n + 1 = (w + 1) * Half + q.low /\ w + 1 \in Nat  BY <1>1, <1>3, <1>6, <2>1
  <2>3. ShowsLow(n + 1, q.low)  BY <2>2 DEF ShowsLow
  <2>4. ASSUME Whole(p)  PROVE Shows(n + 1, q.high, q.low)
    <3>1. PICK v \in Nat : n = (v * Half + p.high) * Half + p.low
      BY <2>4 DEF ShowsCount, Shows
    <3>2. n + 1 = (v * Half + p.high + 1) * Half  BY <1>1, <1>6, <3>1
    <3>3. CASE p.high # Half - 1
      <4>1. q.high = p.high + 1  BY <1>1, <1>2, <1>4, <1>6, <2>4, <3>3
      <4>2. n + 1 = (v * Half + q.high) * Half + q.low  BY <1>1, <2>1, <3>2, <4>1
      <4> QED  BY <4>2 DEF Shows
    <3>4. CASE p.high = Half - 1
      <4>1. q.high = 0  BY <1>1, <1>2, <1>4, <1>6, <2>4, <3>4
      <4>2. v * Half + p.high + 1 = (v + 1) * Half /\ v + 1 \in Nat  BY <1>1, <3>4
      <4>3. n + 1 = ((v + 1) * Half + q.high) * Half + q.low
        BY <1>1, <2>1, <3>2, <4>1, <4>2
      <4> QED  BY <4>2, <4>3 DEF Shows
    <3> QED  BY <3>3, <3>4
  <2> QED  BY <1>2, <2>3, <2>4 DEF ShowsCount, Whole, q
<1> QED  BY <1>5, <1>6

LEMMA IncrementSound ==
  ASSUME NEW p \in PerfState
  PROVE  Incremented(p) \in PerfState /\ Incremented(p).counter = p.counter
<1>1. (p.low + 1) % Half \in Halves /\ (p.high + 1) % Half \in Halves
  BY HalfPositive DEF PerfState, Halves
<1> QED  BY <1>1 DEF Incremented, PerfState

(* The high half read before and after the low half is the same, and fewer *)
(* counts passed than bring it round: the low half belongs to it.          *)
LEMMA HalvesBelong ==
  ASSUME NEW h \in Halves, NEW l \in Halves,
         NEW a \in Nat, NEW b \in Nat, NEW c \in Nat, a <= b, b <= c, c - a <= Half * (Half - 1),
         ShowsHigh(a, h), ShowsLow(b, l), ShowsHigh(c, h)
  PROVE  Shows(b, h, l)
<1>1. /\ Half \in Nat \ {0} /\ h \in Nat /\ l \in Nat /\ l <= Half - 1
      /\ Half * (Half - 1) = Half * Half - Half /\ Half * Half \in Nat
  BY HalfPositive
<1>2. PICK v \in Nat, k \in Halves : a = (v * Half + h) * Half + k
  BY DEF ShowsHigh, Shows
<1>3. PICK w \in Nat : b = w * Half + l  BY DEF ShowsLow
<1>4. PICK u \in Nat, m \in Halves : c = (u * Half + h) * Half + m
  BY DEF ShowsHigh, Shows
<1>5. k \in Nat /\ k <= Half - 1 /\ m \in Nat /\ m <= Half - 1  BY HalfPositive
<1> DEFINE A == v * Half + h
           C == u * Half + h
<1>6. A \in Nat /\ C \in Nat /\ a = A * Half + k /\ c = C * Half + m  BY <1>1, <1>2, <1>4
<1>7. ASSUME C < A  PROVE FALSE
  <2> HIDE DEF A, C
  <2>1. (C + 1) * Half <= A * Half  BY <1>1, <1>6, <1>7, ProductGrows
  <2>2. (C + 1) * Half = C * Half + Half  BY <1>1, <1>6
  <2>3. A * Half \in Nat /\ C * Half \in Nat  BY <1>1, <1>6
  <2> QED  BY <1>1, <1>5, <1>6, <2>1, <2>2, <2>3
<1>8. ASSUME v < u  PROVE FALSE
  <2>1. (v + 1) * Half <= u * Half  BY <1>1, <1>8, ProductGrows
  <2>2. (v + 1) * Half = v * Half + Half  BY <1>1
  <2>3. A + Half <= C  BY <1>1, <2>1, <2>2
  <2> HIDE DEF A, C
  <2>4. (A + Half) * Half <= C * Half  BY <1>1, <1>6, <2>3, ProductGrows
  <2>5. (A + Half) * Half = A * Half + Half * Half  BY <1>1, <1>6
  <2>6. A * Half \in Nat /\ C * Half \in Nat  BY <1>1, <1>6
  <2> QED  BY <1>1, <1>5, <1>6, <2>4, <2>5, <2>6
<1>9. ASSUME u < v  PROVE FALSE
  <2>1. (u + 1) * Half <= v * Half  BY <1>1, <1>9, ProductGrows
  <2>2. (u + 1) * Half = u * Half + Half  BY <1>1
  <2>3. C < A  BY <1>1, <2>1, <2>2
  <2> QED  BY <1>7, <2>3
<1>10. u = v  BY <1>8, <1>9
<1>11. A = C  BY <1>10
<1>12. A * Half + k <= w * Half + l /\ w * Half + l <= A * Half + m
  BY <1>3, <1>6, <1>11
<1> HIDE DEF A, C
<1>13. ASSUME w < A  PROVE FALSE
  <2>1. (w + 1) * Half <= A * Half  BY <1>1, <1>6, <1>13, ProductGrows
  <2>2. (w + 1) * Half = w * Half + Half  BY <1>1
  <2>3. A * Half \in Nat /\ w * Half \in Nat  BY <1>1, <1>6
  <2> QED  BY <1>1, <1>5, <1>12, <2>1, <2>2, <2>3
<1>14. ASSUME A < w  PROVE FALSE
  <2>1. (A + 1) * Half <= w * Half  BY <1>1, <1>6, <1>14, ProductGrows
  <2>2. (A + 1) * Half = A * Half + Half  BY <1>1, <1>6
  <2>3. A * Half \in Nat /\ w * Half \in Nat  BY <1>1, <1>6
  <2> QED  BY <1>1, <1>5, <1>12, <2>1, <2>2, <2>3
<1>15. w = A  BY <1>6, <1>13, <1>14
<1> QED  BY <1>3, <1>15 DEF Shows, A

LEMMA CountStep ==
  ASSUME CounterSound, NEW happening, CountedClock(happening)
  PROVE  CounterSound'
<1> DEFINE n == reader.start + reader.since
<1>1. /\ perf \in PerfState /\ reader \in Reader /\ Reading(perf, reader)
      /\ reader.start \in Nat /\ reader.since \in 0 .. Half * Half /\ n \in Nat
      /\ reader.at \in {"high", "low", "again", "done"}
      /\ Half * Half \in Nat
  BY HalfPositive DEF CounterSound, Reader
<1>2. CASE ~Counts(perf, happening)
  BY <1>1, <1>2 DEF CountedClock, Clocked, CounterSound
<1>3. CASE Counts(perf, happening) /\ reader.at \in {"high", "done"}
  <2>1. perf' = Incremented(perf) /\ reader' = reader
    BY <1>3 DEF CountedClock, Clocked
  <2>2. perf' \in PerfState /\ perf'.counter = perf.counter
    BY <1>1, <2>1, IncrementSound
  <2>3. Reading(perf', reader)
    BY <1>1, <1>3, <2>2 DEF Reading, BothRead, Whole
  <2> QED  BY <1>1, <2>1, <2>2, <2>3 DEF CounterSound
<1>4. CASE Counts(perf, happening) /\ reader.at \in {"low", "again"}
  <2>1. perf' = Incremented(perf)  BY <1>4 DEF CountedClock, Clocked
  <2>2. perf' \in PerfState /\ perf'.counter = perf.counter
    BY <1>1, <2>1, IncrementSound
  <2>3. CASE reader.since < Half * Half
    <3>1. reader' = [reader EXCEPT !.since = @ + 1]
      BY <1>4, <2>3 DEF CountedClock
    <3>2. /\ reader' \in Reader /\ reader'.at = reader.at /\ reader'.since = reader.since + 1
          /\ reader'.start = reader.start /\ reader'.high = reader.high
          /\ reader'.low = reader.low
      BY <1>1, <2>3, <3>1 DEF Reader
    <3>3. ShowsCount(perf, n)  BY <1>1, <1>4, <2>3 DEF Reading, Counted
    <3>4. ShowsCount(perf', n + 1)  BY <1>1, <2>1, <3>3, CountShows
    <3>5. reader'.start + reader'.since = n + 1  BY <1>1, <3>2
    <3>6. Counted(perf', reader')  BY <3>4, <3>5 DEF Counted
    <3>7. 0 .. reader.since \subseteq 0 .. reader'.since  BY <1>1, <3>2
    <3>8. CASE reader.at = "low"
      <4>1. PICK u \in 0 .. reader.since : HighRead(perf, reader, u)
        BY <1>1, <2>3, <3>8 DEF Reading
      <4>2. HighRead(perf', reader', u)  BY <2>2, <3>2, <4>1 DEF HighRead, Whole
      <4> QED  BY <2>2, <3>2, <3>6, <3>7, <3>8, <4>2 DEF CounterSound, Reading
    <3>9. CASE reader.at = "again"
      <4>1. PICK t \in 0 .. reader.since :
              /\ ShowsLow(reader.start + t, reader.low)
              /\ \E u \in 0 .. t : HighRead(perf, reader, u)
        BY <1>1, <2>3, <3>9 DEF Reading, LowRead
      <4>2. PICK u \in 0 .. t : HighRead(perf, reader, u)  BY <4>1
      <4>3. HighRead(perf', reader', u) /\ ShowsLow(reader'.start + t, reader'.low)
        BY <2>2, <3>2, <4>1, <4>2 DEF HighRead, Whole
      <4>4. t \in 0 .. reader'.since  BY <3>7
      <4>5. LowRead(perf', reader')  BY <4>3, <4>4 DEF LowRead
      <4> QED  BY <2>2, <3>2, <3>6, <3>9, <4>5 DEF CounterSound, Reading
    <3> QED  BY <1>4, <3>8, <3>9
  <2>4. CASE ~(reader.since < Half * Half)
    <3>1. reader' = reader  BY <2>4 DEF CountedClock
    <3>2. Reading(perf', reader)  BY <1>1, <1>4, <2>4 DEF Reading
    <3> QED  BY <1>1, <2>2, <3>1, <3>2 DEF CounterSound
  <2> QED  BY <2>3, <2>4
<1> QED  BY <1>1, <1>2, <1>3, <1>4

LEMMA ReadStep ==
  ASSUME CounterSound, ReadHigh \/ ReadLow \/ ReadAgain
  PROVE  CounterSound'
<1> DEFINE n == reader.start + reader.since
<1>1. /\ perf \in PerfState /\ reader \in Reader /\ Reading(perf, reader)
      /\ perf.high \in Halves /\ perf.low \in Halves
      /\ reader.high \in Halves /\ reader.low \in Halves
      /\ reader.start \in Nat /\ reader.since \in 0 .. Half * Half /\ n \in Nat
      /\ reader.since \in Nat /\ Half * Half \in Nat
      /\ perf' = perf
  BY HalfPositive DEF CounterSound, Reader, PerfState, ReadHigh, ReadLow, ReadAgain
<1>2. CASE ReadHigh
  <2> DEFINE v == perf.high * Half + perf.low
  <2>1. v \in Times  BY <1>1, Composed
  <2>2. /\ reader' \in Reader /\ reader'.at = "low" /\ reader'.high = perf.high
        /\ reader'.start = v /\ reader'.since = reader.since
    BY <1>1, <1>2, <2>1 DEF ReadHigh, Reader
  <2>3. reader.since = 0  BY <1>1, <1>2 DEF Reading, ReadHigh
  <2>4. Counted(perf, reader') /\ HighRead(perf, reader', 0)
    <3>1. /\ perf.high \in Nat /\ perf.low \in Nat /\ Half \in Nat
          /\ v + 0 = perf.high * Half + perf.low
          /\ v + 0 = (0 * Half + perf.high) * Half + perf.low
      BY <1>1, HalfPositive
    <3>2. ShowsLow(v + 0, perf.low) /\ Shows(v + 0, perf.high, perf.low)
      BY <3>1 DEF ShowsLow, Shows
    <3> HIDE DEF v
    <3>3. ShowsHigh(v + 0, perf.high)  BY <1>1, <3>2 DEF ShowsHigh
    <3> QED  BY <2>2, <2>3, <3>2, <3>3 DEF Counted, ShowsCount, HighRead
  <2>5. 0 \in 0 .. reader'.since  BY <2>2, <2>3
  <2> QED  BY <1>1, <2>2, <2>4, <2>5 DEF CounterSound, Reading
<1>3. CASE ReadLow
  <2>1. /\ reader' \in Reader /\ reader'.at = "again" /\ reader'.high = reader.high
        /\ reader'.low = perf.low
        /\ reader'.start = reader.start /\ reader'.since = reader.since
    BY <1>1, <1>3 DEF ReadLow, Reader
  <2>2. ASSUME reader.since < Half * Half
        PROVE  Counted(perf, reader') /\ LowRead(perf, reader')
    <3>1. Counted(perf, reader) /\ \E u \in 0 .. reader.since : HighRead(perf, reader, u)
      BY <1>1, <1>3, <2>2 DEF Reading, ReadLow
    <3>2. PICK u \in 0 .. reader.since : HighRead(perf, reader, u)  BY <3>1
    <3>3. HighRead(perf, reader', u)  BY <2>1, <3>2 DEF HighRead
    <3>4. ShowsLow(reader'.start + reader'.since, reader'.low)
      BY <2>1, <3>1 DEF Counted, ShowsCount
    <3>5. reader'.since \in 0 .. reader'.since /\ u \in 0 .. reader'.since  BY <1>1, <2>1
    <3>6. LowRead(perf, reader')  BY <3>3, <3>4, <3>5 DEF LowRead
    <3> QED  BY <2>1, <3>1, <3>6 DEF Counted
  <2> QED  BY <1>1, <2>1, <2>2 DEF CounterSound, Reading
<1>4. CASE ReadAgain /\ perf.high # reader.high
  <2>1. /\ reader' \in Reader /\ reader'.at = "low" /\ reader'.high = perf.high
        /\ reader'.start = reader.start /\ reader'.since = reader.since
    BY <1>1, <1>4 DEF ReadAgain, Reader
  <2>2. ASSUME reader.since < Half * Half
        PROVE  Counted(perf, reader') /\ \E u \in 0 .. reader'.since : HighRead(perf, reader', u)
    <3>1. Counted(perf, reader)  BY <1>1, <1>4, <2>2 DEF Reading, ReadAgain
    <3>2. Whole(perf) => Shows(n, perf.high, perf.low)  BY <3>1 DEF Counted, ShowsCount
    <3>3. HighRead(perf, reader', reader.since)  BY <1>1, <2>1, <3>2 DEF HighRead, ShowsHigh
    <3>4. reader.since \in 0 .. reader'.since  BY <1>1, <2>1
    <3> QED  BY <2>1, <3>1, <3>3, <3>4 DEF Counted
  <2> QED  BY <1>1, <2>1, <2>2 DEF CounterSound, Reading
<1>5. CASE ReadAgain /\ perf.high = reader.high
  <2>1. /\ reader' \in Reader /\ reader'.at = "done" /\ reader'.high = reader.high
        /\ reader'.low = reader.low
        /\ reader'.start = reader.start /\ reader'.since = reader.since
    BY <1>1, <1>5 DEF ReadAgain, Reader
  <2>2. ASSUME reader.since <= Half * (Half - 1)  PROVE BothRead(perf, reader')
    <3>1. Half * (Half - 1) \in Nat /\ reader.since < Half * Half
      <4>1. Half \in Nat \ {0} /\ Half * (Half - 1) = Half * Half - Half  BY HalfPositive
      <4>2. Half - 1 \in Nat  BY <4>1
      <4> QED  BY <1>1, <2>2, <4>1, <4>2
    <3>2. Counted(perf, reader) /\ LowRead(perf, reader)
      BY <1>1, <1>5, <3>1 DEF Reading, ReadAgain
    <3>3. PICK t \in 0 .. reader.since :
            /\ ShowsLow(reader.start + t, reader.low)
            /\ \E u \in 0 .. t : HighRead(perf, reader, u)
      BY <3>2 DEF LowRead
    <3>4. PICK u \in 0 .. t : HighRead(perf, reader, u)  BY <3>3
    <3>5. ASSUME Whole(perf)  PROVE Shows(reader.start + t, reader.high, reader.low)
      <4> DEFINE a == reader.start + u
                 b == reader.start + t
      <4>1. /\ a \in Nat /\ b \in Nat /\ n \in Nat /\ a <= b /\ b <= n
            /\ n - a <= Half * (Half - 1)
        BY <1>1, <2>2, <3>1
      <4>2. ShowsHigh(a, reader.high) /\ ShowsLow(b, reader.low)
        BY <3>3, <3>4, <3>5 DEF HighRead
      <4>3. ShowsHigh(n, reader.high)
        BY <1>1, <1>5, <3>2, <3>5 DEF Counted, ShowsCount, ShowsHigh
      <4> HIDE DEF a, b, n
      <4>4. Shows(b, reader.high, reader.low)  BY <1>1, <4>1, <4>2, <4>3, HalvesBelong
      <4> QED  BY <4>4 DEF b
    <3> QED  BY <2>1, <3>3, <3>5 DEF BothRead
  <2> QED  BY <1>1, <2>1, <2>2 DEF CounterSound, Reading
<1> QED  BY <1>2, <1>3, <1>4, <1>5

LEMMA WriteStep ==
  ASSUME CounterSound, WriteCounter
  PROVE  CounterSound'
<1>1. perf \in PerfState  BY DEF CounterSound
<1>2. perf' \in PerfState
  <2>1. perf' \in StorePerf(perf)  BY DEF WriteCounter
  <2>2. ASSUME NEW v \in Halves
        PROVE  [perf EXCEPT !.low = v] \in PerfState /\ [perf EXCEPT !.high = v] \in PerfState
    BY <1>1 DEF PerfState
  <2>3. ASSUME NEW b \in SUBSET InhibitBits  PROVE [perf EXCEPT !.inhibit = b] \in PerfState
    BY <1>1 DEF PerfState
  <2>4. ASSUME NEW e \in Events  PROVE [perf EXCEPT !.event = e] \in PerfState
    BY <1>1 DEF PerfState
  <2> QED  BY <2>1, <2>2, <2>3, <2>4 DEF StorePerf
<1>3. reader' = [at |-> "high", high |-> 0, low |-> 0, start |-> 0, since |-> 0]
  BY DEF WriteCounter
<1>4. 0 \in Halves /\ 0 \in Times /\ 0 \in 0 .. Half * Half
  BY HalfPositive DEF Halves, Times
<1>5. reader' \in Reader /\ reader'.at = "high" /\ reader'.since = 0
  BY <1>3, <1>4 DEF Reader
<1> QED  BY <1>2, <1>5 DEF CounterSound, Reading

LEMMA CounterStepSound == CounterSound /\ [Next]_vars => CounterSound'
<1> SUFFICES ASSUME CounterSound, [Next]_vars  PROVE CounterSound'
  OBVIOUS
<1> DEFINE Others == UNCHANGED <<perf, reader>>
<1>1. Others => CounterSound'  BY DEF CounterSound
<1>2. ASSUME NEW h \in Happenings, CountedClock(h)  PROVE CounterSound'
  BY <1>2, CountStep
<1>3. CASE ReadHigh \/ ReadLow \/ ReadAgain
  BY <1>3, ReadStep
<1>4. CASE WriteCounter
  BY <1>4, WriteStep
<1>5. CASE Clock \/ Reset \/ ByteArrives \/ UsePlic \/ UseUart \/ UseClint
  BY <1>1, <1>5 DEF Clock, Reset, ByteArrives, UsePlic, UseUart, UseClint, programs
<1>6. ASSUME NEW s \in Lines, RaiseLine(s) \/ LowerLine(s)  PROVE Others
  BY <1>6 DEF RaiseLine, LowerLine, programs
<1>7. CASE CsrInstruction \/ ReturnFromTrap
  BY <1>1, <1>7 DEF CsrInstruction, ReturnFromTrap, HartOnly, programs
<1>8. ASSUME NEW cause \in {12, 13, 15}, PageFault(cause)  PROVE Others
  BY <1>8 DEF PageFault, HartOnly, programs
<1>9. ASSUME NEW t \in Times, MoveDeadline(t)  PROVE Others
  BY <1>9 DEF MoveDeadline, TimerStore, programs
<1>10. CASE SetLow \/ SetHigh
  BY <1>1, <1>10 DEF SetLow, SetHigh, TimerStore, programs
<1>11. ASSUME NEW step \in Setup, SetUp(step)  PROVE Others
  BY <1>11 DEF SetUp, programs
<1>12. CASE HandlerClaims \/ HandlerReads \/ HandlerIsDone \/ HandlerCompletes \/ HandlerReturns
  BY <1>1, <1>12
  DEF HandlerClaims, HandlerReads, HandlerIsDone, HandlerCompletes, HandlerReturns, HandlerAt,
      programs
<1>13. CASE UNCHANGED vars
  BY <1>1, <1>13 DEF vars
<1>14. CASE NestStep
  BY <1>1, <1>14
  DEF NestStep, Boot, Fault, SaveFrame, OpenInterrupts, CloseInterrupts, RestoreFrame,
      ReturnNested, InHandler, Nested
<1> HIDE DEF Others
<1> QED
  BY <1>1, <1>2, <1>3, <1>4, <1>5, <1>6, <1>7, <1>8, <1>9, <1>10, <1>11, <1>12, <1>13, <1>14
  DEF Next, UartDriver, NestStep

LEMMA AlwaysCounterSound == Spec => []CounterSound
<1>1. Init => CounterSound
  <2> SUFFICES ASSUME Init  PROVE CounterSound
    OBVIOUS
  <2>1. 0 \in Halves /\ 0 \in Times /\ 0 \in 0 .. Half * Half
    BY HalfPositive DEF Halves, Times
  <2>2. \A c \in {"mcycle", "minstret", "mhpmcounter"} : NewPerf(c) \in PerfState
    BY <2>1 DEF NewPerf, PerfState, Events
  <2>3. perf \in PerfState  BY <2>2 DEF Init
  <2>4. reader \in Reader /\ reader.at = "high" /\ reader.since = 0
    BY <2>1 DEF Init, Reader
  <2> QED  BY <2>3, <2>4 DEF CounterSound, Reading
<1>2. CounterSound /\ [Next]_vars => CounterSound'  BY CounterStepSound
<1> QED  BY <1>1, <1>2, PTL DEF Spec

LEMMA MultipleLeavesNothing ==
  ASSUME NEW z \in Int, NEW d \in Nat \ {0}
  PROVE  (z * d) % d = 0
<1> DEFINE q == (z * d) \div d
           r == (z * d) % d
<1>1. z * d \in Int  OBVIOUS
<1>2. q \in Int /\ r \in 0 .. d - 1 /\ z * d = d * q + r  BY <1>1
<1> HIDE DEF q, r
<1>3. ASSUME z > q  PROVE FALSE
  <2>1. 1 * d <= (z - q) * d  BY <1>2, <1>3, ProductGrows
  <2>2. (z - q) * d = r  BY <1>2
  <2> QED  BY <1>2, <2>1, <2>2
<1>4. ASSUME q > z  PROVE FALSE
  <2>1. 1 * d <= (q - z) * d  BY <1>2, <1>4, ProductGrows
  <2>2. (q - z) * d = 0 - r  BY <1>2
  <2> QED  BY <1>2, <2>1, <2>2
<1>5. z = q  BY <1>2, <1>3, <1>4
<1>6. r = 0  BY <1>2, <1>5
<1> QED  BY <1>6 DEF r

(* For halves of any width: unless the high half can have come round       *)
(* during the reading, what a program reads of an mhpmcounter high, low,   *)
(* high is a count that was true during the reading (Counter64).           *)
THEOREM CountsAreTrue == Spec => []CountsReadTrue
<1>1. CounterSound => CountsReadTrue
  <2> SUFFICES ASSUME CounterSound, Whole(perf), reader.at = "done",
                      reader.since <= Half * (Half - 1)
               PROVE  HalvesFit
    BY DEF CountsReadTrue, Whole
  <2>1. BothRead(perf, reader)  BY DEF CounterSound, Reading
  <2>2. PICK k \in 0 .. reader.since :
          /\ ShowsLow(reader.start + k, reader.low)
          /\ Whole(perf) => Shows(reader.start + k, reader.high, reader.low)
    BY <2>1 DEF BothRead
  <2>3. /\ reader.start \in Nat /\ reader.since \in 0 .. Half * Half /\ k \in Nat
        /\ reader.high \in Nat /\ reader.low \in Nat
        /\ Half \in Nat \ {0} /\ Half * Half \in Nat \ {0}
    BY HalfPositive DEF CounterSound, Reader
  <2> DEFINE x == reader.high * Half + reader.low - reader.start - k
  <2>4. PICK v \in Nat : reader.start + k = (v * Half + reader.high) * Half + reader.low
    BY <2>2 DEF Shows
  <2>5. x = (0 - v) * (Half * Half)  BY <2>3, <2>4
  <2>6. ((0 - v) * (Half * Half)) % (Half * Half) = 0
    BY <2>3, MultipleLeavesNothing
  <2>7. x % (Half * Half) = 0  BY <2>5, <2>6
  <2> QED  BY <2>7 DEF HalvesFit
<1> QED  BY <1>1, AlwaysCounterSound, PTL

-----------------------------------------------------------------------------
(* The history: the driver finds in the FIFO what was accepted and is not  *)
(* read yet, so that it never reads more than that.                        *)
HistoryInv ==
  /\ software \in Softwares /\ (software # "nested" => nest = NewNest)
  /\ arrived \in 0 .. Arrivals /\ accepted \in 0 .. arrived /\ read \in 0 .. accepted
  /\ software = "driver" => ~uart.dlab /\ uart.rx = accepted - read

LEMMA ArrivalCounted ==
  ASSUME NEW u \in UartState
  PROVE  /\ ReceiveByte(u).rx - u.rx \in {0, 1} /\ ReceiveByte(u).rx \in Nat
         /\ ReceiveByte(u).dlab = u.dlab
BY DEF ReceiveByte, UpdateIir, UartState

LEMMA ReadCounted ==
  ASSUME NEW u \in UartState, ~u.dlab, u.rx > 0
  PROVE  ReadRbr(u).rx = u.rx - 1 /\ ReadRbr(u).dlab = u.dlab
BY DEF ReadRbr, UpdateIir, UartState

LEMMA HistoryStep == UartSound(uart) /\ HistoryInv /\ [Next]_vars => HistoryInv'
<1> SUFFICES ASSUME UartSound(uart), HistoryInv, [Next]_vars  PROVE HistoryInv'
  OBVIOUS
<1>1. uart \in UartState /\ uart.rx \in Nat /\ (uart.dataReady <=> uart.rx > 0)
  BY DEF UartSound, UartState, RxCurrent
<1> DEFINE Others == UNCHANGED <<software, nest, uart, history>>
<1>2. Others => HistoryInv'  BY DEF HistoryInv, history
<1>3. ASSUME UNCHANGED <<software, nest, history>>, software # "driver"
      PROVE  HistoryInv'
  BY <1>3 DEF HistoryInv, history
<1>4. CASE Clock
  <2>1. software # "nested" => nest' = nest  BY <1>4 DEF Clock
  <2> QED  BY <1>4, <2>1 DEF Clock, HistoryInv, history
<1>5. CASE NestStep
  <2>1. software = "nested" /\ UNCHANGED <<software, uart, history>>
    BY <1>5
    DEF NestStep, Boot, Fault, SaveFrame, OpenInterrupts, CloseInterrupts, RestoreFrame,
        ReturnNested, InHandler, Nested, devices
  <2> QED  BY <2>1 DEF HistoryInv, history
<1>6. CASE Reset
  BY <1>6 DEF Reset, HistoryInv, history, devices
<1>7. CASE ByteArrives
  <2>1. /\ uart' = ReceiveByte(uart) /\ arrived' = arrived + 1 /\ arrived < Arrivals
        /\ accepted' = accepted + (uart'.rx - uart.rx) /\ UNCHANGED <<software, nest, read>>
    BY <1>7 DEF ByteArrives, programs
  <2> DEFINE more == uart'.rx - uart.rx
  <2>2. /\ more \in {0, 1} /\ uart'.rx \in Nat /\ uart'.dlab = uart.dlab
        /\ uart'.rx = uart.rx + more
    BY <1>1, <2>1, ArrivalCounted
  <2>3. /\ arrived \in Nat /\ accepted \in Nat /\ read \in Nat
        /\ accepted <= arrived /\ read <= accepted /\ Arrivals \in Nat
    BY InterruptsAssumption DEF HistoryInv
  <2>4. accepted' = accepted + more  BY <2>1
  <2> HIDE DEF more
  <2>5. arrived' \in 0 .. Arrivals /\ accepted' \in 0 .. arrived' /\ read' \in 0 .. accepted'
    BY <2>1, <2>2, <2>3, <2>4
  <2>6. software = "driver" => uart'.rx = accepted' - read'
    BY <1>1, <2>1, <2>2, <2>3, <2>4 DEF HistoryInv
  <2> QED  BY <2>1, <2>2, <2>5, <2>6 DEF HistoryInv
<1>8. CASE HandlerReads
  <2>1. /\ software = "driver" /\ uart.dataReady /\ uart' = ReadRbr(uart) /\ read' = read + 1
        /\ UNCHANGED <<software, nest, arrived, accepted>>
    BY <1>8 DEF HandlerReads, HandlerAt, programs
  <2>2. ~uart.dlab /\ uart.rx = accepted - read /\ uart.rx > 0
    BY <1>1, <2>1 DEF HistoryInv
  <2>3. uart'.rx = uart.rx - 1 /\ uart'.dlab = uart.dlab
    BY <1>1, <2>1, <2>2, ReadCounted
  <2>4. arrived \in Nat /\ accepted \in Nat /\ read \in Nat /\ accepted <= arrived
    BY DEF HistoryInv
  <2>5. read' \in 0 .. accepted' /\ uart'.rx = accepted' - read'
    BY <2>1, <2>2, <2>3, <2>4
  <2> QED  BY <2>1, <2>2, <2>3, <2>5 DEF HistoryInv
<1>9. ASSUME NEW step \in Setup, SetUp(step)  PROVE HistoryInv'
  <2>1. uart' = uart \/ uart' = WriteIer(uart, {"rx"})  BY <1>9 DEF SetUp
  <2>2. uart'.rx = uart.rx /\ uart'.dlab = uart.dlab
    BY <1>1, <2>1 DEF WriteIer, UpdateIir, UartState
  <2> QED  BY <1>9, <2>2 DEF SetUp, HistoryInv, history, programs
<1>10. CASE HandlerClaims \/ HandlerIsDone \/ HandlerCompletes \/ HandlerReturns
  BY <1>2, <1>10
  DEF HandlerClaims, HandlerIsDone, HandlerCompletes, HandlerReturns, HandlerAt, programs,
      history
<1>11. CASE UseUart
  BY <1>3, <1>11 DEF UseUart, programs
<1>12. ASSUME NEW s \in Lines, RaiseLine(s) \/ LowerLine(s)  PROVE Others
  BY <1>12 DEF RaiseLine, LowerLine, programs
<1>13. CASE UsePlic \/ UseClint
  BY <1>2, <1>13 DEF UsePlic, UseClint, programs
<1>14. CASE CsrInstruction \/ ReturnFromTrap
  BY <1>2, <1>14 DEF CsrInstruction, ReturnFromTrap, HartOnly, devices, programs
<1>15. ASSUME NEW cause \in {12, 13, 15}, PageFault(cause)  PROVE Others
  BY <1>15 DEF PageFault, HartOnly, devices, programs
<1>16. ASSUME NEW t \in Times, MoveDeadline(t)  PROVE Others
  BY <1>16 DEF MoveDeadline, TimerStore, programs
<1>17. CASE SetLow \/ SetHigh
  BY <1>2, <1>17 DEF SetLow, SetHigh, TimerStore, programs
<1>18. CASE UNCHANGED vars
  BY <1>2, <1>18 DEF vars, history
<1>19. CASE WriteCounter \/ ReadHigh \/ ReadLow \/ ReadAgain
  BY <1>2, <1>19 DEF WriteCounter, ReadHigh, ReadLow, ReadAgain, Counting, devices
<1>20. ASSUME NEW h \in Happenings, CountedClock(h)  PROVE Others
  BY <1>20 DEF CountedClock, Counting, devices
<1> HIDE DEF Others
<1> QED
  BY <1>2, <1>4, <1>5, <1>6, <1>7, <1>8, <1>9, <1>10, <1>11, <1>12, <1>13, <1>14, <1>15,
     <1>16, <1>17, <1>18, <1>19, <1>20
  DEF Next, UartDriver, NestStep

(* For every set of sources, every size of the devices and every value     *)
(* software writes: each register keeps to its width, the FIFO to its size *)
(* and the driver's reads to the bytes that were accepted.                 *)
THEOREM InterruptsTypeCorrect == Spec => []TypeOK
<1>1. Init => UartSound(uart) /\ HistoryInv
  <2> SUFFICES ASSUME Init  PROVE UartSound(uart) /\ HistoryInv
    OBVIOUS
  <2>1. UartSound(uart)
    BY DEF Init, NewUart, UartSound, UartState, RxCurrent
  <2>2. HistoryInv
    BY InterruptsAssumption DEF Init, HistoryInv, NewUart
  <2> QED  BY <2>1, <2>2
<1>2. UartSound(uart) /\ [Next]_vars => UartSound(uart)'
  BY UartStepSound
<1>3. UartSound(uart) /\ HistoryInv /\ [Next]_vars => HistoryInv'
  BY HistoryStep
<1>4. /\ Sound(hart) /\ InNesting /\ PlicSound /\ TimerSound /\ CounterSound
      /\ UartSound(uart) /\ HistoryInv
      => TypeOK
  <2>1. NewNest \in NestState  BY NewNesting DEF Nesting
  <2> QED
    BY <2>1
    DEF Sound, InNesting, Nesting, PlicSound, TimerSound, ClintSound, DriverSound, CounterSound,
        UartSound, HistoryInv, TypeOK
<1> QED
  BY <1>1, <1>2, <1>3, <1>4, AlwaysSound, AlwaysPlicSound, AlwaysTimerSound,
     AlwaysCounterSound, PTL
  DEF Spec
=============================================================================
