----------------------------- MODULE Interrupts -----------------------------
(***************************************************************************)
(* From a device's line to the handler and back: the hart of module Traps, *)
(* the controllers of Clint and Plic, the Uart, and other devices' lines.  *)
(* Clock is what clock() does before it executes anything.  What executes, *)
(* a register access or a CSR instruction at a time, is one of several     *)
(* pieces of software, each on a machine with the devices it uses.         *)
(***************************************************************************)
EXTENDS Plic, Counters, Uart, TrapFrames

CONSTANTS
  Arrivals,     \* bound on the bytes that reach the UART
  LevelLines    \* interrupt sources of the engines: NPU, LPU, GPU, TPU

UartSource   == 10
Lines == LevelLines \cup {VirtioSource}

ASSUME InterruptsAssumption ==
  /\ Lines \cup {UartSource} \subseteq Sources
  /\ 1 \in Priorities
  /\ Arrivals \in Nat

VARIABLES
  software,                 \* which piece of software runs
  hart, clint, plic, uart,
  lines,                    \* lines raised by devices other than the UART
  driver,                   \* where the timer or UART driver is
  perf, reader,             \* a performance counter and a program that reads it
  nest,                     \* handlers that interrupt one another
  arrived, accepted, read   \* history: bytes sent to, kept by and read from the UART
vars == <<software, hart, clint, plic, uart, lines, driver, perf, reader,
          nest, arrived, accepted, read>>
devices == <<clint, plic, uart, lines>>
programs == <<perf, reader, nest>>
history == <<arrived, accepted, read>>

(* "modes": any CSR instruction in any mode, page faults, trap returns;    *)
(* "timer": moves the deadline of the timer by halves; "plic-m", "plic-s": *)
(* any use of one PLIC context; "uart": any use of the UART; "driver":     *)
(* reads what the UART receives from a machine-mode interrupt handler;     *)
(* "counters": sets up a performance counter and reads it by halves;       *)
(* "nested": a program and the nested handlers of TrapFrames.              *)
Softwares ==
  {"modes", "timer", "plic-m", "plic-s", "uart", "driver", "counters", "nested"}

HasClint == software \in {"modes", "timer", "nested"}
HasPlic  == software \in {"plic-m", "plic-s", "driver"}
HasUart  == software \in {"uart", "driver"}
Context  == IF software = "plic-s" THEN "supervisor" ELSE "machine"

Setup == {"ier", "priority", "enable", "mie", "mstatus"}
Driver ==
  [at : {"out", "low", "high", "claim", "drain", "complete", "return"},
   todo : SUBSET Setup, deadline : Times, former : Times]

(* at: which half is read next; start: the counter when the reading began, *)
(* since: what it has counted from then on, up to Half * Half.             *)
Reader ==
  [at : {"high", "low", "again", "done"}, high : Halves, low : Halves,
   start : Times, since : 0 .. Half * Half]

TypeOK ==
  /\ software \in Softwares
  /\ hart \in Hart /\ clint \in ClintState /\ plic \in PlicState /\ uart \in UartState
  /\ lines \subseteq Lines
  /\ driver \in Driver /\ perf \in PerfState /\ reader \in Reader /\ nest \in NestState
  /\ arrived \in 0 .. Arrivals /\ accepted \in 0 .. arrived /\ read \in 0 .. accepted

Init ==
  /\ software \in Softwares
  /\ hart = NewHart /\ clint = NewClint /\ plic = NewPlic /\ uart = NewUart
  /\ lines = {}
  /\ driver = [at |-> "out", todo |-> Setup,
               deadline |-> NewClint.mtimecmp, former |-> NewClint.mtimecmp]
  /\ perf \in IF software = "counters"
              THEN {NewPerf(c) : c \in {"mcycle", "minstret", "mhpmcounter"}}
              ELSE {NewPerf("mcycle")}
  /\ reader = [at |-> "high", high |-> 0, low |-> 0, start |-> 0, since |-> 0]
  /\ nest = NewNest
  /\ arrived = 0 /\ accepted = 0 /\ read = 0

-----------------------------------------------------------------------------
(* The devices' side.                                                      *)
RaiseLine(s) ==
  /\ software \in {"plic-m", "plic-s"}
  /\ lines' = lines \cup {s}
  /\ UNCHANGED <<software, hart, clint, plic, uart, driver, programs, history>>

LowerLine(s) ==
  /\ s \in lines
  /\ lines' = lines \ {s}
  /\ UNCHANGED <<software, hart, clint, plic, uart, driver, programs, history>>

ByteArrives ==
  /\ HasUart /\ arrived < Arrivals
  /\ uart' = ReceiveByte(uart)
  /\ arrived' = arrived + 1
  /\ accepted' = accepted + (uart'.rx - uart.rx)
  /\ UNCHANGED <<software, hart, clint, plic, lines, driver, programs, read>>

(* The beginning of clock().  A VirtIO line is lowered once it is seen,    *)
(* the others set their pending bit again and again.                       *)
SyncPlic ==
  IF ~HasPlic THEN plic
  ELSE SetPending(plic, lines \cup (IF HasUart /\ Irq(uart) THEN {UartSource} ELSE {}))

Claimable(p, x) == HasPlic /\ BestPendingSource(p, x) # NoSource

Synced(c, p) ==
  Sync(hart, HasClint /\ Mtip(c), HasClint /\ c.msip,
       Claimable(p, "machine"), Claimable(p, "supervisor"))
HartNow(c, p) == HandleInterrupt(Synced(c, p))

Clock ==
  /\ software # "counters"
  /\ clint' = IF HasClint THEN Tick(clint, 1) ELSE clint
  /\ plic' = SyncPlic
  /\ lines' = lines \ {VirtioSource}
  /\ hart' = HartNow(clint', plic')
  /\ driver' = IF software = "driver" /\ hart.mstatus.ie /\ ~hart'.mstatus.ie
               THEN [driver EXCEPT !.at = "claim"] ELSE driver
  /\ nest' = IF software = "nested" THEN AfterInterrupt(nest, Synced(clint', plic')) ELSE nest
  /\ UNCHANGED <<software, uart, perf, reader, history>>

-----------------------------------------------------------------------------
(* What the software does.                                                 *)
HartOnly == UNCHANGED <<software, devices, driver, programs, history>>

CsrInstruction == software = "modes" /\ CsrWrite(hart, hart') /\ HartOnly
PageFault(cause) == software = "modes" /\ hart' = TakeTrap(hart, FALSE, cause) /\ HartOnly
ReturnFromTrap == software = "modes" /\ hart' = TrapReturn(hart) /\ HartOnly

(* PipelineCpu::reset() leaves the devices alone.                          *)
Reset ==
  /\ software \in {"modes", "nested"}
  /\ hart' = NewHart /\ nest' = NewNest
  /\ UNCHANGED <<software, devices, driver, perf, reader, history>>

UsePlic ==
  /\ software \in {"plic-m", "plic-s"}
  /\ plic' \in StorePlic(plic, Context, Lines) \cup {Claim(plic, Context)} \cup
               {StoreClaim(plic, Context, s) : s \in Lines}
  /\ UNCHANGED <<software, hart, clint, uart, lines, driver, programs, history>>

UseUart ==
  /\ software = "uart"
  /\ uart' \in UartAccesses(uart)
  /\ UNCHANGED <<software, hart, clint, plic, lines, driver, programs, history>>

(* The other registers of the CLINT.                                       *)
UseClint ==
  /\ software \in {"timer", "nested"}
  /\ clint' \in {StoreMsip(clint, b) : b \in BOOLEAN} \cup
                {StoreMtime(clint, half, v) : half \in {"low", "high"}, v \in Halves}
  /\ UNCHANGED <<software, hart, plic, uart, lines, driver, programs, history>>

(* The timer's deadline is moved by three stores, so that the comparator   *)
(* is never below the old and the new deadline.                            *)
TimerStore(half, v, moved) ==
  /\ software = "timer"
  /\ clint' = StoreMtimecmp(clint, half, v)
  /\ driver' = moved
  /\ UNCHANGED <<software, hart, plic, uart, lines, programs, history>>

MoveDeadline(t) ==
  /\ driver.at = "out"
  /\ TimerStore("high", Half - 1,
       [driver EXCEPT !.at = "low", !.deadline = t, !.former = driver.deadline])
SetLow ==
  /\ driver.at = "low"
  /\ TimerStore("low", driver.deadline % Half, [driver EXCEPT !.at = "high"])
SetHigh ==
  /\ driver.at = "high"
  /\ TimerStore("high", driver.deadline \div Half, [driver EXCEPT !.at = "out"])

(* The UART driver: its five stores in any order, then the handler.        *)
SetUp(step) ==
  /\ software = "driver" /\ step \in driver.todo /\ hart.priv = "M"
  /\ driver' = [driver EXCEPT !.todo = @ \ {step}]
  /\ uart' = IF step = "ier" THEN WriteIer(uart, {"rx"}) ELSE uart
  /\ plic' = CASE step = "priority" -> [plic EXCEPT !.priority[UartSource] = 1]
               [] step = "enable"   -> [plic EXCEPT !.enable["machine"] = {UartSource}]
               [] OTHER             -> plic
  /\ hart' = CASE step = "mie"     -> WriteMie(hart, {MEI})
               [] step = "mstatus" -> WriteMstatus(hart, [NewStatus EXCEPT !.ie = TRUE])
               [] OTHER            -> hart
  /\ UNCHANGED <<software, clint, lines, programs, history>>

HandlerAt(at, to) ==
  /\ software = "driver" /\ driver.at = at
  /\ driver' = [driver EXCEPT !.at = to]
  /\ UNCHANGED <<software, clint, lines, programs, arrived, accepted>>

HandlerClaims ==
  /\ HandlerAt("claim", IF BestPendingSource(plic, "machine") = UartSource
                        THEN "drain" ELSE "return")
  /\ UNCHANGED <<hart, plic, uart, read>>
HandlerReads ==
  /\ uart.dataReady /\ HandlerAt("drain", "drain")
  /\ uart' = ReadRbr(uart) /\ read' = read + 1
  /\ UNCHANGED <<hart, plic>>
HandlerIsDone ==
  /\ ~uart.dataReady /\ HandlerAt("drain", "complete")
  /\ UNCHANGED <<hart, plic, uart, read>>
HandlerCompletes ==
  /\ HandlerAt("complete", "return")
  /\ plic' = StoreClaim(plic, "machine", UartSource)
  /\ UNCHANGED <<hart, uart, read>>
HandlerReturns ==
  /\ HandlerAt("return", "out")
  /\ hart' = TrapReturn(hart)
  /\ UNCHANGED <<plic, uart, read>>

(* The counters' software: clock() as far as the counters see it, and the  *)
(* high, the low and again the high half read until both high ones agree.  *)
Counting ==
  /\ software = "counters"
  /\ UNCHANGED <<software, hart, devices, driver, nest, history>>

CountedClock(happening) ==
  /\ Counting /\ perf' = Clocked(perf, happening)
  /\ reader' = IF reader.at \in {"low", "again"} /\ Counts(perf, happening)
                  /\ reader.since < Half * Half
               THEN [reader EXCEPT !.since = @ + 1] ELSE reader

WriteCounter ==
  /\ Counting /\ reader.at \in {"high", "done"}
  /\ perf' \in StorePerf(perf)
  /\ reader' = [at |-> "high", high |-> 0, low |-> 0, start |-> 0, since |-> 0]

ReadHigh ==
  /\ Counting /\ reader.at = "high"
  /\ reader' = [reader EXCEPT !.at = "low", !.high = perf.high,
                !.start = perf.high * Half + perf.low]
  /\ UNCHANGED perf
ReadLow ==
  /\ Counting /\ reader.at = "low"
  /\ reader' = [reader EXCEPT !.at = "again", !.low = perf.low]
  /\ UNCHANGED perf
ReadAgain ==
  /\ Counting /\ reader.at = "again"
  /\ reader' = IF perf.high = reader.high THEN [reader EXCEPT !.at = "done"]
               ELSE [reader EXCEPT !.at = "low", !.high = perf.high]
  /\ UNCHANGED perf

(* The nested handlers' software.  Whoever starts it chooses the mode of   *)
(* the program and enables interrupts; page faults occur where interrupts  *)
(* are served, except in the supervisor's handler.                         *)
Nested ==
  /\ software = "nested"
  /\ UNCHANGED <<software, devices, driver, perf, reader, history>>

Boot(priv, m, s, delegated) ==
  /\ Nested /\ nest.pc = "boot" /\ hart.priv = "M"
  /\ hart' = TrapReturn(WriteMstatus(WriteSstatus(WriteMedeleg(
                WriteMie(hart, {MSI, MTI}), delegated),
                [NewStatus EXCEPT !.ie = s]), [ie |-> FALSE, pie |-> m, pp |-> priv]))
  /\ nest' = [nest EXCEPT !.pc = "main"]

Fault ==
  /\ Nested /\ nest.pc \in {"main", "open"}
  /\ hart' = TakeTrap(hart, FALSE, 13)
  /\ nest' = Trapped(nest, hart, FALSE, 13)

(* A step of the handler, which runs in machine mode.                      *)
InHandler(at) == Nested /\ nest.pc \in at /\ hart.priv = "M"

SaveFrame ==
  /\ InHandler({"entered"})
  /\ nest' = Saved(nest, hart) /\ UNCHANGED hart
OpenInterrupts ==
  /\ InHandler({"saved"}) /\ Len(nest.stack) < Depth
  /\ hart' = WriteMstatus(hart, [hart.mstatus EXCEPT !.ie = TRUE])
  /\ nest' = [nest EXCEPT !.pc = "open"]
CloseInterrupts ==
  /\ InHandler({"open"})
  /\ hart' = WriteMstatus(hart, [hart.mstatus EXCEPT !.ie = FALSE])
  /\ nest' = [nest EXCEPT !.pc = "closed"]
RestoreFrame ==
  /\ InHandler({"saved", "closed"})
  /\ hart' = WriteMstatus(hart, Head(nest.stack).status)
  /\ nest' = Restored(nest)
ReturnNested ==
  /\ InHandler({"entered", "restored"})
  /\ hart' = TrapReturn(hart)
  /\ nest' = Returned(nest)

UartDriver ==
  \/ \E step \in Setup : SetUp(step)
  \/ HandlerClaims \/ HandlerReads \/ HandlerIsDone \/ HandlerCompletes \/ HandlerReturns

Next ==
  \/ Clock
  \/ \E s \in Lines : RaiseLine(s) \/ LowerLine(s)
  \/ ByteArrives
  \/ CsrInstruction \/ ReturnFromTrap \/ Reset
  \/ \E cause \in {12, 13, 15} : PageFault(cause)
  \/ UsePlic \/ UseUart \/ UseClint
  \/ \E t \in Times : MoveDeadline(t)
  \/ SetLow \/ SetHigh
  \/ UartDriver
  \/ \E happening \in Happenings : CountedClock(happening)
  \/ WriteCounter \/ ReadHigh \/ ReadLow \/ ReadAgain
  \/ \E priv \in Privileges, m, s \in BOOLEAN, delegated \in {{}, {13}} :
       Boot(priv, m, s, delegated)
  \/ Fault \/ SaveFrame \/ OpenInterrupts \/ CloseInterrupts \/ RestoreFrame \/ ReturnNested

(* clock() is called again and again, and each call moves the program on.  *)
Spec == Init /\ [][Next]_vars /\ WF_vars(Clock) /\ WF_vars(UartDriver)

-----------------------------------------------------------------------------
(* Properties.                                                             *)
NotAbove(p, q) == p = q \/ p = "U" \/ q = "M"

(* Whatever CSR instructions, interrupts, faults, delegation and nesting   *)
(* came before, a trap return, which takes any of mret, sret and uret for  *)
(* mret, never raises the privilege (execute_trap_return()).               *)
ReturnsNeverRaise ==
  [][ReturnFromTrap \/ HandlerReturns \/ ReturnNested => NotAbove(hart'.priv, hart.priv)]_vars

(* However interrupts and page faults nest in the handlers that allow it,  *)
(* a return from one of them comes back to the place, the privilege and    *)
(* the interrupt enable it had interrupted (take_m_trap(),                 *)
(* execute_trap_return()).                                                 *)
ReturnsWhereTrapped ==
  [][ReturnNested =>
       [pc |-> nest'.pc, priv |-> hart'.priv, ie |-> hart'.mstatus.ie] = Head(nest.from)]_vars

(* Machine-mode traps that interrupt the supervisor's handler leave it     *)
(* what it needs to return: sepc, scause and sstatus as its own trap set   *)
(* them (take_trap()).                                                     *)
SupervisorFrameKept ==
  nest.delegated # <<>> =>
    LET d == Head(nest.delegated)
    IN  /\ nest.supervisor = [epc |-> d.pc, interrupt |-> FALSE, code |-> 13]
        /\ hart.sstatus = [ie |-> FALSE, pie |-> d.ie, pp |-> d.priv]

(* The PLIC offers, to each context, a source of the highest priority      *)
(* above the threshold, of these the first, whatever order the sources     *)
(* were raised in (best_pending_source()).                                 *)
ClaimsBest ==
  \A x \in Contexts :
    LET best == BestPendingSource(plic, x)
        Offered == {s \in plic.pending \cap plic.enable[x] :
                      plic.priority[s] > plic.threshold[x]}
    IN  IF Offered = {} THEN best = NoSource
        ELSE /\ best \in Offered
             /\ \A s \in Offered : \/ plic.priority[s] < plic.priority[best]
                                   \/ plic.priority[s] = plic.priority[best] /\ s >= best

RxCurrent(u) ==
  /\ u.dataReady <=> u.rx > 0
  /\ u.rx > 0 /\ "rx" \in u.ier => u.iir = "rx"

(* Whatever is received, read, enabled and reset, and whichever way: bytes *)
(* in the FIFO show as data ready, and if their interrupt is enabled it is *)
(* the one the UART raises (update_iir()).                                 *)
RxLineCurrent == RxCurrent(uart)

(* While the deadline is moved by halves and the time runs on or is set,   *)
(* the timer is never pending before the old and the new deadline          *)
(* (write_register() of the CLINT).                                        *)
TimerNotEarly ==
  software = "timer" /\ Mtip(clint) =>
    clint.mtime >= driver.deadline \/ (driver.at # "out" /\ clint.mtime >= driver.former)

(* The halves put together are a count that was true at some moment from   *)
(* the first read on.                                                      *)
HalvesFit ==
  \E k \in 0 .. reader.since :
    (reader.high * Half + reader.low - reader.start - k) % (Half * Half) = 0

(* Whatever is counted between the reads, carries included, what a program *)
(* reads of an mhpmcounter high, low and high again is a count that was    *)
(* true during the reading, unless the high half can have come round       *)
(* meanwhile (Counter64, perf.rs).                                         *)
CountsReadTrue ==
  perf.counter = "mhpmcounter" /\ reader.at = "done" /\ reader.since <= Half * (Half - 1) =>
    HalvesFit

(* The same of mcycle and minstret, each documented as "a 64-bit counter   *)
(* [...] split into two 32-bit registers" (Mcycle, Minstret in perf.rs).   *)
CyclesReadTrue ==
  perf.counter # "mhpmcounter" /\ reader.at = "done" /\ reader.since <= Half * (Half - 1) =>
    HalvesFit

(* Every byte the UART has room for is read by the driver's handler,       *)
(* whenever it arrives: during setup, before, in and after a handler,      *)
(* between its claim and its completion (sync_plic_pending_from_           *)
(* peripherals(), complete(), the line of the UART).                       *)
BytesDelivered ==
  (software = "driver" /\ read # accepted) ~> (software = "driver" /\ read = accepted)
=============================================================================
