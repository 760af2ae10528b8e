------------------------------- MODULE Server -------------------------------
(***************************************************************************)
(* The visualization server (src/src/visualize/server.rs): one task that   *)
(* clocks the CPU in a loop and one task per websocket client, around the  *)
(* CPU and its clock lock, the running flag, the reset sequence number and *)
(* a broadcast channel of snapshots; and the frontend's rule for which     *)
(* snapshots it shows.  clock_lock and cpu are the locks held while        *)
(* another is awaited; the others are held for one access, one step here.  *)
(***************************************************************************)
EXTENDS Integers, Sequences, FiniteSets

CONSTANTS
  Clients, Loop, Nobody,  \* client tasks, the run loop, a free lock
  MaxCycles,              \* cycles count up to here and then stay
  Capacity,               \* of the broadcast channel
  Budget                  \* connections and commands in a behaviour

ASSUME ServerAssumption ==
  /\ IsFiniteSet(Clients) /\ Loop \notin Clients /\ Nobody \notin Clients
  /\ Loop # Nobody
  /\ MaxCycles \in Nat /\ Capacity \in Nat \ {0} /\ Budget \in Nat

VARIABLES
  running, cpu, resetSeq,      \* cpu: resets so far, cycles since, halted?
  clockLock, cpuLock,          \* the holder of each
  loop, loopSnap,              \* where the run loop is, the snapshot it took
  task, snap,                  \* the same for each client task
  queue, lagged, deaf,         \* its receiver; deaf: waits for a command only
  view,                        \* what the client's frontend shows
  active,                      \* active_clients
  breakpoints,                 \* are any set?
  left,                        \* of Budget
  late, resumed                \* history: see LateClockOnce, ResetStaysPaused

vars == <<running, cpu, resetSeq, clockLock, cpuLock, loop, loopSnap, task,
          snap, queue, lagged, deaf, view, active, breakpoints, left, late, resumed>>

locks == <<clockLock, cpuLock>>
channel == <<queue, lagged>>
frontend == <<view, deaf>>

Snapshot == [seq : 0 .. Budget, gen : 0 .. Budget, cycles : -1 .. MaxCycles]
NoSnapshot == [seq |-> 0, gen |-> 0, cycles |-> -1]
Taken(c) == [seq |-> resetSeq, gen |-> c.gen, cycles |-> c.cycles]

TypeOK ==
  /\ running \in BOOLEAN /\ resetSeq \in 0 .. Budget
  /\ cpu \in [gen : 0 .. Budget, cycles : 0 .. MaxCycles, halted : BOOLEAN]
  /\ clockLock \in Clients \cup {Loop, Nobody} /\ cpuLock \in Clients \cup {Loop, Nobody}
  /\ loop \in {"top", "peek", "clk", "cpu", "clock", "sleep", "break", "send"}
  /\ task \in [Clients -> {"off", "hello", "ready", "ask", "stepClk", "stepCpu", "step",
                           "resetClk", "resetCpu", "reset", "bump", "publish",
                           "leave", "check", "pause"}]
  /\ loopSnap \in Snapshot /\ snap \in [Clients -> Snapshot]
  /\ queue \in [Clients -> Seq(Snapshot)] /\ view \in [Clients -> Snapshot]
  /\ \A c \in Clients : Len(queue[c]) <= Capacity
  /\ lagged \in [Clients -> BOOLEAN] /\ deaf \in [Clients -> BOOLEAN]
  /\ active = Cardinality({c \in Clients : task[c] \notin {"off", "check", "pause"}})
  /\ breakpoints \in BOOLEAN
  /\ left \in 0 .. Budget /\ late \in Nat /\ resumed \in BOOLEAN

Init ==
  /\ running = FALSE /\ resetSeq = 0
  /\ cpu = [gen |-> 0, cycles |-> 0, halted |-> FALSE]
  /\ clockLock = Nobody /\ cpuLock = Nobody
  /\ loop = "top" /\ loopSnap = NoSnapshot
  /\ task = [c \in Clients |-> "off"] /\ snap = [c \in Clients |-> NoSnapshot]
  /\ queue = [c \in Clients |-> <<>>]
  /\ lagged = [c \in Clients |-> FALSE] /\ deaf = [c \in Clients |-> FALSE]
  /\ view = [c \in Clients |-> NoSnapshot]
  /\ active = 0 /\ breakpoints = FALSE /\ left = Budget
  /\ late = 0 /\ resumed = FALSE

-----------------------------------------------------------------------------
(* clock() succeeded n times.                                              *)
Clocked(n) ==
  [cpu EXCEPT !.cycles = IF @ + n < MaxCycles THEN @ + n ELSE MaxCycles]

WrongBroadcast(s) ==  \* the channel never drops a snapshot
  /\ queue' = [c \in Clients |-> IF task[c] = "off" THEN queue[c] ELSE Append(queue[c], s)]
  /\ UNCHANGED lagged

(* broadcast::Sender::send: a full receiver loses its oldest snapshot.     *)
Broadcast(s) ==
  /\ queue' = [c \in Clients |->
       IF task[c] = "off" THEN queue[c]
       ELSE IF Len(queue[c]) = Capacity THEN Append(Tail(queue[c]), s)
       ELSE Append(queue[c], s)]
  /\ lagged' = [c \in Clients |->
       lagged[c] \/ (task[c] # "off" /\ Len(queue[c]) = Capacity)]

(* useWebSocket.ts onmessage: stale snapshots are dropped.                 *)
Shown(old, s) ==
  IF s.seq < old.seq \/ (s.seq = old.seq /\ s.cycles < old.cycles) THEN old ELSE s
Show(c, s) == view' = [view EXCEPT ![c] = Shown(@, s)]

-----------------------------------------------------------------------------
(* run_loop().                                                             *)
LoopGoes(from, to) == loop = from /\ loop' = to
ClientsIdle == UNCHANGED <<task, snap, frontend, active, breakpoints, left>>

WrongLoopTop ==  \* running is looked at only when the loop starts
  /\ LoopGoes("top", "peek") /\ (running \/ loopSnap # NoSnapshot)
  /\ ClientsIdle
  /\ UNCHANGED <<running, cpu, resetSeq, locks, loopSnap, channel, late, resumed>>

LoopTop ==
  /\ LoopGoes("top", "peek") /\ running
  /\ ClientsIdle
  /\ UNCHANGED <<running, cpu, resetSeq, locks, loopSnap, channel, late, resumed>>

WrongLoopPeek ==  \* cpu_guard is not dropped before clock_lock is awaited
  /\ cpuLock = Nobody
  /\ IF cpu.halted THEN LoopGoes("peek", "top") /\ running' = FALSE /\ UNCHANGED cpuLock
     ELSE LoopGoes("peek", "clk") /\ cpuLock' = Loop /\ UNCHANGED running
  /\ ClientsIdle
  /\ UNCHANGED <<cpu, resetSeq, clockLock, loopSnap, channel, late, resumed>>

LoopPeek ==
  /\ cpuLock = Nobody
  /\ IF cpu.halted THEN LoopGoes("peek", "top") /\ running' = FALSE
     ELSE LoopGoes("peek", "clk") /\ UNCHANGED running
  /\ ClientsIdle
  /\ UNCHANGED <<cpu, resetSeq, locks, loopSnap, channel, late, resumed>>

LoopLockClock ==
  /\ LoopGoes("clk", "cpu") /\ clockLock = Nobody /\ clockLock' = Loop
  /\ ClientsIdle
  /\ UNCHANGED <<running, cpu, resetSeq, cpuLock, loopSnap, channel, late, resumed>>

(* Halted is looked at again under both locks.                             *)
LoopLockCpu ==
  /\ cpuLock = Nobody
  /\ IF cpu.halted
       THEN LoopGoes("cpu", "top") /\ running' = FALSE /\ clockLock' = Nobody
            /\ UNCHANGED cpuLock
       ELSE LoopGoes("cpu", "clock") /\ cpuLock' = Loop /\ UNCHANGED <<running, clockLock>>
  /\ ClientsIdle
  /\ UNCHANGED <<cpu, resetSeq, loopSnap, channel, late, resumed>>

LoopClock ==
  /\ LoopGoes("clock", "break")
  /\ cpu' = Clocked(1) /\ loopSnap' = Taken(Clocked(1))
  /\ clockLock' = Nobody /\ cpuLock' = Nobody
  /\ late' = IF running THEN 0 ELSE late + 1
  /\ ClientsIdle
  /\ UNCHANGED <<running, resetSeq, channel, resumed>>

(* clock() failed.  RAM is attached under a low address, or the CPU halts; *)
(* either way the loop sleeps with the clock lock held.                    *)
LoopAttach ==
  /\ LoopGoes("clock", "sleep") /\ cpuLock' = Nobody
  /\ ClientsIdle
  /\ UNCHANGED <<running, cpu, resetSeq, clockLock, loopSnap, channel, late, resumed>>

LoopError ==
  /\ LoopGoes("clock", "sleep")
  /\ cpu' = [cpu EXCEPT !.halted = TRUE] /\ running' = FALSE
  /\ Broadcast(Taken(cpu)) /\ cpuLock' = Nobody
  /\ ClientsIdle
  /\ UNCHANGED <<resetSeq, clockLock, loopSnap, late, resumed>>

LoopWake ==
  /\ LoopGoes("sleep", "top") /\ clockLock' = Nobody
  /\ ClientsIdle
  /\ UNCHANGED <<running, cpu, resetSeq, cpuLock, loopSnap, channel, late, resumed>>

(* The new pc may have a breakpoint.                                       *)
LoopBreak ==
  /\ LoopGoes("break", "send")
  /\ running' \in IF breakpoints THEN {running, FALSE} ELSE {running}
  /\ ClientsIdle
  /\ UNCHANGED <<cpu, resetSeq, locks, loopSnap, channel, late, resumed>>

WrongLoopSend ==  \* reset_sequence is read when the snapshot is sent
  /\ LoopGoes("send", "top") /\ Broadcast([loopSnap EXCEPT !.seq = resetSeq])
  /\ ClientsIdle
  /\ UNCHANGED <<running, cpu, resetSeq, locks, loopSnap, late, resumed>>

LoopSend ==
  /\ LoopGoes("send", "top") /\ Broadcast(loopSnap)
  /\ ClientsIdle
  /\ UNCHANGED <<running, cpu, resetSeq, locks, loopSnap, late, resumed>>

RunLoop ==
  \/ LoopTop \/ LoopPeek \/ LoopLockClock \/ LoopLockCpu
  \/ LoopClock \/ LoopAttach \/ LoopError \/ LoopWake \/ LoopBreak \/ LoopSend

-----------------------------------------------------------------------------
(* A client task.                                                          *)
Goes(c, from, to) == task[c] = from /\ task' = [task EXCEPT ![c] = to]
LoopIdle == UNCHANGED <<loop, loopSnap, breakpoints>>
Command(c) == left > 0 /\ left' = left - 1 /\ deaf' = [deaf EXCEPT ![c] = FALSE]

Connect(c) ==
  /\ Goes(c, "off", "hello") /\ left > 0 /\ left' = left - 1
  /\ active' = active + 1
  /\ queue' = [queue EXCEPT ![c] = <<>>]
  /\ lagged' = [lagged EXCEPT ![c] = FALSE] /\ deaf' = [deaf EXCEPT ![c] = FALSE]
  /\ view' = [view EXCEPT ![c] = NoSnapshot]
  /\ LoopIdle /\ UNCHANGED <<running, cpu, resetSeq, locks, snap, late, resumed>>

(* The initial snapshot; if it cannot be sent the task returns at once.    *)
Hello(c) ==
  /\ cpuLock = Nobody
  /\ \/ Goes(c, "hello", "ready") /\ Show(c, Taken(cpu)) /\ UNCHANGED active
     \/ Goes(c, "hello", "off") /\ active' = active - 1 /\ UNCHANGED view
  /\ LoopIdle
  /\ UNCHANGED <<running, cpu, resetSeq, locks, snap, channel, deaf, left, late, resumed>>

(* select!: the next broadcast snapshot; after a Lagged error the branch   *)
(* is disabled until a command has been handled.                           *)
Receive(c) ==
  /\ task[c] = "ready" /\ ~deaf[c] /\ queue[c] # <<>>
  /\ IF lagged[c]
       THEN /\ lagged' = [lagged EXCEPT ![c] = FALSE]
            /\ deaf' = [deaf EXCEPT ![c] = TRUE]
            /\ UNCHANGED <<queue, view>>
       ELSE /\ Show(c, Head(queue[c])) /\ queue' = [queue EXCEPT ![c] = Tail(@)]
            /\ UNCHANGED <<lagged, deaf>>
  /\ LoopIdle
  /\ UNCHANGED <<running, cpu, resetSeq, locks, task, snap, active, left, late, resumed>>

(* Commands that take the CPU's lock alone, not clock_lock.               *)
Ask(c) ==
  /\ Command(c) /\ Goes(c, "ready", "ask")
  /\ LoopIdle
  /\ UNCHANGED <<running, cpu, resetSeq, locks, snap, channel, view, active, late, resumed>>

AtCpu(c) ==
  /\ Goes(c, "ask", "ready") /\ cpuLock = Nobody
  /\ LoopIdle
  /\ UNCHANGED <<running, cpu, resetSeq, locks, snap, channel, deaf, active, left, late,
                 resumed>>

AnswerState(c) == AtCpu(c) /\ Show(c, Taken(cpu))

(* They read: Memory, Disassemble, Framebuffer, the input and accelerator  *)
(* states; or they write memory, keys or the predictor, but no cycle and   *)
(* no reset is theirs: FramebufferDemo and -Game, InputKey and -Clear,     *)
(* PredictorSwitch.                                                        *)
Inspect(c)   == AtCpu(c) /\ UNCHANGED view
Intervene(c) == AtCpu(c) /\ UNCHANGED view

(* Commands on a lock of their own: the breakpoints', which the run loop   *)
(* takes too, and those of speed, initial_pc and history, not kept here.   *)
OwnLock(c) ==
  /\ Command(c) /\ task[c] = "ready"
  /\ UNCHANGED <<loop, loopSnap, running, cpu, resetSeq, locks, task, snap, channel, view,
                 active, late, resumed>>
SetBreakpoints(c, set) == OwnLock(c) /\ breakpoints' = set
Configure(c)           == OwnLock(c) /\ UNCHANGED breakpoints

RunOrPause(c, on) ==
  /\ Command(c) /\ task[c] = "ready"
  /\ running' = on
  /\ late' = IF on THEN 0 ELSE late
  /\ resumed' = (resumed \/ on)
  /\ LoopIdle
  /\ UNCHANGED <<cpu, resetSeq, locks, task, snap, channel, view, active>>

(* The two locks, in the order every task takes them.                      *)
LockClock(c) ==
  /\ Goes(c, "stepClk", "stepCpu") \/ Goes(c, "resetClk", "resetCpu")
  /\ clockLock = Nobody /\ clockLock' = c
  /\ LoopIdle
  /\ UNCHANGED <<running, cpu, resetSeq, cpuLock, snap, channel, frontend, active,
                 left, late, resumed>>

LockCpu(c) ==
  /\ Goes(c, "stepCpu", "step") \/ Goes(c, "resetCpu", "reset")
  /\ cpuLock = Nobody /\ cpuLock' = c
  /\ LoopIdle
  /\ UNCHANGED <<running, cpu, resetSeq, clockLock, snap, channel, frontend, active,
                 left, late, resumed>>

(* Step and StepN.                                                         *)
StepCommand(c) ==
  /\ Command(c) /\ Goes(c, "ready", "stepClk")
  /\ LoopIdle
  /\ UNCHANGED <<running, cpu, resetSeq, locks, snap, channel, view, active, late, resumed>>

(* Cycles that fail are ignored, and none succeeds on a halted CPU.        *)
Step(c) ==
  /\ Goes(c, "step", "ready")
  /\ \E n \in IF cpu.halted THEN {0} ELSE 0 .. MaxCycles :
       cpu' = Clocked(n) /\ Broadcast(Taken(Clocked(n)))
  /\ clockLock' = Nobody /\ cpuLock' = Nobody
  /\ resumed' = TRUE
  /\ LoopIdle /\ UNCHANGED <<running, resetSeq, snap, frontend, active, left, late>>

ResetCommand(c) ==
  /\ Command(c) /\ Goes(c, "ready", "resetClk")
  /\ running' = FALSE
  /\ LoopIdle
  /\ UNCHANGED <<cpu, resetSeq, locks, snap, channel, view, active, late, resumed>>

Reset(c) ==
  /\ Goes(c, "reset", "bump")
  /\ cpu' = [gen |-> cpu.gen + 1, cycles |-> 0, halted |-> FALSE]
  /\ snap' = [snap EXCEPT ![c] = [seq |-> 0, gen |-> cpu.gen + 1, cycles |-> 0]]
  /\ clockLock' = Nobody /\ cpuLock' = Nobody
  /\ resumed' = running
  /\ LoopIdle
  /\ UNCHANGED <<running, resetSeq, channel, frontend, active, left, late>>

BumpSequence(c) ==
  /\ Goes(c, "bump", "publish")
  /\ resetSeq' = resetSeq + 1
  /\ snap' = [snap EXCEPT ![c].seq = resetSeq + 1]
  /\ LoopIdle
  /\ UNCHANGED <<running, cpu, locks, channel, frontend, active, left, late, resumed>>

(* Once the instruction at initial_pc has been read from the bus.          *)
Publish(c) ==
  /\ Goes(c, "publish", "ready") /\ cpuLock = Nobody
  /\ Broadcast(snap[c]) /\ Show(c, snap[c])
  /\ LoopIdle
  /\ UNCHANGED <<running, cpu, resetSeq, locks, snap, deaf, active, left, late, resumed>>

(* Disconnection, by the client or by an error on the socket.              *)
Close(c) ==
  /\ Goes(c, "ready", "leave")
  /\ LoopIdle
  /\ UNCHANGED <<running, cpu, resetSeq, locks, snap, channel, frontend, active, left,
                 late, resumed>>

DropGuard(c) ==
  /\ Goes(c, "leave", "check") /\ active' = active - 1
  /\ LoopIdle
  /\ UNCHANGED <<running, cpu, resetSeq, locks, snap, channel, frontend, left, late, resumed>>

CheckLast(c) ==
  /\ Goes(c, "check", IF active = 0 THEN "pause" ELSE "off")
  /\ LoopIdle
  /\ UNCHANGED <<running, cpu, resetSeq, locks, snap, channel, frontend, active, left,
                 late, resumed>>

PauseLast(c) ==
  /\ Goes(c, "pause", "off") /\ running' = FALSE
  /\ LoopIdle
  /\ UNCHANGED <<cpu, resetSeq, locks, snap, channel, frontend, active, left, late, resumed>>

(* What a client task does by itself, and what its user may do.            *)
ClientTask(c) ==
  \/ Hello(c) \/ Receive(c) \/ AnswerState(c) \/ Inspect(c) \/ Intervene(c)
  \/ LockClock(c) \/ LockCpu(c) \/ Step(c) \/ Reset(c) \/ BumpSequence(c) \/ Publish(c)
  \/ DropGuard(c) \/ CheckLast(c) \/ PauseLast(c)
User(c) ==
  \/ Connect(c) \/ Ask(c) \/ StepCommand(c) \/ ResetCommand(c) \/ Close(c) \/ Configure(c)
  \/ \E on \in BOOLEAN : RunOrPause(c, on) \/ SetBreakpoints(c, on)

Next == RunLoop \/ \E c \in Clients : ClientTask(c) \/ User(c)

(* tokio polls every ready task, and its mutexes hand over in the order of *)
(* arrival: a task that waits for a lock gets it.  Users do as they like.  *)
Spec ==
  /\ Init /\ [][Next]_vars
  /\ SF_vars(RunLoop) /\ \A c \in Clients : SF_vars(ClientTask(c))

-----------------------------------------------------------------------------
(* Properties.                                                             *)
Snapshots ==
  {loopSnap} \cup UNION {{snap[c], view[c]} \cup {queue[c][i] : i \in 1 .. Len(queue[c])} :
                           c \in Clients}

(* A snapshot of a CPU that has run carries no later reset number than the *)
(* reset it ran after: a frontend that has seen a reset never shows cycles *)
(* from before it, whatever the order of resets, clocks and broadcasts     *)
(* (Command::Reset, run_loop(), useWebSocket.ts).                          *)
FreshSnapshots == \A s \in Snapshots : s.cycles > 0 => s.seq <= s.gen

(* However a pause, a reset, a breakpoint or a departure falls into the    *)
(* run loop's iteration, it clocks the CPU at most once after running was  *)
(* cleared (late counts the clocks since; run_loop()).                     *)
LateClockOnce == late <= 1

(* Every command and every connection comes to its end: the locks are      *)
(* never awaited in a circle (run_loop()'s comment on the locking order).  *)
CommandsFinish ==
  \A c \in Clients : task[c] \notin {"off", "ready"} ~> task[c] \in {"off", "ready"}

(* After a reset the CPU stays where the reset put it until a client runs  *)
(* or steps it (Command::Reset: "to avoid a race where the run loop picks  *)
(* up execution immediately after resetting the PC").                      *)
ResetStaysPaused == ~resumed => cpu.cycles = 0
=============================================================================
