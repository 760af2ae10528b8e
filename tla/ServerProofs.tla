---------------------------- MODULE ServerProofs ----------------------------
(***************************************************************************)
(* Theorems about Server, for any number of clients, any length of the     *)
(* channel and any number of commands.                                     *)
(***************************************************************************)
EXTENDS Server, FiniteSetTheorems, TLAPS

Places ==
  {"off", "hello", "ready", "ask", "stepClk", "stepCpu", "step", "resetClk", "resetCpu",
   "reset", "bump", "publish", "leave", "check", "pause"}
Online    == Places \ {"off", "check", "pause"}
Resetting == {"resetClk", "resetCpu", "reset"}
Bumping   == {"bump"}

-----------------------------------------------------------------------------
(* How many tasks are in one of some places.                               *)
Count(f, S) == Cardinality({c \in Clients : f[c] \in S})
One(place, S) == IF place \in S THEN 1 ELSE 0

LEMMA CountedIsNat ==
  ASSUME NEW f, NEW S
  PROVE  Count(f, S) \in Nat
<1>1. IsFiniteSet({c \in Clients : f[c] \in S})
  BY ServerAssumption, FS_Subset
<1> QED  BY <1>1, FS_CardinalityType DEF Count

LEMMA CountMoved ==
  ASSUME NEW f, NEW c \in Clients, f \in [Clients -> Places], NEW to, NEW S
  PROVE  Count([f EXCEPT ![c] = to], S) = Count(f, S) + One(to, S) - One(f[c], S)
<1> DEFINE g    == [f EXCEPT ![c] = to]
           Here == {d \in Clients : f[d] \in S}
           Then == {d \in Clients : g[d] \in S}
<1>1. IsFiniteSet(Here) /\ Cardinality(Here) \in Nat
  BY ServerAssumption, FS_Subset, FS_CardinalityType
<1>2. g[c] = to /\ \A d \in Clients : d # c => g[d] = f[d]
  OBVIOUS
<1>3. c \in Here <=> f[c] \in S
  OBVIOUS
<1>4. Count(g, S) = Cardinality(Then) /\ Count(f, S) = Cardinality(Here)
  BY DEF Count
<1>5. CASE to \in S
  <2>1. Then = Here \cup {c}
    BY <1>2, <1>5
  <2>2. Cardinality(Then) =
          IF c \in Here THEN Cardinality(Here) ELSE Cardinality(Here) + 1
    BY <1>1, <2>1, FS_AddElement, Zenon
  <2>3. One(to, S) = 1 /\ One(f[c], S) = IF c \in Here THEN 1 ELSE 0
    BY <1>3, <1>5, Zenon DEF One
  <2> HIDE DEF Here, Then
  <2>4. Cardinality(Then) = Cardinality(Here) + One(to, S) - One(f[c], S)
    BY <1>1, <2>2, <2>3
  <2> QED
    BY <1>4, <2>4
<1>6. CASE to \notin S
  <2>1. Then = Here \ {c}
    BY <1>2, <1>6
  <2>2. Cardinality(Then) =
          IF c \in Here THEN Cardinality(Here) - 1 ELSE Cardinality(Here)
    BY <1>1, <2>1, FS_RemoveElement, Zenon
  <2>3. One(to, S) = 0 /\ One(f[c], S) = IF c \in Here THEN 1 ELSE 0
    BY <1>3, <1>6, Zenon DEF One
  <2> HIDE DEF Here, Then
  <2>4. Cardinality(Then) = Cardinality(Here) + One(to, S) - One(f[c], S)
    BY <1>1, <2>2, <2>3
  <2> QED
    BY <1>4, <2>4
<1> QED  BY <1>5, <1>6

-----------------------------------------------------------------------------
(* Every reset that is begun is paid for by a command, and has advanced    *)
(* the reset sequence unless its task is just about to.                    *)
CpuState == [gen : Nat, cycles : 0 .. MaxCycles, halted : BOOLEAN]
Accounts ==
  /\ task \in [Clients -> Places]
  /\ cpu \in CpuState /\ resetSeq \in Nat /\ left \in 0 .. Budget
  /\ active = Count(task, Online)
  /\ cpu.gen + Count(task, Resetting) + left <= Budget
  /\ resetSeq + Count(task, Bumping) = cpu.gen

LEMMA ClockedKeeps ==
  ASSUME cpu \in CpuState, NEW n \in Nat
  PROVE  Clocked(n) \in CpuState /\ Clocked(n).gen = cpu.gen
BY ServerAssumption DEF Clocked, CpuState

LEMMA CountsMoved ==
  \A f \in [Clients -> Places], c \in Clients : \A to, S :
    Count([f EXCEPT ![c] = to], S) = Count(f, S) + One(to, S) - One(f[c], S)
BY CountMoved

LEMMA CountMoves ==
  ASSUME task \in [Clients -> Places], NEW c \in Clients, NEW from \in Places,
         NEW to \in Places, Goes(c, from, to)
  PROVE  /\ task' \in [Clients -> Places]
         /\ \A S : /\ Count(task, S) \in Nat /\ Count(task', S) \in Nat
                  /\ Count(task', S) = Count(task, S) + One(to, S) - One(from, S)
<1>1. task[c] = from /\ task' = [task EXCEPT ![c] = to]
  BY DEF Goes
<1>2. task' \in [Clients -> Places]
  BY <1>1
<1>3. ASSUME NEW S
      PROVE  /\ Count(task, S) \in Nat /\ Count(task', S) \in Nat
             /\ Count(task', S) = Count(task, S) + One(to, S) - One(from, S)
  <2>1. Count(task, S) \in Nat /\ Count(task', S) \in Nat
    BY CountedIsNat
  <2>2. Count([task EXCEPT ![c] = to], S) = Count(task, S) + One(to, S) - One(task[c], S)
    BY CountsMoved, Zenon
  <2> QED
    BY <1>1, <2>1, <2>2
<1> QED
  BY <1>2, <1>3

LEMMA AccountsInit == Init => Accounts
<1> SUFFICES ASSUME Init PROVE Accounts
  OBVIOUS
<1>1. \A S : "off" \notin S => {c \in Clients : task[c] \in S} = {}
  BY DEF Init
<1>2. \A S : "off" \notin S => Count(task, S) = 0
  BY <1>1, FS_EmptySet DEF Count
<1>3. "off" \notin Resetting /\ "off" \notin Bumping /\ "off" \notin Online
  BY DEF Resetting, Bumping, Online
<1>4. /\ Count(task, Resetting) = 0 /\ Count(task, Bumping) = 0
      /\ Count(task, Online) = 0
  BY <1>2, <1>3
<1> QED  BY <1>4, ServerAssumption DEF Init, Accounts, CpuState, Places

(* What the run loop leaves alone.                                         *)
LEMMA LoopLeaves ==
  ASSUME Accounts, RunLoop
  PROVE  /\ UNCHANGED <<task, snap, view, deaf, active, breakpoints, left, resetSeq>>
         /\ cpu' \in CpuState /\ cpu'.gen = cpu.gen
<1>1. cpu' \in {cpu, Clocked(1), [cpu EXCEPT !.halted = TRUE]}
  BY DEF RunLoop, LoopTop, LoopPeek, LoopLockClock, LoopLockCpu, LoopClock, LoopAttach,
         LoopError, LoopWake, LoopBreak, LoopSend
<1>2. cpu \in CpuState
  BY DEF Accounts
<1>3. cpu' \in CpuState /\ cpu'.gen = cpu.gen
  <2>1. Clocked(1) \in CpuState /\ Clocked(1).gen = cpu.gen
    BY <1>2, ClockedKeeps
  <2>2. /\ [cpu EXCEPT !.halted = TRUE] \in CpuState
        /\ [cpu EXCEPT !.halted = TRUE].gen = cpu.gen
    BY <1>2 DEF CpuState
  <2> QED  BY <1>1, <1>2, <2>1, <2>2
<1>4. UNCHANGED <<task, snap, view, deaf, active, breakpoints, left, resetSeq>>
  BY DEF RunLoop, LoopTop, LoopPeek, LoopLockClock, LoopLockCpu, LoopClock, LoopAttach,
         LoopError, LoopWake, LoopBreak, LoopSend, ClientsIdle, frontend
<1> QED  BY <1>3, <1>4

(* Steps of a client that reset nothing.                                   *)
Others == Places \ (Resetting \cup Bumping)

LEMMA QuietAccounts ==
  ASSUME Accounts, NEW c \in Clients, UNCHANGED <<task, active, resetSeq, cpu>>,
         Command(c) \/ left' = left
  PROVE  Accounts'
<1>1. Count(task, Resetting) \in Nat
  BY CountedIsNat
<1>2. left' \in 0 .. Budget /\ left' <= left
  BY ServerAssumption DEF Accounts, Command
<1>3. cpu.gen + Count(task, Resetting) + left' <= Budget
  BY <1>1, <1>2, ServerAssumption DEF Accounts, CpuState
<1> QED  BY <1>2, <1>3 DEF Accounts, Count

LEMMA OtherAccounts ==
  ASSUME Accounts, NEW c \in Clients, NEW from \in Others, NEW to \in Others,
         Goes(c, from, to), resetSeq' = resetSeq, cpu' \in CpuState, cpu'.gen = cpu.gen,
         left' \in {left, left - 1}, left' >= 0,
         active' = active + One(to, Online) - One(from, Online)
  PROVE  Accounts'
<1>1. /\ task' \in [Clients -> Places]
      /\ \A S : /\ Count(task, S) \in Nat /\ Count(task', S) \in Nat
               /\ Count(task', S) = Count(task, S) + One(to, S) - One(from, S)
  BY CountMoves DEF Accounts, Others
<1>2. Count(task', Resetting) = Count(task, Resetting)
  <2>1. One(to, Resetting) = 0 /\ One(from, Resetting) = 0
    BY DEF One, Others
  <2> QED  BY <1>1, <2>1
<1>3. Count(task', Bumping) = Count(task, Bumping)
  <2>1. One(to, Bumping) = 0 /\ One(from, Bumping) = 0
    BY DEF One, Others
  <2> QED  BY <1>1, <2>1
<1>4. active' = Count(task', Online)
  BY <1>1 DEF Accounts
<1>5. left' \in 0 .. Budget /\ left' <= left
  BY ServerAssumption DEF Accounts
<1>6. cpu.gen + Count(task, Resetting) + left' <= Budget
  <2>1. Count(task, Resetting) \in Nat
    BY <1>1
  <2> QED  BY <2>1, <1>5, ServerAssumption DEF Accounts, CpuState
<1> QED  BY <1>1, <1>2, <1>3, <1>4, <1>5, <1>6 DEF Accounts, Count

LEMMA OtherPlaces ==
  /\ \A p \in Others \cap Online : One(p, Online) = 1
  /\ \A p \in Others \ Online : One(p, Online) = 0
  /\ {"hello", "ready", "ask", "stepClk", "stepCpu", "step", "publish", "leave"}
       \subseteq Others \cap Online
  /\ {"off", "check", "pause"} \subseteq Others \ Online
BY DEF One, Online, Others, Places, Resetting, Bumping

(* A client that stays connected, or stays away, and resets nothing.       *)
LEMMA SteadyAccounts ==
  ASSUME Accounts, NEW c \in Clients, NEW from \in Others, NEW to \in Others,
         from \in Online <=> to \in Online,
         Goes(c, from, to), resetSeq' = resetSeq, cpu' \in CpuState, cpu'.gen = cpu.gen,
         left' = left \/ Command(c), active' = active
  PROVE  Accounts'
<1>1. active \in Nat
  BY CountedIsNat DEF Accounts
<1>2. One(to, Online) = One(from, Online) /\ One(to, Online) \in Int
  BY OtherPlaces
<1>3. active' = active + One(to, Online) - One(from, Online)
  BY <1>1, <1>2
<1>4. left' \in {left, left - 1} /\ left' >= 0
  BY ServerAssumption DEF Accounts, Command
<1> QED  BY <1>3, <1>4, OtherAccounts

(* A client on its way to its reset.                                       *)
LEMMA ResettingAccounts ==
  ASSUME Accounts, NEW c \in Clients, NEW from \in Resetting, NEW to \in Resetting,
         Goes(c, from, to), UNCHANGED <<cpu, resetSeq, active, left>>
  PROVE  Accounts'
<1>1. from \in Places /\ to \in Places
  BY DEF Resetting, Places
<1>2. /\ task' \in [Clients -> Places]
      /\ \A S : /\ Count(task, S) \in Nat /\ Count(task', S) \in Nat
               /\ Count(task', S) = Count(task, S) + One(to, S) - One(from, S)
  BY <1>1, CountMoves DEF Accounts
<1>3. /\ One(to, Resetting) = 1 /\ One(from, Resetting) = 1
      /\ One(to, Bumping) = 0 /\ One(from, Bumping) = 0
      /\ One(to, Online) = 1 /\ One(from, Online) = 1
  BY DEF One, Resetting, Bumping, Online, Places
<1>4. Count(task', Resetting) = Count(task, Resetting)
  BY <1>2, <1>3
<1>5. Count(task', Bumping) = Count(task, Bumping)
  BY <1>2, <1>3
<1>6. Count(task', Online) = Count(task, Online)
  BY <1>2, <1>3
<1> QED  BY <1>2, <1>4, <1>5, <1>6 DEF Accounts, Count

LEMMA UserAccounts ==
  ASSUME Accounts, NEW c \in Clients, User(c)
  PROVE  Accounts'
<1>0. cpu \in CpuState
  BY DEF Accounts
<1>1. CASE Connect(c)
  <2>1. "off" \in Others /\ "hello" \in Others
    BY OtherPlaces
  <2>2. One("hello", Online) = 1 /\ One("off", Online) = 0
    BY OtherPlaces
  <2>3. active \in Nat
    BY CountedIsNat DEF Accounts
  <2>4. active' = active + One("hello", Online) - One("off", Online)
    BY <1>1, <2>2, <2>3 DEF Connect
  <2>5. left' \in {left, left - 1} /\ left' >= 0
    BY <1>1, ServerAssumption DEF Connect, Accounts
  <2>6. Goes(c, "off", "hello") /\ resetSeq' = resetSeq /\ cpu' = cpu
    BY <1>1 DEF Connect
  <2> QED  BY <1>0, <2>1, <2>4, <2>5, <2>6, OtherAccounts
<1>2. CASE Ask(c)
  <2>1. "ready" \in Others /\ "ask" \in Others
        /\ ("ready" \in Online <=> "ask" \in Online)
    BY OtherPlaces
  <2>2. Goes(c, "ready", "ask") /\ UNCHANGED <<cpu, resetSeq, active>>
        /\ (left' = left \/ Command(c))
    BY <1>2 DEF Ask
  <2> QED  BY <1>0, <2>1, <2>2, SteadyAccounts
<1>3. CASE StepCommand(c)
  <2>1. "ready" \in Others /\ "stepClk" \in Others
        /\ ("ready" \in Online <=> "stepClk" \in Online)
    BY OtherPlaces
  <2>2. Goes(c, "ready", "stepClk") /\ UNCHANGED <<cpu, resetSeq, active>>
        /\ (left' = left \/ Command(c))
    BY <1>3 DEF StepCommand
  <2> QED  BY <1>0, <2>1, <2>2, SteadyAccounts
<1>4. CASE ResetCommand(c)
  <2>1. /\ task' \in [Clients -> Places]
        /\ \A S : /\ Count(task, S) \in Nat /\ Count(task', S) \in Nat
                 /\ Count(task', S) = Count(task, S) + One("resetClk", S) - One("ready", S)
    BY <1>4, CountMoves DEF ResetCommand, Accounts, Places
  <2>2. /\ One("resetClk", Resetting) = 1 /\ One("ready", Resetting) = 0
        /\ One("resetClk", Bumping) = 0 /\ One("ready", Bumping) = 0
        /\ One("resetClk", Online) = 1 /\ One("ready", Online) = 1
    BY DEF One, Resetting, Bumping, Online, Places
  <2>3. left' = left - 1 /\ left > 0 /\ cpu' = cpu /\ resetSeq' = resetSeq
        /\ active' = active
    BY <1>4 DEF ResetCommand, Command
  <2>4. left' \in 0 .. Budget
    BY <2>3, ServerAssumption DEF Accounts
  <2>5. cpu.gen + Count(task', Resetting) + left' <= Budget
    <3>1. Count(task', Resetting) = Count(task, Resetting) + 1 /\ Count(task, Resetting) \in Nat
      BY <2>1, <2>2
    <3> QED  BY <3>1, <2>3, ServerAssumption DEF Accounts, CpuState
  <2>6. Count(task', Bumping) = Count(task, Bumping)
    BY <2>1, <2>2
  <2>7. Count(task', Online) = Count(task, Online)
    BY <2>1, <2>2
  <2> QED  BY <2>1, <2>3, <2>4, <2>5, <2>6, <2>7 DEF Accounts, Count
<1>5. CASE Close(c)
  <2>1. "ready" \in Others /\ "leave" \in Others
        /\ ("ready" \in Online <=> "leave" \in Online)
    BY OtherPlaces
  <2>2. Goes(c, "ready", "leave") /\ UNCHANGED <<cpu, resetSeq, active>>
        /\ (left' = left \/ Command(c))
    BY <1>5 DEF Close
  <2> QED  BY <1>0, <2>1, <2>2, SteadyAccounts
<1>6. CASE Configure(c)
  BY <1>6, QuietAccounts DEF Configure, OwnLock
<1>7. ASSUME NEW on \in BOOLEAN, RunOrPause(c, on) PROVE Accounts'
  BY <1>7, QuietAccounts DEF RunOrPause
<1>8. ASSUME NEW on \in BOOLEAN, SetBreakpoints(c, on) PROVE Accounts'
  BY <1>8, QuietAccounts DEF SetBreakpoints, OwnLock
<1> QED  BY <1>1, <1>2, <1>3, <1>4, <1>5, <1>6, <1>7, <1>8 DEF User

LEMMA ClientTaskAccounts ==
  ASSUME Accounts, NEW c \in Clients, ClientTask(c)
  PROVE  Accounts'
<1>0. cpu \in CpuState /\ active \in Nat
  BY CountedIsNat DEF Accounts
<1>1. CASE Hello(c)
  <2>1. /\ "hello" \in Others /\ "ready" \in Others /\ "off" \in Others
        /\ "hello" \in Online <=> "ready" \in Online
    BY OtherPlaces
  <2>2. UNCHANGED <<cpu, resetSeq, left>>
    BY <1>1 DEF Hello
  <2>3. CASE Goes(c, "hello", "ready") /\ active' = active
    BY <1>0, <2>1, <2>2, <2>3, SteadyAccounts
  <2>4. CASE Goes(c, "hello", "off") /\ active' = active - 1
    <3>1. One("hello", Online) = 1 /\ One("off", Online) = 0
      BY OtherPlaces
    <3>2. active' = active + One("off", Online) - One("hello", Online)
      BY <1>0, <2>4, <3>1
    <3>3. left' \in {left, left - 1} /\ left' >= 0
      BY <2>2 DEF Accounts
    <3> QED  BY <1>0, <2>1, <2>2, <2>4, <3>2, <3>3, OtherAccounts
  <2> QED  BY <1>1, <2>3, <2>4 DEF Hello
<1>2. CASE Receive(c)
  BY <1>2, QuietAccounts DEF Receive
<1>3. CASE AnswerState(c)
  <2>1. "ask" \in Others /\ "ready" \in Others
        /\ ("ask" \in Online <=> "ready" \in Online)
    BY OtherPlaces
  <2>2. Goes(c, "ask", "ready") /\ UNCHANGED <<cpu, resetSeq, active, left>>
    BY <1>3 DEF AnswerState, AtCpu
  <2> QED  BY <1>0, <2>1, <2>2, SteadyAccounts
<1>4. CASE Inspect(c)
  <2>1. "ask" \in Others /\ "ready" \in Others
        /\ ("ask" \in Online <=> "ready" \in Online)
    BY OtherPlaces
  <2>2. Goes(c, "ask", "ready") /\ UNCHANGED <<cpu, resetSeq, active, left>>
    BY <1>4 DEF Inspect, AtCpu
  <2> QED  BY <1>0, <2>1, <2>2, SteadyAccounts
<1>5. CASE Intervene(c)
  <2>1. "ask" \in Others /\ "ready" \in Others
        /\ ("ask" \in Online <=> "ready" \in Online)
    BY OtherPlaces
  <2>2. Goes(c, "ask", "ready") /\ UNCHANGED <<cpu, resetSeq, active, left>>
    BY <1>5 DEF Intervene, AtCpu
  <2> QED  BY <1>0, <2>1, <2>2, SteadyAccounts
<1>6. CASE LockClock(c)
  <2>1. UNCHANGED <<cpu, resetSeq, active, left>>
    BY <1>6 DEF LockClock
  <2>2. CASE Goes(c, "stepClk", "stepCpu")
    <3>1. "stepClk" \in Others /\ "stepCpu" \in Others
      /\ ("stepClk" \in Online <=> "stepCpu" \in Online)
      BY OtherPlaces
    <3> QED  BY <1>0, <2>1, <2>2, <3>1, SteadyAccounts
  <2>3. CASE Goes(c, "resetClk", "resetCpu")
    <3>1. "resetClk" \in Resetting /\ "resetCpu" \in Resetting
      BY DEF Resetting
    <3> QED  BY <2>1, <2>3, <3>1, ResettingAccounts
  <2> QED  BY <1>6, <2>2, <2>3 DEF LockClock
<1>7. CASE LockCpu(c)
  <2>1. UNCHANGED <<cpu, resetSeq, active, left>>
    BY <1>7 DEF LockCpu
  <2>2. CASE Goes(c, "stepCpu", "step")
    <3>1. "stepCpu" \in Others /\ "step" \in Others
      /\ ("stepCpu" \in Online <=> "step" \in Online)
      BY OtherPlaces
    <3> QED  BY <1>0, <2>1, <2>2, <3>1, SteadyAccounts
  <2>3. CASE Goes(c, "resetCpu", "reset")
    <3>1. "resetCpu" \in Resetting /\ "reset" \in Resetting
      BY DEF Resetting
    <3> QED  BY <2>1, <2>3, <3>1, ResettingAccounts
  <2> QED  BY <1>7, <2>2, <2>3 DEF LockCpu
<1>8. CASE Step(c)
  <2>1. "step" \in Others /\ "ready" \in Others
        /\ ("step" \in Online <=> "ready" \in Online)
    BY OtherPlaces
  <2>2. Goes(c, "step", "ready") /\ UNCHANGED <<resetSeq, active, left>>
    BY <1>8 DEF Step
  <2>3. PICK n \in Nat : cpu' = Clocked(n)
    BY <1>8, ServerAssumption DEF Step
  <2>4. cpu' \in CpuState /\ cpu'.gen = cpu.gen
    BY <1>0, <2>3, ClockedKeeps
  <2> QED  BY <2>1, <2>2, <2>4, SteadyAccounts
<1>9. CASE Reset(c)
  <2>1. /\ task' \in [Clients -> Places]
        /\ \A S : /\ Count(task, S) \in Nat /\ Count(task', S) \in Nat
                 /\ Count(task', S) = Count(task, S) + One("bump", S) - One("reset", S)
    BY <1>9, CountMoves DEF Reset, Accounts, Places
  <2>2. /\ One("bump", Resetting) = 0 /\ One("reset", Resetting) = 1
        /\ One("bump", Bumping) = 1 /\ One("reset", Bumping) = 0
        /\ One("bump", Online) = 1 /\ One("reset", Online) = 1
    BY DEF One, Resetting, Bumping, Online, Places
  <2>3. /\ cpu' = [gen |-> cpu.gen + 1, cycles |-> 0, halted |-> FALSE]
        /\ UNCHANGED <<resetSeq, active, left>>
    BY <1>9 DEF Reset
  <2>4. cpu' \in CpuState /\ cpu'.gen = cpu.gen + 1
    BY <1>0, <2>3, ServerAssumption DEF CpuState
  <2>5. cpu'.gen + Count(task', Resetting) + left' <= Budget
    <3>1. Count(task', Resetting) = Count(task, Resetting) - 1 /\ Count(task, Resetting) \in Nat
      BY <2>1, <2>2
    <3>2. cpu.gen \in Nat /\ left \in Int
      BY <1>0 DEF CpuState, Accounts
    <3> QED  BY <2>3, <2>4, <3>1, <3>2, ServerAssumption DEF Accounts
  <2>6. resetSeq' + Count(task', Bumping) = cpu'.gen
    <3>1. Count(task', Bumping) = Count(task, Bumping) + 1 /\ Count(task, Bumping) \in Nat
      BY <2>1, <2>2
    <3> QED  BY <2>3, <2>4, <3>1 DEF Accounts
  <2>7. Count(task', Online) = Count(task, Online)
    BY <2>1, <2>2
  <2> QED  BY <2>1, <2>3, <2>4, <2>5, <2>6, <2>7 DEF Accounts, Count
<1>10. CASE BumpSequence(c)
  <2>1. /\ task' \in [Clients -> Places]
        /\ \A S : /\ Count(task, S) \in Nat /\ Count(task', S) \in Nat
                 /\ Count(task', S) = Count(task, S) + One("publish", S) - One("bump", S)
    BY <1>10, CountMoves DEF BumpSequence, Accounts, Places
  <2>2. /\ One("publish", Resetting) = 0 /\ One("bump", Resetting) = 0
        /\ One("publish", Bumping) = 0 /\ One("bump", Bumping) = 1
        /\ One("publish", Online) = 1 /\ One("bump", Online) = 1
    BY DEF One, Resetting, Bumping, Online, Places
  <2>3. resetSeq' = resetSeq + 1 /\ UNCHANGED <<cpu, active, left>>
    BY <1>10 DEF BumpSequence
  <2>4. Count(task', Resetting) = Count(task, Resetting)
    BY <2>1, <2>2
  <2>5. Count(task', Online) = Count(task, Online)
    BY <2>1, <2>2
  <2>6. resetSeq' \in Nat /\ resetSeq' + Count(task', Bumping) = cpu.gen
    <3>1. Count(task', Bumping) = Count(task, Bumping) - 1 /\ Count(task, Bumping) \in Nat
      BY <2>1, <2>2
    <3> QED  BY <2>3, <3>1 DEF Accounts
  <2> QED  BY <2>1, <2>3, <2>4, <2>5, <2>6 DEF Accounts, Count
<1>11. CASE Publish(c)
  <2>1. "publish" \in Others /\ "ready" \in Others
        /\ ("publish" \in Online <=> "ready" \in Online)
    BY OtherPlaces
  <2>2. Goes(c, "publish", "ready") /\ UNCHANGED <<cpu, resetSeq, active, left>>
    BY <1>11 DEF Publish
  <2> QED  BY <1>0, <2>1, <2>2, SteadyAccounts
<1>12. CASE DropGuard(c)
  <2>1. "leave" \in Others /\ "check" \in Others
    BY OtherPlaces
  <2>2. One("leave", Online) = 1 /\ One("check", Online) = 0
    BY OtherPlaces
  <2>3. Goes(c, "leave", "check") /\ UNCHANGED <<cpu, resetSeq, left>>
    BY <1>12 DEF DropGuard
  <2>4. active' = active + One("check", Online) - One("leave", Online)
    BY <1>0, <1>12, <2>2 DEF DropGuard
  <2>5. left' \in {left, left - 1} /\ left' >= 0
    BY <2>3 DEF Accounts
  <2> QED  BY <1>0, <2>1, <2>3, <2>4, <2>5, OtherAccounts
<1>13. CASE CheckLast(c)
  <2>1. {"off", "check", "pause"} \subseteq Others \ Online
    BY OtherPlaces
  <2>2. PICK to \in {"off", "pause"} : Goes(c, "check", to)
    BY <1>13 DEF CheckLast
  <2>3. UNCHANGED <<cpu, resetSeq, active, left>>
    BY <1>13 DEF CheckLast
  <2>4. to \in Others /\ "check" \in Others /\ (to \in Online <=> "check" \in Online)
    BY <2>1
  <2> QED  BY <1>0, <2>2, <2>3, <2>4, SteadyAccounts
<1>14. CASE PauseLast(c)
  <2>1. "pause" \in Others /\ "off" \in Others
        /\ ("pause" \in Online <=> "off" \in Online)
    BY OtherPlaces
  <2>2. Goes(c, "pause", "off") /\ UNCHANGED <<cpu, resetSeq, active, left>>
    BY <1>14 DEF PauseLast
  <2> QED  BY <1>0, <2>1, <2>2, SteadyAccounts
<1> QED  BY <1>1, <1>2, <1>3, <1>4, <1>5, <1>6, <1>7, <1>8, <1>9, <1>10, <1>11, <1>12,
            <1>13, <1>14 DEF ClientTask

LEMMA AccountsNext == Accounts /\ [Next]_vars => Accounts'
<1> SUFFICES ASSUME Accounts, [Next]_vars PROVE Accounts'
  OBVIOUS
<1>1. CASE RunLoop
  BY <1>1, LoopLeaves DEF Accounts, Count
<1>2. ASSUME NEW c \in Clients, ClientTask(c) \/ User(c) PROVE Accounts'
  BY <1>2, ClientTaskAccounts, UserAccounts
<1>3. CASE UNCHANGED vars
  BY <1>3 DEF Accounts, Count, vars
<1> QED  BY <1>1, <1>2, <1>3 DEF Next

LEMMA AccountsBalance == Spec => []Accounts
BY AccountsInit, AccountsNext, PTL DEF Spec

(* Resets begun, and resets announced, stay within the commands given.     *)
Bounds == cpu.gen \in 0 .. Budget /\ resetSeq \in 0 .. Budget /\ resetSeq <= cpu.gen

LEMMA AccountsBound == Accounts => Bounds
<1> SUFFICES ASSUME Accounts PROVE Bounds
  OBVIOUS
<1>1. Count(task, Resetting) \in Nat /\ Count(task, Bumping) \in Nat
  BY CountedIsNat
<1>2. cpu.gen \in Nat /\ resetSeq \in Nat /\ left \in Nat
  BY ServerAssumption DEF Accounts, CpuState
<1> QED  BY <1>1, <1>2, ServerAssumption DEF Accounts, Bounds

-----------------------------------------------------------------------------
(* The clock that comes too late.                                          *)
LateInv ==
  /\ late \in {0, 1}
  /\ late = 1 => ~running /\ loop \in {"top", "break", "send"}

LEMMA LateNext == LateInv /\ [Next]_vars => LateInv'
<1> SUFFICES ASSUME LateInv, [Next]_vars PROVE LateInv'
  OBVIOUS
<1>1. CASE RunLoop
  <2>1. CASE LoopTop
    BY <2>1 DEF LoopTop, LateInv, LoopGoes
  <2>2. CASE LoopPeek
    BY <2>2 DEF LoopPeek, LateInv, LoopGoes
  <2>3. CASE LoopLockClock
    BY <2>3 DEF LoopLockClock, LateInv, LoopGoes
  <2>4. CASE LoopLockCpu
    BY <2>4 DEF LoopLockCpu, LateInv, LoopGoes
  <2>5. CASE LoopClock
    BY <2>5 DEF LoopClock, LateInv, LoopGoes
  <2>6. CASE LoopAttach
    BY <2>6 DEF LoopAttach, LateInv, LoopGoes
  <2>7. CASE LoopError
    BY <2>7 DEF LoopError, LateInv, LoopGoes
  <2>8. CASE LoopWake
    BY <2>8 DEF LoopWake, LateInv, LoopGoes
  <2>9. CASE LoopSend
    BY <2>9 DEF LoopSend, LateInv, LoopGoes
  <2>10. CASE LoopBreak
    <3>1. loop' = "send" /\ loop = "break" /\ late' = late
      BY <2>10 DEF LoopBreak, LoopGoes
    <3>2. ~running => ~running'
      BY <2>10 DEF LoopBreak
    <3> QED  BY <3>1, <3>2 DEF LateInv
  <2> QED  BY <1>1, <2>1, <2>2, <2>3, <2>4, <2>5, <2>6, <2>7, <2>8, <2>9, <2>10 DEF RunLoop
<1>2. ASSUME NEW c \in Clients, NEW on \in BOOLEAN, RunOrPause(c, on) PROVE LateInv'
  BY <1>2 DEF RunOrPause, LoopIdle, LateInv
<1>3. ASSUME NEW c \in Clients, ResetCommand(c) \/ PauseLast(c) PROVE LateInv'
  BY <1>3 DEF ResetCommand, PauseLast, LoopIdle, LateInv
<1>4. ASSUME UNCHANGED <<running, loop, late>> PROVE LateInv'
  BY <1>4 DEF LateInv
<1>5. ASSUME NEW c \in Clients, ClientTask(c), ~ PauseLast(c)
      PROVE  UNCHANGED <<running, loop, late>>
  BY <1>5 DEF ClientTask, Hello, Receive, AnswerState, Inspect, Intervene, AtCpu,
              LockClock, LockCpu, Step, Reset, BumpSequence, Publish, DropGuard,
              CheckLast, LoopIdle
<1>6. ASSUME NEW c \in Clients,
             \/ Connect(c) \/ Ask(c) \/ StepCommand(c) \/ Close(c) \/ Configure(c)
             \/ \E on \in BOOLEAN : SetBreakpoints(c, on)
      PROVE  UNCHANGED <<running, loop, late>>
  BY <1>6 DEF Connect, Ask, StepCommand, Close, Configure, SetBreakpoints, OwnLock, LoopIdle
<1>7. CASE UNCHANGED vars
  BY <1>4, <1>7 DEF vars
<1> QED  BY <1>1, <1>2, <1>3, <1>4, <1>5, <1>6, <1>7 DEF Next, User

(* Theorem: however pauses, resets, breakpoints and departures fall into   *)
(* an iteration of run_loop(), the CPU is clocked at most once after       *)
(* running was cleared.                                                    *)
THEOREM LateOnce == Spec => []LateClockOnce
<1>1. Init => LateInv
  BY DEF Init, LateInv
<1>2. LateInv => LateClockOnce
  BY DEF LateInv, LateClockOnce
<1> QED  BY <1>1, <1>2, LateNext, PTL DEF Spec

-----------------------------------------------------------------------------
(* The snapshots on their way.  A reset's own has no cycle behind it until *)
(* it is published, so the number that BumpSequence adds makes nothing     *)
(* stale.                                                                  *)
Fresh == {s \in Snapshot : s.cycles > 0 => s.seq <= s.gen}
Blank == {s \in Snapshot : s.cycles <= 0}
Queues ==
  /\ queue \in [Clients -> Seq(Fresh)]
  /\ \A c \in Clients : Len(queue[c]) <= Capacity
Stored ==
  /\ loopSnap \in Fresh /\ snap \in [Clients -> Blank] /\ view \in [Clients -> Fresh]
  /\ Queues

LEMMA TakenIsFresh ==
  ASSUME Accounts, NEW c \in CpuState, c.gen = cpu.gen
  PROVE  Taken(c) \in Fresh
BY AccountsBound, ServerAssumption DEF Bounds, Taken, Fresh, Snapshot, CpuState

LEMMA EmptyIsFresh == NoSnapshot \in Fresh /\ NoSnapshot \in Blank
BY ServerAssumption DEF NoSnapshot, Fresh, Blank, Snapshot

LEMMA ShowKeeps ==
  ASSUME view \in [Clients -> Fresh], NEW c \in Clients, NEW s \in Fresh, Show(c, s)
  PROVE  view' \in [Clients -> Fresh]
BY DEF Show, Shown

LEMMA SendKeeps ==
  ASSUME NEW q \in Seq(Fresh), Len(q) <= Capacity, NEW s \in Fresh
  PROVE  LET r == IF Len(q) = Capacity THEN Append(Tail(q), s) ELSE Append(q, s)
         IN  r \in Seq(Fresh) /\ Len(r) <= Capacity
<1>1. CASE Len(q) = Capacity
  <2>1. q # <<>>
    BY <1>1, ServerAssumption
  <2>2. Tail(q) \in Seq(Fresh) /\ Len(Tail(q)) = Len(q) - 1
    BY <2>1
  <2>3. /\ Append(Tail(q), s) \in Seq(Fresh)
        /\ Len(Append(Tail(q), s)) = Len(Tail(q)) + 1
    BY <2>2
  <2> QED  BY <1>1, <2>2, <2>3, ServerAssumption
<1>2. CASE Len(q) # Capacity
  <2>1. Append(q, s) \in Seq(Fresh) /\ Len(Append(q, s)) = Len(q) + 1
    OBVIOUS
  <2>2. Len(q) \in Nat
    OBVIOUS
  <2> QED  BY <1>2, <2>1, <2>2, ServerAssumption
<1> QED  BY <1>1, <1>2

LEMMA BroadcastKeeps ==
  ASSUME Queues, NEW s \in Fresh, Broadcast(s)
  PROVE  Queues'
<1> DEFINE sent(q) == IF Len(q) = Capacity THEN Append(Tail(q), s) ELSE Append(q, s)
<1>1. queue' = [c \in Clients |-> IF task[c] = "off" THEN queue[c] ELSE sent(queue[c])]
  BY DEF Broadcast
<1>2. ASSUME NEW c \in Clients
      PROVE  sent(queue[c]) \in Seq(Fresh) /\ Len(sent(queue[c])) <= Capacity
  BY <1>2, SendKeeps DEF Queues
<1> HIDE DEF sent
<1> QED  BY <1>1, <1>2 DEF Queues

LEMMA LoopStored ==
  ASSUME Accounts, Stored, RunLoop
  PROVE  Stored'
<1>0. cpu \in CpuState
  BY DEF Accounts
<1>1. UNCHANGED <<snap, view>>
  BY LoopLeaves
<1>2. Clocked(1) \in CpuState /\ Clocked(1).gen = cpu.gen
  BY <1>0, ClockedKeeps
<1>3. Taken(cpu) \in Fresh /\ Taken(Clocked(1)) \in Fresh
  BY <1>0, <1>2, TakenIsFresh
<1>4. CASE UNCHANGED <<loopSnap, queue>>
  BY <1>1, <1>4 DEF Stored, Queues
<1>5. CASE LoopClock
  BY <1>1, <1>3, <1>5 DEF LoopClock, Stored, Queues, channel
<1>6. CASE LoopError
  <2>1. Queues'
    BY <1>3, <1>6, BroadcastKeeps DEF LoopError, Stored
  <2> QED  BY <1>1, <1>6, <2>1 DEF LoopError, Stored
<1>7. CASE LoopSend
  <2>1. Queues'
    BY <1>7, BroadcastKeeps DEF LoopSend, Stored
  <2> QED  BY <1>1, <1>7, <2>1 DEF LoopSend, Stored
<1>8. ~ LoopClock /\ ~ LoopError /\ ~ LoopSend => UNCHANGED <<loopSnap, queue>>
  BY DEF RunLoop, LoopTop, LoopPeek, LoopLockClock, LoopLockCpu, LoopAttach, LoopWake,
         LoopBreak, channel
<1> QED  BY <1>4, <1>5, <1>6, <1>7, <1>8

LEMMA UserStored ==
  ASSUME Stored, NEW c \in Clients, User(c)
  PROVE  Stored'
<1>1. CASE Connect(c)
  <2>1. Queues'
    <3>1. <<>> \in Seq(Fresh) /\ Len(<<>>) = 0
      OBVIOUS
    <3>2. queue' = [queue EXCEPT ![c] = <<>>]
      BY <1>1 DEF Connect
    <3> QED  BY <3>1, <3>2, ServerAssumption DEF Stored, Queues
  <2> QED  BY <1>1, <2>1, EmptyIsFresh DEF Connect, LoopIdle, Stored
<1>2. ~ Connect(c) => UNCHANGED <<loopSnap, snap, view, queue>>
  BY DEF User, Ask, StepCommand, ResetCommand, Close, Configure, RunOrPause,
         SetBreakpoints, OwnLock, LoopIdle, channel, frontend
<1> QED  BY <1>1, <1>2 DEF Stored, Queues

LEMMA ClientTaskStored ==
  ASSUME Accounts, Bounds', Stored, NEW c \in Clients, ClientTask(c)
  PROVE  Stored'
<1>0. cpu \in CpuState /\ Taken(cpu) \in Fresh /\ Blank \subseteq Fresh
  <2>1. cpu \in CpuState
    BY DEF Accounts
  <2>2. Taken(cpu) \in Fresh
    BY <2>1, TakenIsFresh
  <2>3. Blank \subseteq Fresh
    BY ServerAssumption DEF Fresh, Blank, Snapshot
  <2> QED  BY <2>1, <2>2, <2>3
<1>1. CASE Hello(c)
  <2>1. view' \in [Clients -> Fresh]
    BY <1>0, <1>1, ShowKeeps DEF Hello, Stored
  <2> QED  BY <1>1, <2>1 DEF Hello, LoopIdle, channel, Stored, Queues
<1>2. CASE Receive(c)
  <2>1. CASE lagged[c]
    BY <1>2, <2>1 DEF Receive, LoopIdle, Stored, Queues
  <2>2. CASE ~lagged[c]
    <3>1. /\ queue[c] \in Seq(Fresh) /\ Len(queue[c]) <= Capacity /\ queue[c] # <<>>
          /\ Show(c, Head(queue[c])) /\ queue' = [queue EXCEPT ![c] = Tail(@)]
          /\ UNCHANGED <<loopSnap, snap>>
      BY <1>2, <2>2 DEF Receive, LoopIdle, Stored, Queues
    <3>2. /\ Head(queue[c]) \in Fresh /\ Tail(queue[c]) \in Seq(Fresh)
          /\ Len(Tail(queue[c])) <= Capacity
      BY <3>1, ServerAssumption
    <3>3. view' \in [Clients -> Fresh]
      BY <3>1, <3>2, ShowKeeps DEF Stored
    <3>4. Queues'
      BY <3>1, <3>2 DEF Stored, Queues
    <3> QED  BY <3>1, <3>3, <3>4 DEF Stored
  <2> QED  BY <2>1, <2>2
<1>3. CASE AnswerState(c)
  <2>1. view' \in [Clients -> Fresh]
    BY <1>0, <1>3, ShowKeeps DEF AnswerState, Stored
  <2> QED  BY <1>3, <2>1 DEF AnswerState, AtCpu, LoopIdle, channel, Stored, Queues
<1>4. CASE Step(c)
  <2>1. PICK n \in Nat : Broadcast(Taken(Clocked(n)))
    BY <1>4, ServerAssumption DEF Step
  <2>2. Clocked(n) \in CpuState /\ Clocked(n).gen = cpu.gen
    BY <1>0, ClockedKeeps
  <2>3. Queues'
    BY <2>1, <2>2, TakenIsFresh, BroadcastKeeps DEF Stored
  <2> QED  BY <1>4, <2>3 DEF Step, LoopIdle, frontend, Stored
<1>5. CASE Reset(c)
  <2>1. [seq |-> 0, gen |-> cpu.gen + 1, cycles |-> 0] \in Blank
    <3>1. cpu.gen + 1 \in 0 .. Budget
      <4>1. cpu'.gen = cpu.gen + 1
        BY <1>5 DEF Reset
      <4>2. cpu'.gen \in 0 .. Budget
        BY DEF Bounds
      <4> QED  BY <4>1, <4>2
    <3> QED  BY <3>1, ServerAssumption DEF Blank, Snapshot
  <2> QED  BY <1>5, <2>1 DEF Reset, LoopIdle, channel, frontend, Stored, Queues
<1>6. CASE BumpSequence(c)
  <2>1. resetSeq + 1 \in 0 .. Budget
    <3>1. resetSeq' = resetSeq + 1
      BY <1>6 DEF BumpSequence
    <3>2. resetSeq' \in 0 .. Budget
      BY DEF Bounds
    <3> QED  BY <3>1, <3>2
  <2>2. snap[c] \in Blank
    BY DEF Stored
  <2>3. [snap[c] EXCEPT !.seq = resetSeq + 1] \in Blank
    BY <2>1, <2>2 DEF Blank, Snapshot
  <2>4. snap' = [snap EXCEPT ![c] = [snap[c] EXCEPT !.seq = resetSeq + 1]]
    BY <1>6 DEF BumpSequence, Stored
  <2>5. snap' \in [Clients -> Blank]
    BY <2>3, <2>4 DEF Stored
  <2> QED  BY <1>6, <2>5 DEF BumpSequence, LoopIdle, channel, frontend, Stored, Queues
<1>7. CASE Publish(c)
  <2>1. snap[c] \in Fresh
    BY <1>0 DEF Stored
  <2>2. Queues'
    BY <1>7, <2>1, BroadcastKeeps DEF Publish, Stored
  <2>3. view' \in [Clients -> Fresh]
    BY <1>7, <2>1, ShowKeeps DEF Publish, Stored
  <2> QED  BY <1>7, <2>2, <2>3 DEF Publish, LoopIdle, Stored
<1>8. \/ Hello(c) \/ Receive(c) \/ AnswerState(c) \/ Step(c) \/ Reset(c)
      \/ BumpSequence(c) \/ Publish(c) \/ UNCHANGED <<loopSnap, snap, view, queue>>
  BY DEF ClientTask, Inspect, Intervene, AtCpu, LockClock, LockCpu, DropGuard, CheckLast,
         PauseLast, LoopIdle, channel, frontend
<1>9. CASE UNCHANGED <<loopSnap, snap, view, queue>>
  BY <1>9 DEF Stored, Queues
<1> QED  BY <1>1, <1>2, <1>3, <1>4, <1>5, <1>6, <1>7, <1>8, <1>9

LEMMA StoredNext == Accounts /\ Bounds' /\ Stored /\ [Next]_vars => Stored'
<1> SUFFICES ASSUME Accounts, Bounds', Stored, [Next]_vars PROVE Stored'
  OBVIOUS
<1>1. CASE RunLoop
  BY <1>1, LoopStored
<1>2. ASSUME NEW c \in Clients, ClientTask(c) \/ User(c) PROVE Stored'
  BY <1>2, ClientTaskStored, UserStored
<1>3. CASE UNCHANGED vars
  BY <1>3 DEF Stored, Queues, vars
<1> QED  BY <1>1, <1>2, <1>3 DEF Next

LEMMA StoredInit == Init => Stored
<1> SUFFICES ASSUME Init PROVE Stored
  OBVIOUS
<1>1. <<>> \in Seq(Fresh) /\ Len(<<>>) = 0
  OBVIOUS
<1>2. Queues
  BY <1>1, ServerAssumption DEF Init, Queues
<1> QED  BY <1>2, EmptyIsFresh DEF Init, Stored

(* Theorem: whatever the order of resets, clocks and broadcasts, no        *)
(* snapshot that the loop, a client's task, a channel or a frontend holds  *)
(* shows cycles from before a reset under that reset's number              *)
(* (Command::Reset, run_loop(), useWebSocket.ts).                          *)
THEOREM SnapshotsFresh == Spec => []FreshSnapshots
<1>1. Stored => FreshSnapshots
  <2> SUFFICES ASSUME Stored, NEW s \in Snapshots, s.cycles > 0 PROVE s.seq <= s.gen
    BY DEF FreshSnapshots
  <2>1. CASE s = loopSnap
    BY <2>1 DEF Stored, Fresh
  <2>2. ASSUME NEW c \in Clients, s = snap[c] PROVE s.seq <= s.gen
    BY <2>2 DEF Stored, Blank, Snapshot
  <2>3. ASSUME NEW c \in Clients, s = view[c] PROVE s.seq <= s.gen
    BY <2>3 DEF Stored, Fresh
  <2>4. ASSUME NEW c \in Clients, NEW i \in 1 .. Len(queue[c]), s = queue[c][i]
        PROVE  s.seq <= s.gen
    <3>1. queue[c] \in Seq(Fresh)
      BY DEF Stored, Queues
    <3>2. queue[c][i] \in Fresh
      BY <3>1
    <3> QED  BY <2>4, <3>2 DEF Fresh
  <2> QED  BY <2>1, <2>2, <2>3, <2>4 DEF Snapshots
<1> QED  BY <1>1, AccountsInit, AccountsNext, AccountsBound, StoredInit, StoredNext, PTL DEF Spec

-----------------------------------------------------------------------------
(* The rest of the type invariant.                                         *)
Tasks == Clients \cup {Loop, Nobody}
Scalars ==
  /\ running \in BOOLEAN /\ breakpoints \in BOOLEAN /\ resumed \in BOOLEAN
  /\ clockLock \in Tasks /\ cpuLock \in Tasks
  /\ loop \in {"top", "peek", "clk", "cpu", "clock", "sleep", "break", "send"}
Flags ==
  /\ Scalars
  /\ lagged \in [Clients -> BOOLEAN] /\ deaf \in [Clients -> BOOLEAN]

LEMMA LoopFlags ==
  ASSUME Flags, RunLoop
  PROVE  Flags'
<1>1. lagged' \in [Clients -> BOOLEAN]
  <2>1. CASE lagged' = lagged
    BY <2>1 DEF Flags
  <2>2. ASSUME NEW s, Broadcast(s) PROVE lagged' \in [Clients -> BOOLEAN]
    BY <2>2 DEF Broadcast
  <2> QED  BY <2>1, <2>2 DEF RunLoop, LoopTop, LoopPeek, LoopLockClock, LoopLockCpu, LoopClock,
              LoopAttach, LoopError, LoopWake, LoopBreak, LoopSend, channel
<1>2. UNCHANGED <<deaf, breakpoints>>
  BY DEF RunLoop, LoopTop, LoopPeek, LoopLockClock, LoopLockCpu, LoopClock,
         LoopAttach, LoopError, LoopWake, LoopBreak, LoopSend, ClientsIdle, frontend
<1>3. Scalars'
  <2>1. CASE LoopTop
    BY <1>2, <2>1 DEF LoopTop, LoopGoes, Flags, Scalars, Tasks, locks
  <2>2. CASE LoopPeek
    BY <1>2, <2>2 DEF LoopPeek, LoopGoes, Flags, Scalars, Tasks, locks
  <2>3. CASE LoopLockClock
    BY <1>2, <2>3 DEF LoopLockClock, LoopGoes, Flags, Scalars, Tasks, locks
  <2>4. CASE LoopLockCpu
    BY <1>2, <2>4 DEF LoopLockCpu, LoopGoes, Flags, Scalars, Tasks, locks
  <2>5. CASE LoopClock
    BY <1>2, <2>5 DEF LoopClock, LoopGoes, Flags, Scalars, Tasks, locks
  <2>6. CASE LoopAttach
    BY <1>2, <2>6 DEF LoopAttach, LoopGoes, Flags, Scalars, Tasks, locks
  <2>7. CASE LoopError
    BY <1>2, <2>7 DEF LoopError, LoopGoes, Flags, Scalars, Tasks, locks
  <2>8. CASE LoopWake
    BY <1>2, <2>8 DEF LoopWake, LoopGoes, Flags, Scalars, Tasks, locks
  <2>9. CASE LoopBreak
    BY <1>2, <2>9 DEF LoopBreak, LoopGoes, Flags, Scalars, Tasks, locks
  <2>10. CASE LoopSend
    BY <1>2, <2>10 DEF LoopSend, LoopGoes, Flags, Scalars, Tasks, locks
  <2> QED  BY <2>1, <2>2, <2>3, <2>4, <2>5, <2>6, <2>7, <2>8, <2>9, <2>10 DEF RunLoop
<1> QED  BY <1>1, <1>2, <1>3 DEF Flags

LEMMA UserFlags ==
  ASSUME Flags, NEW c \in Clients, User(c)
  PROVE  Flags'
<1>1. UNCHANGED <<clockLock, cpuLock, loop>>
  BY DEF User, Connect, Ask, StepCommand, ResetCommand, Close, Configure, RunOrPause,
         SetBreakpoints, OwnLock, LoopIdle, locks
<1>2. running' \in {running, FALSE, TRUE} /\ breakpoints' \in {breakpoints, FALSE, TRUE}
  BY DEF User, Connect, Ask, StepCommand, ResetCommand, Close, Configure, RunOrPause,
         SetBreakpoints, OwnLock, LoopIdle
<1>3. resumed' \in BOOLEAN
  BY DEF User, Connect, Ask, StepCommand, ResetCommand, Close, Configure, RunOrPause,
         SetBreakpoints, OwnLock, Flags, Scalars
<1>4. lagged' \in {lagged, [lagged EXCEPT ![c] = FALSE]}
  BY DEF User, Connect, Ask, StepCommand, ResetCommand, Close, Configure, RunOrPause,
         SetBreakpoints, OwnLock, channel
<1>5. deaf' \in {deaf, [deaf EXCEPT ![c] = FALSE]}
  BY DEF User, Connect, Ask, StepCommand, ResetCommand, Close, Configure, RunOrPause,
         SetBreakpoints, OwnLock, Command, frontend
<1>6. lagged' \in [Clients -> BOOLEAN] /\ deaf' \in [Clients -> BOOLEAN]
  BY <1>4, <1>5 DEF Flags
<1>7. running' \in BOOLEAN /\ breakpoints' \in BOOLEAN
  BY <1>2 DEF Flags, Scalars
<1>8. Scalars'
  BY <1>1, <1>3, <1>7 DEF Flags, Scalars
<1> QED  BY <1>6, <1>8 DEF Flags

LEMMA ClientTaskFlags ==
  ASSUME Flags, NEW c \in Clients, ClientTask(c)
  PROVE  Flags'
<1>1. UNCHANGED <<loop, breakpoints>>
  BY DEF ClientTask, Hello, Receive, AnswerState, Inspect, Intervene, AtCpu, LockClock,
         LockCpu, Step, Reset, BumpSequence, Publish, DropGuard, CheckLast, PauseLast,
         LoopIdle
<1>2. /\ clockLock' \in {clockLock, c, Nobody} /\ cpuLock' \in {cpuLock, c, Nobody}
      /\ running' \in {running, FALSE}
  BY DEF ClientTask, Hello, Receive, AnswerState, Inspect, Intervene, AtCpu, LockClock,
         LockCpu, Step, Reset, BumpSequence, Publish, DropGuard, CheckLast, PauseLast,
         locks
<1>3. resumed' \in {resumed, TRUE, running}
  BY DEF ClientTask, Hello, Receive, AnswerState, Inspect, Intervene, AtCpu, LockClock,
         LockCpu, Step, Reset, BumpSequence, Publish, DropGuard, CheckLast, PauseLast
<1>4. deaf' \in {deaf, [deaf EXCEPT ![c] = TRUE]}
  BY DEF ClientTask, Hello, Receive, AnswerState, Inspect, Intervene, AtCpu, LockClock,
         LockCpu, Step, Reset, BumpSequence, Publish, DropGuard, CheckLast, PauseLast,
         frontend
<1>5. lagged' \in [Clients -> BOOLEAN]
  <2>1. CASE lagged' \in {lagged, [lagged EXCEPT ![c] = FALSE]}
    BY <2>1 DEF Flags
  <2>2. ASSUME NEW s, Broadcast(s) PROVE lagged' \in [Clients -> BOOLEAN]
    BY <2>2 DEF Broadcast
  <2> QED  BY <2>1, <2>2 DEF ClientTask, Hello, Receive, AnswerState, Inspect, Intervene,
              AtCpu, LockClock, LockCpu, Step, Reset, BumpSequence, Publish, DropGuard,
              CheckLast, PauseLast, channel
<1>6. deaf' \in [Clients -> BOOLEAN]
  BY <1>4 DEF Flags
<1>7. running' \in BOOLEAN /\ resumed' \in BOOLEAN
  BY <1>2, <1>3 DEF Flags, Scalars
<1>8. Scalars'
  BY <1>1, <1>2, <1>7 DEF Flags, Scalars, Tasks
<1> QED  BY <1>5, <1>6, <1>8 DEF Flags

LEMMA FlagsNext == Flags /\ [Next]_vars => Flags'
<1> SUFFICES ASSUME Flags, [Next]_vars PROVE Flags'
  OBVIOUS
<1>1. CASE RunLoop
  BY <1>1, LoopFlags
<1>2. ASSUME NEW c \in Clients, ClientTask(c) \/ User(c) PROVE Flags'
  BY <1>2, ClientTaskFlags, UserFlags
<1>3. CASE UNCHANGED vars
  BY <1>3 DEF Flags, Scalars, vars
<1> QED  BY <1>1, <1>2, <1>3 DEF Next

LEMMA TypeFromParts == Accounts /\ Bounds /\ Stored /\ LateInv /\ Flags => TypeOK
<1> SUFFICES ASSUME Accounts, Bounds, Stored, LateInv, Flags PROVE TypeOK
  OBVIOUS
<1>1. active = Cardinality({c \in Clients : task[c] \notin {"off", "check", "pause"}})
  <2>1. \A c \in Clients :
          task[c] \in Online <=> task[c] \notin {"off", "check", "pause"}
    BY DEF Accounts, Online
  <2>2. {c \in Clients : task[c] \in Online}
          = {c \in Clients : task[c] \notin {"off", "check", "pause"}}
    BY <2>1
  <2> QED  BY <2>2 DEF Accounts, Count
<1>2. queue \in [Clients -> Seq(Snapshot)]
  <2>1. ASSUME NEW q \in Seq(Fresh) PROVE q \in Seq(Snapshot)
    <3>1. Fresh \subseteq Snapshot
      BY DEF Fresh
    <3> QED  BY <2>1, <3>1
  <2> QED  BY <2>1 DEF Stored, Queues
<1>3. cpu \in [gen : 0 .. Budget, cycles : 0 .. MaxCycles, halted : BOOLEAN]
  BY DEF Accounts, Bounds, CpuState
<1>4. loopSnap \in Snapshot /\ snap \in [Clients -> Snapshot]
      /\ view \in [Clients -> Snapshot]
  BY DEF Stored, Fresh, Blank
<1>5. running \in BOOLEAN /\ breakpoints \in BOOLEAN /\ resumed \in BOOLEAN
  BY DEF Flags, Scalars
<1>6. /\ clockLock \in Clients \cup {Loop, Nobody} /\ cpuLock \in Clients \cup {Loop, Nobody}
      /\ loop \in {"top", "peek", "clk", "cpu", "clock", "sleep", "break", "send"}
      /\ lagged \in [Clients -> BOOLEAN] /\ deaf \in [Clients -> BOOLEAN]
  BY DEF Flags, Scalars, Tasks
<1>7. late \in Nat /\ left \in 0 .. Budget /\ resetSeq \in 0 .. Budget
  BY DEF LateInv, Accounts, Bounds
<1>8. task \in [Clients -> Places] /\ \A c \in Clients : Len(queue[c]) <= Capacity
  BY DEF Accounts, Stored, Queues
<1> QED  BY <1>1, <1>2, <1>3, <1>4, <1>5, <1>6, <1>7, <1>8 DEF TypeOK, Places

(* Theorem: the type invariant.  It says of the code that active_clients   *)
(* is the number of clients whose guard lives, that no receiver holds more *)
(* than the channel's capacity, and that the resets and their sequence     *)
(* numbers never outnumber the reset commands.                             *)
THEOREM ServerTypeCorrect == Spec => []TypeOK
<1>1. Init => LateInv
  BY DEF Init, LateInv
<1>2. Init => Flags
  BY DEF Init, Flags, Scalars, Tasks
<1> QED  BY <1>1, <1>2, AccountsInit, AccountsNext, AccountsBound, StoredInit, StoredNext,
            LateNext, FlagsNext, TypeFromParts, PTL DEF Spec

-----------------------------------------------------------------------------
(* The locks.  What a task is doing says which of them it holds.           *)
WithClock == {"stepCpu", "step", "resetCpu", "reset"}
WithCpu   == {"step", "reset"}
LockInv ==
  /\ clockLock = Loop <=> loop \in {"cpu", "clock", "sleep"}
  /\ cpuLock = Loop <=> loop = "clock"
  /\ \A c \in Clients : /\ clockLock = c <=> task[c] \in WithClock
                        /\ cpuLock = c <=> task[c] \in WithCpu

LEMMA LoopLocks ==
  ASSUME LockInv, RunLoop
  PROVE  LockInv'
<1>1. task' = task
  BY DEF RunLoop, LoopTop, LoopPeek, LoopLockClock, LoopLockCpu, LoopClock,
         LoopAttach, LoopError, LoopWake, LoopBreak, LoopSend, ClientsIdle
<1>2. Loop # Nobody /\ \A c \in Clients : c # Loop /\ c # Nobody
  BY ServerAssumption
<1>3. CASE LoopTop
  BY <1>1, <1>2, <1>3 DEF LoopTop, LoopGoes, LockInv, locks
<1>4. CASE LoopPeek
  BY <1>1, <1>2, <1>4 DEF LoopPeek, LoopGoes, LockInv, locks
<1>5. CASE LoopLockClock
  BY <1>1, <1>2, <1>5 DEF LoopLockClock, LoopGoes, LockInv, locks
<1>6. CASE LoopLockCpu
  BY <1>1, <1>2, <1>6 DEF LoopLockCpu, LoopGoes, LockInv, locks
<1>7. CASE LoopClock
  BY <1>1, <1>2, <1>7 DEF LoopClock, LoopGoes, LockInv, locks
<1>8. CASE LoopAttach
  BY <1>1, <1>2, <1>8 DEF LoopAttach, LoopGoes, LockInv, locks
<1>9. CASE LoopError
  BY <1>1, <1>2, <1>9 DEF LoopError, LoopGoes, LockInv, locks
<1>10. CASE LoopWake
  BY <1>1, <1>2, <1>10 DEF LoopWake, LoopGoes, LockInv, locks
<1>11. CASE LoopBreak
  BY <1>1, <1>2, <1>11 DEF LoopBreak, LoopGoes, LockInv, locks
<1>12. CASE LoopSend
  BY <1>1, <1>2, <1>12 DEF LoopSend, LoopGoes, LockInv, locks
<1> QED  BY <1>3, <1>4, <1>5, <1>6, <1>7, <1>8, <1>9, <1>10, <1>11, <1>12 DEF RunLoop

(* A step of a client that takes no lock and leaves none.                  *)
LEMMA FreeLocks ==
  ASSUME LockInv, task \in [Clients -> Places], NEW c \in Clients,
         NEW from \in Places, NEW to \in Places, Goes(c, from, to),
         UNCHANGED <<loop, clockLock, cpuLock>>,
         from \notin WithClock, to \notin WithClock
  PROVE  LockInv'
BY DEF LockInv, Goes, WithClock, WithCpu

LEMMA ClientLocks ==
  ASSUME LockInv, task \in [Clients -> Places], NEW c \in Clients, ClientTask(c) \/ User(c)
  PROVE  LockInv'
<1>1. Loop # Nobody /\ \A d \in Clients : d # Loop /\ d # Nobody
  BY ServerAssumption
<1>2. CASE LockClock(c)
  BY <1>1, <1>2 DEF LockClock, LoopIdle, Goes, LockInv, WithClock, WithCpu
<1>3. CASE LockCpu(c)
  BY <1>1, <1>3 DEF LockCpu, LoopIdle, Goes, LockInv, WithClock, WithCpu
<1>4. CASE Step(c)
  BY <1>1, <1>4 DEF Step, LoopIdle, Goes, LockInv, WithClock, WithCpu
<1>5. CASE Reset(c)
  BY <1>1, <1>5 DEF Reset, LoopIdle, Goes, LockInv, WithClock, WithCpu
<1>6. CASE UNCHANGED <<loop, clockLock, cpuLock, task>>
  BY <1>6 DEF LockInv
<1>7. ASSUME ~ LockClock(c), ~ LockCpu(c), ~ Step(c), ~ Reset(c)
      PROVE  /\ UNCHANGED <<loop, clockLock, cpuLock>>
             /\ \/ UNCHANGED task
                \/ \E from, to \in Places \ WithClock : Goes(c, from, to)
  <2> DEFINE Free == Places \ WithClock
  <2>1. {"off", "hello", "ready", "ask", "stepClk", "resetClk", "bump", "publish", "leave",
         "check", "pause"} \subseteq Free
    BY DEF Places, WithClock
  <2> HIDE DEF Free
  <2>2. UNCHANGED <<loop, clockLock, cpuLock>>
    BY <1>7 DEF ClientTask, User, Hello, Receive, AnswerState, Inspect, Intervene, AtCpu,
       BumpSequence, Publish, DropGuard, CheckLast, PauseLast, Connect, Ask, StepCommand,
       ResetCommand, Close, Configure, RunOrPause, SetBreakpoints, OwnLock, LoopIdle, locks
  <2>3. \/ UNCHANGED task
        \/ Goes(c, "hello", "ready") \/ Goes(c, "hello", "off") \/ Goes(c, "ask", "ready")
        \/ Goes(c, "bump", "publish") \/ Goes(c, "publish", "ready")
        \/ Goes(c, "leave", "check") \/ Goes(c, "check", "pause")
        \/ Goes(c, "check", "off") \/ Goes(c, "pause", "off") \/ Goes(c, "off", "hello")
        \/ Goes(c, "ready", "ask") \/ Goes(c, "ready", "stepClk")
        \/ Goes(c, "ready", "resetClk") \/ Goes(c, "ready", "leave")
    BY <1>7 DEF ClientTask, User, Hello, Receive, AnswerState, Inspect, Intervene, AtCpu,
       BumpSequence, Publish, DropGuard, CheckLast, PauseLast, Connect, Ask, StepCommand,
       ResetCommand, Close, Configure, RunOrPause, SetBreakpoints, OwnLock
  <2>4. UNCHANGED task \/ \E from, to \in Free : Goes(c, from, to)
    BY <2>1, <2>3
  <2> QED  BY <2>2, <2>4 DEF Free
<1>8. ASSUME NEW from \in Places \ WithClock, NEW to \in Places \ WithClock,
             Goes(c, from, to), UNCHANGED <<loop, clockLock, cpuLock>>
      PROVE  LockInv'
  BY <1>8, FreeLocks
<1> QED  BY <1>2, <1>3, <1>4, <1>5, <1>6, <1>7, <1>8

(* Only one task at a time clocks or resets the CPU: the run loop or a     *)
(* client.                                                                 *)
OneAtTheCpu ==
  \A c \in Clients : task[c] \in WithCpu =>
    loop # "clock" /\ \A d \in Clients \ {c} : task[d] \notin WithCpu

(* Who holds the CPU's lock waits for nothing; who holds the clock lock    *)
(* waits for the CPU's lock at most, or sleeps.                            *)
HoldersGoOn ==
  /\ \/ cpuLock = Nobody
     \/ cpuLock = Loop /\ loop = "clock"
     \/ cpuLock \in Clients /\ task[cpuLock] \in {"step", "reset"}
  /\ \/ clockLock = Nobody
     \/ clockLock = Loop /\ loop \in {"cpu", "clock", "sleep"}
     \/ clockLock \in Clients /\ task[clockLock] \in {"stepCpu", "step", "resetCpu", "reset"}

(* Theorem: clock_lock and the CPU's lock are awaited in one order by the  *)
(* run loop, the step commands and the reset, so that no circle of waiting *)
(* tasks can form, and no two of them are at the CPU together.             *)
THEOREM LocksAreOrdered == Spec => [](OneAtTheCpu /\ HoldersGoOn)
<1>1. Init => LockInv
  BY ServerAssumption DEF Init, LockInv, WithClock, WithCpu
<1>2. ASSUME LockInv, Accounts, [Next]_vars PROVE LockInv'
  <2>1. CASE RunLoop
    BY <1>2, <2>1, LoopLocks
  <2>2. ASSUME NEW c \in Clients, ClientTask(c) \/ User(c) PROVE LockInv'
    BY <1>2, <2>2, ClientLocks DEF Accounts
  <2>3. CASE UNCHANGED vars
    BY <1>2, <2>3 DEF LockInv, vars
  <2> QED  BY <1>2, <2>1, <2>2, <2>3 DEF Next
<1>3. LockInv => OneAtTheCpu
  BY ServerAssumption DEF LockInv, OneAtTheCpu
<1>4. LockInv /\ Flags => HoldersGoOn
  BY DEF LockInv, HoldersGoOn, Flags, Scalars, Tasks, WithClock, WithCpu
<1>5. Init => Flags
  BY DEF Init, Flags, Scalars, Tasks
<1> QED  BY <1>1, <1>2, <1>3, <1>4, <1>5, AccountsInit, AccountsNext, FlagsNext, PTL DEF Spec
=============================================================================
