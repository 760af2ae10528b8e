------------------------------ MODULE Devices -------------------------------
(***************************************************************************)
(* One device of the machine, its user, and the host.  The user is the     *)
(* guest's software, which stores to registers of an accelerator or of the *)
(* doorbell or decodes as it likes, or a driver of the disk or of the      *)
(* keyboard; the host presses keys.  A store runs the device to the end    *)
(* (try_execute_pending() in src/src/memory/bus.rs), so that a step is a   *)
(* store.  The disk interrupts its driver through the controller of module *)
(* Plic, whose other sources interrupt it too.                             *)
(***************************************************************************)
EXTENDS Engines, VirtioBlock, InputDevice, Decoder, Plic

CONSTANTS
  Length,      \* bound on the lists of commands
  Submissions, \* bound on the stores that ring the doorbell
  PriorityOf   \* what the driver of the disk gives each source

ASSUME DevicesAssumption ==
  /\ Length \in Nat /\ Submissions \in 0 .. CounterMod - 1
  /\ PriorityOf \in [Sources -> Priorities \ {0}]

(* What the driver relies on: no other source goes before the disk.        *)
DiskFirst == \A s \in Sources : PriorityOf[s] <= PriorityOf[VirtioSource]

VARIABLES
  user,            \* the device that is used
  engine, door,    \* an accelerator and the doorbell
  failed,          \* whether the last store reported an error
  disk, queue,     \* the disk, and its rings in RAM
  plic,            \* the interrupt controller
  input,           \* the keyboard
  decoder,         \* the decode registers of the LPU
  driver           \* where the driver is, and what it has seen
vars == <<user, engine, door, failed, disk, queue, plic, input, decoder, driver>>

Driver ==
  [ready : BOOLEAN, handler : {"out", "claim", "ack", "look", "complete"},
   claimed : Sources \cup {NoSource}, owed : 0 .. QueueNum, seen : Indices, keys : SUBSET Keys]

TypeOK ==
  /\ user \in EngineIds \cup {"disk", "keys", "decoder"}
  /\ engine \in EngineState /\ door \in DoorState /\ failed \in BOOLEAN
  /\ disk \in DiskState /\ queue \in QueueState /\ plic \in PlicState
  /\ input \in InputState /\ decoder \in DecoderState
  /\ driver \in Driver

Init ==
  /\ user \in EngineIds \cup {"disk", "keys", "decoder"}
  /\ engine = NewEngine /\ door = NewDoor /\ failed = FALSE
  /\ disk = NewDisk /\ queue = NewQueue /\ plic = NewPlic
  /\ input = NewInput /\ decoder = NewDecoder
  /\ driver = [ready |-> FALSE, handler |-> "out", claimed |-> NoSource,
               owed |-> 0, seen |-> 0, keys |-> {}]

-----------------------------------------------------------------------------
(* Accelerators.                                                           *)
Lists == UNION {[1 .. n -> Kinds(user)] : n \in 0 .. Length}
Commands == Kinds(user) \ {"unreadable", "vector"}
Bits == {"DONE", "ERROR", "IRQ"}

OfEngine == /\ user \in EngineIds
            /\ UNCHANGED <<user, disk, queue, plic, input, decoder, driver>>

NotifyEngine(list) ==
  /\ OfEngine
  /\ LET r == Ring(user, engine, list) IN engine' = r.engine /\ failed' = ~r.ok
  /\ UNCHANGED door

Doorbell(valid, list) ==
  /\ OfEngine /\ door.submits < Submissions
  /\ LET r == Submit(door, valid, user, engine, list)
     IN  engine' = r.engine /\ door' = r.door /\ failed' = ~r.ok

EngineControl(irqEn, reset, start, kind) ==
  /\ OfEngine
  /\ engine' = StoreControl(user, engine, irqEn, reset, start, kind)
  /\ failed' = FALSE /\ UNCHANGED door

EngineStatus(bits, word) ==
  /\ OfEngine
  /\ engine' = StoreStatus(engine, bits, word)
  /\ failed' = FALSE /\ UNCHANGED door

DoorbellStatus(bits, word) ==
  /\ OfEngine
  /\ door' = StoreDoorStatus(door, bits, word)
  /\ failed' = FALSE /\ UNCHANGED engine

(* The custom-0 instruction starts the NPU or the LPU as if nobody else    *)
(* used it.                                                                *)
Custom0 ==
  /\ user \in {"npu", "lpu"}
  /\ EngineControl(FALSE, FALSE, TRUE, "good")

-----------------------------------------------------------------------------
(* The disk.  Its driver, in supervisor mode, makes requests available and *)
(* notifies the disk for each of them, not always at once.  Its interrupt  *)
(* handler, which nothing interrupts, loads the claim register,            *)
(* acknowledges what the disk raised, looks at what is used, and stores to *)
(* the claim register.                                                     *)
OfDisk == /\ user = "disk"
          /\ UNCHANGED <<user, engine, door, failed, input, decoder>>

Waiting == {queue.avail[Slot(driver.seen + i)] :
              i \in 0 .. ((queue.availIdx - driver.seen) % IndexMod) - 1}
UsedIndex == IF disk.place = "registers" THEN disk.usedIdx ELSE queue.usedIdx

SetUpPlic(p) == [p EXCEPT !.priority = PriorityOf, !.enable["supervisor"] = Sources]

SetUpDisk(place) ==
  /\ OfDisk /\ ~driver.ready
  /\ disk' = [disk EXCEPT !.place = place]
  /\ plic' = SetUpPlic(plic)
  /\ driver' = [driver EXCEPT !.ready = TRUE]
  /\ UNCHANGED queue

Publish(h, request) ==
  /\ OfDisk /\ driver.ready /\ driver.handler = "out" /\ driver.owed < QueueNum
  /\ h \notin Waiting /\ (disk.place = "registers" => Waiting = {})
  /\ queue' = [queue EXCEPT !.avail[Slot(queue.availIdx)] = h, !.availIdx = After(@),
                            !.request[h] = request, !.answer[h] = "none"]
  /\ disk' = IF disk.place = "registers"
             THEN [disk EXCEPT !.head = h, !.availIdx = queue'.availIdx] ELSE disk
  /\ driver' = [driver EXCEPT !.owed = @ + 1]
  /\ UNCHANGED plic

Notified ==
  LET r == Notify(disk, queue, queue.request[disk.head])
  IN  disk' = r[1] /\ queue' = r[2]

NotifyDisk ==
  /\ OfDisk /\ driver.handler = "out" /\ driver.owed > 0
  /\ Notified
  /\ driver' = [driver EXCEPT !.owed = @ - 1]
  /\ UNCHANGED plic

(* A notification, or a command, of somebody else.                         *)
StrayStore ==
  /\ OfDisk /\ driver.handler = "out" /\ (disk.place = "registers" => Waiting = {})
  /\ \/ Notified
     \/ disk' \in {Command(disk, request) : request \in {"good", "wrong"}} /\ queue' = queue
  /\ UNCHANGED <<plic, driver>>

(* The beginning of clock(), in which the sources in raised have their     *)
(* lines up and interrupts are on or off: the disk's line is latched and   *)
(* lowered, and the handler entered if anything is pending.                *)
Clock(on, raised) ==
  /\ OfDisk
  /\ plic' = SetPending(plic, raised \cup (IF disk.irq THEN {VirtioSource} ELSE {}))
  /\ disk' = Ack(disk)
  /\ driver' = IF on /\ driver.handler = "out"
                   /\ BestPendingSource(plic', "supervisor") # NoSource
                THEN [driver EXCEPT !.handler = "claim"] ELSE driver
  /\ UNCHANGED queue
InterruptsOn == \E raised \in SUBSET (Sources \ {VirtioSource}) : Clock(TRUE, raised)

(* A load of the claim register tells the best source and claims nothing.  *)
ClaimInterrupt ==
  /\ OfDisk /\ driver.handler = "claim"
  /\ LET s == BestPendingSource(plic, "supervisor")
     IN  driver' = [driver EXCEPT !.claimed = s,
                      !.handler = IF s = VirtioSource THEN "ack" ELSE "complete"]
  /\ UNCHANGED <<disk, queue, plic>>

AckDisk ==
  /\ OfDisk /\ driver.handler = "ack"
  /\ disk' = Ack(disk)
  /\ driver' = [driver EXCEPT !.handler = "look"]
  /\ UNCHANGED <<queue, plic>>

TakeUsed ==
  /\ OfDisk /\ driver.handler = "look" /\ UsedIndex # driver.seen
  /\ driver' = [driver EXCEPT !.seen = After(@)]
  /\ UNCHANGED <<disk, queue, plic>>

(* The driver of the registers tries what failed again.                    *)
LastLook ==
  /\ OfDisk /\ driver.handler = "look" /\ UsedIndex = driver.seen
  /\ LET retry == disk.place = "registers" /\ Waiting # {} /\ driver.owed = 0
     IN  /\ driver' = [driver EXCEPT !.handler = "complete", !.owed = IF retry THEN 1 ELSE @]
         /\ queue' = IF retry THEN [queue EXCEPT !.request[disk.head] = "good"] ELSE queue
  /\ UNCHANGED <<disk, plic>>

(* Whatever else is pending may be completed, too; the handler returns.    *)
CompleteInterrupt ==
  /\ OfDisk /\ driver.handler = "complete"
  /\ plic' = StoreClaim(plic, "supervisor", driver.claimed)
  /\ driver' = [driver EXCEPT !.handler = "out", !.claimed = NoSource]
  /\ UNCHANGED <<disk, queue>>

DiskHandler == ClaimInterrupt \/ AckDisk \/ TakeUsed \/ LastLook \/ CompleteInterrupt

-----------------------------------------------------------------------------
(* The keyboard.  Its driver enables the interrupt and looks at the keys,  *)
(* then looks again whenever it has acknowledged an interrupt.             *)
OfKeys == /\ user = "keys"
          /\ UNCHANGED <<user, engine, door, failed, disk, queue, plic, decoder>>

PressOrRelease(key, pressed) ==
  OfKeys /\ input' = SetKey(input, key, pressed) /\ UNCHANGED driver
ReleaseAll == OfKeys /\ input' = ClearKeys(input) /\ UNCHANGED driver

EnableKeys ==
  /\ OfKeys /\ ~driver.ready
  /\ input' = StoreInputControl(input, TRUE)
  /\ driver' = [driver EXCEPT !.ready = TRUE, !.handler = "look"]
AckKeys ==
  /\ OfKeys /\ driver.handler = "out" /\ input.irq
  /\ input' = StoreInputStatus(input)
  /\ driver' = [driver EXCEPT !.handler = "look"]
LookAtKeys ==
  /\ OfKeys /\ driver.handler = "look"
  /\ driver' = [driver EXCEPT !.handler = "out", !.keys = input.keys]
  /\ UNCHANGED input

-----------------------------------------------------------------------------
(* The decoder.                                                            *)
OfDecoder == /\ user = "decoder"
             /\ UNCHANGED <<user, engine, door, failed, disk, queue, plic, input, driver>>

StoreDecodeRegister(word) ==
  /\ OfDecoder
  /\ decoder' \in {StoreTopK(decoder, word), StoreTemperature(decoder, word),
                   StoreTopP(decoder, word)}

Decode(how, scores) ==
  /\ OfDecoder
  /\ \E token \in Kept(how, decoder, scores) :
       decoder' = [decoder EXCEPT !.result = token]

Next ==
  \/ \E list \in Lists : NotifyEngine(list)
  \/ \E valid \in BOOLEAN, list \in Lists : Doorbell(valid, list)
  \/ \E irqEn, reset \in BOOLEAN :
       \/ EngineControl(irqEn, reset, FALSE, "good")
       \/ \E kind \in Commands : EngineControl(irqEn, reset, TRUE, kind)
  \/ EngineStatus({}, TRUE) \/ DoorbellStatus({}, TRUE)
  \/ \E bits \in SUBSET Bits : EngineStatus(bits, FALSE) \/ DoorbellStatus(bits, FALSE)
  \/ Custom0
  \/ \E place \in Places \ {"none"} : SetUpDisk(place)
  \/ \E h \in Heads, request \in Requests : Publish(h, request)
  \/ \E on \in BOOLEAN, raised \in SUBSET (Sources \ {VirtioSource}) : Clock(on, raised)
  \/ StrayStore
  \/ NotifyDisk \/ DiskHandler
  \/ \E key \in Keys, pressed \in BOOLEAN : PressOrRelease(key, pressed)
  \/ ReleaseAll \/ EnableKeys \/ AckKeys \/ LookAtKeys
  \/ \E word \in Words : StoreDecodeRegister(word)
  \/ \E how \in Hows, scores \in ScoreLists : Decode(how, scores)

(* The driver of the disk notifies what it has published, once interrupts  *)
(* leave it the time; the hart is clocked with interrupts on again and     *)
(* again; the handler runs to its end.                                     *)
Spec == Init /\ [][Next]_vars
             /\ SF_vars(NotifyDisk) /\ WF_vars(InterruptsOn) /\ WF_vars(DiskHandler)

-----------------------------------------------------------------------------
(* Properties.                                                             *)

(* An accelerator or the doorbell is only left BUSY by a store that        *)
(* reports an error: whoever polls for DONE after a store that succeeded   *)
(* is not left waiting (process_pending_descriptor_notify(),               *)
(* submit_acc_doorbell()).                                                 *)
BusyReportsError ==
  [][/\ "BUSY" \in engine'.status \ engine.status => failed'
     /\ "BUSY" \in door'.status \ door.status => failed']_vars

(* While the ERROR bit of a GPU or a TPU is set, its error code says what  *)
(* went wrong, whatever was run, cleared and reset before                  *)
(* (execute_once_with_memory(), write_reg()).                              *)
ErrorExplained == "ERROR" \in engine.status => engine.code \in {1, 2}

(* A doorbell that succeeds accounts for each descriptor of the list once, *)
(* as completed or as an error, however the counters of the engine stood   *)
(* and wrapped (submit_acc_doorbell()).  The NPU counts some twice, and    *)
(* not all of others, and is left out.                                     *)
RingAccountsForList ==
  [][user # "npu" /\ door'.submits # door.submits /\ ~failed' =>
       \A list \in Lists : Doorbell(TRUE, list) =>
         (door'.completes - door.completes + door'.errors - door.errors) % CounterMod
           = Len(list) % CounterMod]_vars

(* Once an accelerator interrupts it does so until its STATUS is stored to *)
(* or it is reset: no task run later takes the interrupt back.             *)
IrqHeldUntilCleared ==
  [][ "IRQ" \in engine.status \ engine'.status =>
        \/ \E bits \in SUBSET Bits, word \in BOOLEAN : EngineStatus(bits, word)
        \/ user \in Tensor /\ \E irqEn, start \in BOOLEAN, kind \in Commands :
             EngineControl(irqEn, TRUE, start, kind)]_vars

Served == (disk.usedIdx - driver.seen) % IndexMod
RingOf == IF disk.place = "registers" THEN disk.ring ELSE queue.used

(* The disk serves the requests in the order they were made available,     *)
(* each once and none that is not, and answers those that can be answered  *)
(* (execute_descriptor_queue(), execute_queue_notify()).                   *)
UsedFollowsAvail ==
  disk.place \in {"ram", "registers"} =>
    /\ Served <= (queue.availIdx - driver.seen) % IndexMod
    /\ \A i \in 0 .. Served - 1 :
         LET slot == Slot(driver.seen + i)
             h == queue.avail[slot]
         IN  /\ RingOf[slot] = h
             /\ disk.place = "ram" /\ Answered(queue.request[h]) =>
                  queue.answer[h] = Result(queue.request[h])

(* Where no other source goes before the disk, what is used and the driver *)
(* has not seen is signalled, by the disk's line or the pending bit it     *)
(* left, or the driver is about to look, whatever else interrupts and is   *)
(* completed (sync_plic_pending_from_peripherals(), complete()).           *)
CompletionSignalled ==
  UsedIndex # driver.seen =>
    \/ disk.irq \/ VirtioSource \in plic.pending
    \/ driver.handler \in {"ack", "look"}

(* Where no other source goes before the disk, a driver that notifies the  *)
(* disk after each request, and looks at what is used after each claim,    *)
(* sees every request finish.                                              *)
RequestsFinish ==
  \A h \in Heads :
    (disk.place \in {"ram", "registers"} /\ h \in Waiting) ~> (h \notin Waiting)

(* The driver of the keyboard has the keys as they are, or the device's    *)
(* interrupt flag is up, or it is about to look (set_key(), clear_keys()). *)
(* The flag reaches no interrupt controller: the driver polls it.          *)
KeysSeen ==
  user = "keys" /\ driver.ready /\ driver.handler = "out" =>
    driver.keys = input.keys \/ input.irq

(* Whatever the decode registers hold and the scores are, exactly those    *)
(* tokens are drawn from that may be: the best, of top-k those with fewer  *)
(* than k better ones, of top-p those whose betters make up less than p of *)
(* the weight, however it is rounded; of these only what the ticket        *)
(* reaches, where the betters weigh more than there are tickets            *)
(* (sample_from_candidates(), sample_from_nucleus_candidates()).           *)
DrawsFromEligible ==
  user = "decoder" =>
    \A how \in Hows, scores \in ScoreLists :
      Kept(how, decoder, scores) = Eligible(how, decoder, scores)
=============================================================================
