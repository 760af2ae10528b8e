------------------------------ MODULE Engines -------------------------------
(***************************************************************************)
(* The accelerators of src/src/peripheral (NPU, LPU, GPU, TPU) and the     *)
(* doorbell of src/src/memory/bus.rs, as operators on their status, error  *)
(* code, interrupt enable and task counters.  A command is known by what   *)
(* becomes of it; the arithmetic of the kernels and the operand registers  *)
(* are left out.                                                           *)
(***************************************************************************)
EXTENDS Integers, Sequences, SequencesExt

CONSTANTS
  EngineIds,   \* "npu", "lpu", "gpu", "tpu"
  CounterMod   \* where a counter wraps: 2^32 in the engines, 2^64 in the doorbell

ASSUME EnginesAssumption ==
  /\ EngineIds \subseteq {"npu", "lpu", "gpu", "tpu"}
  /\ CounterMod \in Nat \ {0, 1}

Tensor    == {"gpu", "tpu"}  \* engines with an ERROR bit and an error code
Counters  == 0 .. CounterMod - 1

(* What becomes of a command: its descriptor is outside RAM, its operands  *)
(* or its result are, its opcode is unknown, it is a vector (its elements  *)
(* are counted by the register that counts descriptors) or, of the GPU, a  *)
(* convolution of impossible size.                                         *)
Kinds(id) ==
  {"good", "no_operand", "no_result", "unknown", "unreadable"} \cup
  CASE id = "npu" -> {"vector"} [] id = "gpu" -> {"bad_size"} [] OTHER -> {}

EngineState ==
  [status : SUBSET {"BUSY", "DONE", "ERROR", "IRQ"}, code : 0 .. 3, irqEn : BOOLEAN,
   done : Counters, errors : Counters]

NewEngine == [status |-> {}, code |-> 0, irqEn |-> FALSE, done |-> 0, errors |-> 0]

WrongCount(e, done, errors) ==  \* does not wrap
  [e EXCEPT !.done = @ + done, !.errors = @ + errors]
Count(e, done, errors) ==
  [e EXCEPT !.done = (@ + done) % CounterMod, !.errors = (@ + errors) % CounterMod]

WrongBegin(e, cleared) == [e EXCEPT !.status = {"BUSY"}]  \* clears everything
Begin(e, cleared) == [e EXCEPT !.status = (@ \cup {"BUSY"}) \ cleared]
Finish(e, bits) ==
  [e EXCEPT !.status = (@ \ {"BUSY"}) \cup bits \cup (IF e.irqEn THEN {"IRQ"} ELSE {})]

-----------------------------------------------------------------------------
(* execute_descriptor_entry() of the NPU and the LPU, and the count of its *)
(* failure.  The NPU takes an unknown opcode for an addition, and counts a *)
(* task as done before it writes its result.                               *)
NpuEntry(e, kind) ==
  CASE kind \in {"good", "unknown", "vector"}       -> Count(e, 1, 0)
    [] kind \in {"no_operand", "unreadable"}        -> Count(e, 0, 1)
    [] kind = "no_result"                           -> Count(e, 1, 1)
LpuEntry(e, kind) == IF kind = "good" THEN Count(e, 1, 0) ELSE Count(e, 0, 1)

(* execute_once_with_memory() of the GPU and the TPU.                      *)
Failed(e, code) == Finish(Count([e EXCEPT !.code = code], 0, 1), {"DONE", "ERROR"})
TensorEntry(e, kind) ==
  LET b == Begin(e, {"DONE", "ERROR"})
      Succeeded(f) == Finish(Count(f, 1, 0), {"DONE"})
  IN  CASE kind = "good"                        -> Succeeded(b)
        [] kind = "bad_size"                    -> Succeeded([b EXCEPT !.code = 3])
        [] kind = "unknown"                     -> Failed(b, 1)
        [] kind \in {"no_operand", "no_result"} -> Failed(b, 2)

(* process_pending_descriptor_notify(): the engine after a list of         *)
(* commands.  The first descriptor decides whether the NPU runs a vector   *)
(* or the whole list.                                                      *)
Entry(id, e, kind) ==
  CASE id = "npu" -> NpuEntry(e, kind)
    [] id = "lpu" -> LpuEntry(e, kind)
    [] OTHER      -> TensorEntry(e, kind)
RunList(id, e, list) == FoldLeft(LAMBDA x, kind : Entry(id, x, kind), e, list)

NpuList(e, list) ==
  LET run == IF list # <<>> /\ Head(list) \in {"unreadable", "vector"}
             THEN <<Head(list)>> ELSE list
  IN  Finish(RunList("npu", Begin(e, {"DONE"}), run), {"DONE"})
LpuList(e, list) == Finish(RunList("lpu", Begin(e, {"DONE"}), list), {"DONE"})

(* A descriptor the GPU or the TPU cannot read ends the list.              *)
Readable(list) ==
  LET bad == SelectInSeq(list, LAMBDA kind : kind = "unreadable")
  IN  IF bad = 0 THEN list ELSE SubSeq(list, 1, bad - 1)
WrongTensorList(id, e, list) ==  \* the empty list is not finished
  RunList(id, Begin(e, {"DONE"}), Readable(list))
TensorList(id, e, list) ==
  LET b == Begin(e, {"DONE"})
  IN  IF list = <<>> THEN Finish(b, {"DONE"}) ELSE RunList(id, b, Readable(list))

(* The engine after a store to NOTIFY, and whether the store succeeds.     *)
Ring(id, e, list) ==
  [engine |-> CASE id = "npu" -> NpuList(e, list)
                [] id = "lpu" -> LpuList(e, list)
                [] OTHER      -> TensorList(id, e, list),
   ok |-> id \in Tensor => Readable(list) = list]

(* A store to CONTROL; START runs what the operand registers describe.     *)
(* The NPU and the LPU count no task for it.                               *)
StoreControl(id, e, irqEn, reset, start, kind) ==
  LET r == [e EXCEPT !.irqEn = irqEn,
                     !.status = IF reset /\ id \in Tensor THEN {} ELSE @,
                     !.code = IF reset /\ id \in Tensor THEN 0 ELSE @]
      c == IF id = "lpu" /\ kind = "unknown" THEN Count(r, 0, 1) ELSE r
  IN  IF ~start THEN r
      ELSE IF id \in Tensor THEN TensorEntry(r, kind)
      ELSE Finish(c, {"DONE"})

(* STATUS is cleared by writing ones; a word arrives as four bytes, and    *)
(* the last three write the status itself back.                            *)
WrongClear(e, bits) ==  \* the code goes with any bit
  [e EXCEPT !.status = @ \ (bits \ {"BUSY"}), !.code = 0]
Clear(e, bits) ==
  [e EXCEPT !.status = @ \ (bits \ {"BUSY"}), !.code = IF "ERROR" \in bits THEN 0 ELSE @]
StoreStatus(e, bits, word) ==
  IF word THEN Clear(Clear(e, bits), Clear(e, bits).status) ELSE Clear(e, bits)

-----------------------------------------------------------------------------
(* The doorbell, with the totals the root page shows of it.                *)
DoorState ==
  [status : SUBSET {"BUSY", "DONE", "ERROR"}, submits : Counters, completes : Counters,
   errors : Counters]
NewDoor == [status |-> {}, submits |-> 0, completes |-> 0, errors |-> 0]

StoreDoorStatus(d, bits, word) ==
  [d EXCEPT !.status = IF word THEN @ \cap {"BUSY"} ELSE @ \ (bits \ {"BUSY"})]

(* submit_acc_doorbell(), with the number of an engine or another.         *)
WrongAdded(d, before, after) ==  \* the engine's totals, not what this list added
  [d EXCEPT !.status = {"DONE"}, !.completes = (@ + after.done) % CounterMod,
            !.errors = (@ + after.errors) % CounterMod]
Added(d, before, after) ==
  LET done   == (after.done - before.done) % CounterMod
      errors == (after.errors - before.errors) % CounterMod
  IN  [d EXCEPT !.status = {"DONE"} \cup (IF errors > 0 THEN {"ERROR"} ELSE {}),
                !.completes = (@ + done) % CounterMod, !.errors = (@ + errors) % CounterMod]

Submit(d, valid, id, e, list) ==
  LET s == [d EXCEPT !.status = {"BUSY"}, !.submits = (@ + 1) % CounterMod]
      r == Ring(id, e, list)
  IN  IF valid
      THEN [door |-> IF r.ok THEN Added(s, e, r.engine) ELSE s,
            engine |-> r.engine, ok |-> r.ok]
      ELSE [door |-> [s EXCEPT !.status = {"ERROR"}, !.errors = (@ + 1) % CounterMod],
            engine |-> e, ok |-> FALSE]
=============================================================================
