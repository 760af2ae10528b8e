----------------------------- MODULE VirtioBlock ----------------------------
(***************************************************************************)
(* The disk of src/src/peripheral/virtio_block.rs and the rings it shares  *)
(* with its driver.  A request is known by its head descriptor and by what *)
(* becomes of it; the sectors themselves are left out.                     *)
(***************************************************************************)
EXTENDS Integers

CONSTANTS
  QueueNum,   \* length of the rings, at most 8 in the code
  IndexMod    \* where the indices wrap: 2^16 in the code

ASSUME VirtioAssumption ==
  /\ QueueNum \in Nat \ {0}
  /\ IndexMod \in Nat \ {0} /\ IndexMod > QueueNum

(* The code takes every length up to 8.  With 3, 5, 6 and 7 the slots of   *)
(* the indices before and after the wrap collide.                          *)
RingsDivide == IndexMod % QueueNum = 0

Heads   == 0 .. QueueNum - 1
Indices == 0 .. IndexMod - 1

(* A request succeeds, or its header, sector, length or type is wrong or   *)
(* its data is outside RAM; or it does so with no status descriptor at the *)
(* end of its chain.                                                       *)
Requests == {"good", "wrong", "good_unanswered", "wrong_unanswered"}
Answered(request) == request \in {"good", "wrong"}
Result(request) == IF request \in {"good", "good_unanswered"} THEN "ok" ELSE "error"

(* Where the driver puts the rings, if it does: in RAM, or with the        *)
(* available ring, its last slot, or only the used ring, outside of it; or *)
(* it works with the registers, where a ring of the device shows what is   *)
(* used.                                                                   *)
Places == {"none", "ram", "outside", "slot_outside", "used_outside", "registers"}

DiskState ==
  [place : Places, result : {"ok", "error"}, availIdx : Indices, usedIdx : Indices,
   head : Heads, ring : [Heads -> Heads], irq : BOOLEAN]
NewDisk ==
  [place |-> "none", result |-> "ok", availIdx |-> 0, usedIdx |-> 0,
   head |-> 0, ring |-> [s \in Heads |-> 0], irq |-> FALSE]

(* What is in RAM.                                                         *)
QueueState ==
  [availIdx : Indices, avail : [Heads -> Heads], usedIdx : Indices, used : [Heads -> Heads],
   request : [Heads -> Requests], answer : [Heads -> {"none", "ok", "error"}]]
NewQueue ==
  [availIdx |-> 0, avail |-> [s \in Heads |-> 0], usedIdx |-> 0, used |-> [s \in Heads |-> 0],
   request |-> [h \in Heads |-> "good"], answer |-> [h \in Heads |-> "none"]]

Slot(idx) == idx % QueueNum
After(idx) == (idx + 1) % IndexMod

Raise(d) == [d EXCEPT !.irq = TRUE]

(* execute_descriptor_queue(): one request, the oldest that is available,  *)
(* whatever there are; the disk and the RAM after it.                      *)
WrongNothing(d, avail) == avail <= d.usedIdx  \* an index that wrapped
Nothing(d, avail) == avail = d.usedIdx

WrongOldest(d, q) == q.avail[Slot(q.availIdx + IndexMod - 1)]  \* the newest
Oldest(d, q) == q.avail[Slot(d.usedIdx)]

Used(d, h) == [d EXCEPT !.head = h, !.ring[Slot(d.usedIdx)] = h, !.usedIdx = After(@)]

ServeRings(d, q) ==
  LET h    == Oldest(d, q)
      r    == Result(q.request[h])
      seen == [d EXCEPT !.availIdx = q.availIdx]
      answered == IF Answered(q.request[h]) THEN [q EXCEPT !.answer[h] = r] ELSE q
  IN  IF d.place = "outside" THEN <<[d EXCEPT !.result = "error"], q>>
      ELSE IF \/ Nothing(d, q.availIdx)
              \/ d.place = "slot_outside" /\ Slot(d.usedIdx) = QueueNum - 1
           THEN <<[seen EXCEPT !.result = "error"], q>>
      ELSE <<Raise(Used([seen EXCEPT !.result = r], h)),
             IF d.place = "used_outside" THEN answered
             ELSE [answered EXCEPT !.used[Slot(d.usedIdx)] = h,
                                   !.usedIdx = After(d.usedIdx)]>>

(* execute_queue_notify() without rings: a request that fails stays        *)
(* available.                                                              *)
ServeRegisters(d, request) ==
  LET r == Result(request)
      after == [d EXCEPT !.result = r]
  IN  IF Nothing(d, d.availIdx) THEN [d EXCEPT !.result = "error"]
      ELSE Raise(IF r = "ok" THEN Used(after, d.head) ELSE after)

(* A store to QUEUE_NOTIFY; request is the one the registers describe.     *)
Notify(d, q, request) ==
  CASE d.place = "none"      -> <<[d EXCEPT !.result = "error"], q>>
    [] d.place = "registers" -> <<ServeRegisters(d, request), q>>
    [] OTHER                 -> ServeRings(d, q)

(* execute_command(): a sector to or from the window.                      *)
Command(d, request) == Raise([d EXCEPT !.result = Result(request)])

Ack(d) == [d EXCEPT !.irq = FALSE]
=============================================================================
