---------------------------- MODULE DevicesProofs ---------------------------
(***************************************************************************)
(* Theorems about Devices, for lists, rings, counters and vocabularies of  *)
(* any size: what the drivers of the disk and of the keyboard rely on, what*)
(* accelerators and the doorbell report, and what the LPU draws from.      *)
(***************************************************************************)
EXTENDS Devices, PlicProofs, FiniteSetTheorems

-----------------------------------------------------------------------------
(* Remainders, for the counters and indices that wrap.                     *)
LEMMA ProductGrows ==
  ASSUME NEW a \in Nat, NEW b \in Nat, NEW c \in Nat, a <= b
  PROVE  a * c <= b * c
OBVIOUS

LEMMA Remains ==
  ASSUME NEW m \in Nat \ {0}, NEW a \in Int
  PROVE  a % m \in 0 .. m - 1 /\ \E k \in Int : a = k * m + (a % m)
<1>1. a % m \in 0 .. m - 1  OBVIOUS
<1>2. a \div m \in Int /\ a = (a \div m) * m + (a % m)  OBVIOUS
<1> QED  BY <1>1, <1>2

LEMMA OneRemainder ==
  ASSUME NEW m \in Nat \ {0}, NEW r \in 0 .. m - 1, NEW s \in 0 .. m - 1,
         NEW j \in Int, NEW k \in Int, j * m + r = k * m + s
  PROVE  r = s
<1>1. ASSUME j > k  PROVE FALSE
  <2>1. 1 * m <= (j - k) * m  BY <1>1, ProductGrows
  <2>2. (j - k) * m = s - r  OBVIOUS
  <2> QED  BY <2>1, <2>2
<1>2. ASSUME k > j  PROVE FALSE
  <2>1. 1 * m <= (k - j) * m  BY <1>2, ProductGrows
  <2>2. (k - j) * m = r - s  OBVIOUS
  <2> QED  BY <2>1, <2>2
<1>3. j = k  BY <1>1, <1>2
<1> QED  BY <1>3

(* Numbers leave the same remainder when a multiple lies between them.      *)
LEMMA SameRemainder ==
  ASSUME NEW m \in Nat \ {0}, NEW a \in Int, NEW b \in Int, NEW k \in Int, a = b + k * m
  PROVE  a % m = b % m
<1>1. PICK i \in Int : a = i * m + (a % m)  BY Remains
<1>2. PICK j \in Int : b = j * m + (b % m)  BY Remains
<1>3. a % m \in 0 .. m - 1 /\ b % m \in 0 .. m - 1  BY Remains
<1> DEFINE r == a % m
           s == b % m
<1>4. j + k \in Int /\ (j + k) * m + s = i * m + r
  <2>1. (j + k) * m = j * m + k * m  OBVIOUS
  <2> QED  BY <1>1, <1>2, <1>3, <2>1
<1> HIDE DEF r, s
<1>5. r = s  BY <1>3, <1>4, OneRemainder DEF r, s
<1> QED  BY <1>5 DEF r, s

LEMMA Multiple ==
  ASSUME NEW m \in Nat \ {0}, NEW a \in Int, NEW b \in Int, a % m = b % m
  PROVE  \E k \in Int : a = b + k * m
<1>1. PICK i \in Int : a = i * m + (a % m)  BY Remains
<1>2. PICK j \in Int : b = j * m + (b % m)  BY Remains
<1>3. a % m \in 0 .. m - 1  BY Remains
<1> DEFINE r == a % m
<1>4. a = i * m + r /\ b = j * m + r /\ r \in Int  BY <1>1, <1>2, <1>3
<1> HIDE DEF r
<1>5. i - j \in Int /\ (i - j) * m = i * m - j * m  OBVIOUS
<1>6. a = b + (i - j) * m  BY <1>4, <1>5
<1> QED  BY <1>5, <1>6

LEMMA RemainderAdds ==
  ASSUME NEW m \in Nat \ {0}, NEW a \in Int, NEW b \in Int
  PROVE  ((a % m) + b) % m = (a + b) % m
<1>1. PICK k \in Int : a = k * m + (a % m)  BY Remains
<1> DEFINE r == a % m
<1>2. r \in Int  BY Remains
<1>3. a = k * m + r  BY <1>1
<1> HIDE DEF r
<1>4. a + b = (r + b) + k * m /\ a + b \in Int /\ r + b \in Int  BY <1>2, <1>3
<1>5. (a + b) % m = (r + b) % m  BY <1>4, SameRemainder
<1> QED  BY <1>5 DEF r

(* A remainder may be taken, or not, of a part of a sum.                   *)
Rest(m, a, r) == r = a % m
Congruent(m, a, b) == a % m = b % m

LEMMA Replaced ==
  ASSUME NEW m \in Nat \ {0}, NEW a \in Int, NEW r \in Int, NEW s \in Int, NEW z \in Int,
         Rest(m, a, r), s - r = z - a
  PROVE  Congruent(m, s, z)
<1> DEFINE y == z - a
<1>1. y \in Int /\ s = r + y /\ z = a + y  OBVIOUS
<1> HIDE DEF y
<1>2. ((a % m) + y) % m = (a + y) % m  BY <1>1, RemainderAdds
<1>3. a % m = r  BY DEF Rest
<1>4. (r + y) % m = (a + y) % m  BY <1>2, <1>3
<1>5. s % m = z % m  BY <1>1, <1>4
<1> QED  BY <1>5 DEF Congruent

Rests(m, p, done, q, errors, u, c, v, x, t, w, g, n, sum) ==
  /\ Rest(m, p, done) /\ Rest(m, q, errors) /\ Rest(m, u, c) /\ Rest(m, v, x)
  /\ Rest(m, t, g) /\ Rest(m, w, g)
  /\ t - p - q = w - n /\ sum = (c - u) + done + (x - v) + errors

LEMMA AddedUp ==
  ASSUME NEW m \in Nat \ {0}, NEW p \in Int, NEW done \in Int, NEW q \in Int, NEW errors \in Int,
         NEW u \in Int, NEW c \in Int, NEW v \in Int, NEW x \in Int,
         NEW t \in Int, NEW w \in Int, NEW g \in Int, NEW n \in Int, NEW sum \in Int,
         Rests(m, p, done, q, errors, u, c, v, x, t, w, g, n, sum)
  PROVE  Congruent(m, sum, n)
<1> DEFINE s1 == done + (x - v) + errors
           s2 == done + errors
           s3 == errors + p
           s4 == p + q
           s5 == g - (t - p - q)
<1>1. s1 \in Int /\ s2 \in Int /\ s3 \in Int /\ s4 \in Int /\ s5 \in Int
  OBVIOUS
<1>2. /\ sum - c = s1 - u /\ s1 - x = s2 - v /\ s2 - done = s3 - p
      /\ s3 - errors = s4 - q /\ s5 - g = s4 - t /\ s5 - g = n - w
  BY DEF Rests
<1> HIDE DEF s1, s2, s3, s4, s5
<1>9. /\ Rest(m, p, done) /\ Rest(m, q, errors) /\ Rest(m, u, c) /\ Rest(m, v, x)
      /\ Rest(m, t, g) /\ Rest(m, w, g)
  BY DEF Rests
<1>3. Congruent(m, sum, s1)  BY <1>1, <1>2, <1>9, Replaced
<1>4. Congruent(m, s1, s2)   BY <1>1, <1>2, <1>9, Replaced
<1>5. Congruent(m, s2, s3)   BY <1>1, <1>2, <1>9, Replaced
<1>6. Congruent(m, s3, s4)   BY <1>1, <1>2, <1>9, Replaced
<1>7. Congruent(m, s5, s4)   BY <1>1, <1>2, <1>9, Replaced
<1>8. Congruent(m, s5, n)    BY <1>1, <1>2, <1>9, Replaced
<1> QED  BY <1>3, <1>4, <1>5, <1>6, <1>7, <1>8 DEF Congruent

LEMMA Small ==
  ASSUME NEW m \in Nat \ {0}, NEW a \in 0 .. m - 1
  PROVE  a % m = a
OBVIOUS

-----------------------------------------------------------------------------
(* The keyboard.                                                           *)
KeysInv ==
  user = "keys" =>
    /\ input \in InputState
    /\ driver \in Driver
    /\ driver.ready => input.irqEn
    /\ KeysSeen

(* Who takes a step.                                                       *)
LEMMA StepsAre ==
  ASSUME [Next]_vars
  PROVE  \/ OfEngine \/ OfDisk \/ OfDecoder \/ UNCHANGED vars
         \/ \E key \in Keys, pressed \in BOOLEAN : PressOrRelease(key, pressed)
         \/ ReleaseAll \/ EnableKeys \/ AckKeys \/ LookAtKeys
<1>1. ASSUME NEW on, NEW raised, Clock(on, raised)  PROVE OfDisk
  BY <1>1 DEF Clock
<1>2. ASSUME DiskHandler \/ NotifyDisk \/ StrayStore  PROVE OfDisk
  BY <1>2
  DEF DiskHandler, ClaimInterrupt, AckDisk, TakeUsed, LastLook, CompleteInterrupt, NotifyDisk,
      StrayStore
<1>3. ASSUME NEW place, SetUpDisk(place)  PROVE OfDisk
  BY <1>3 DEF SetUpDisk
<1>4. ASSUME NEW h, NEW request, Publish(h, request)  PROVE OfDisk
  BY <1>4 DEF Publish
<1> QED
  BY <1>1, <1>2, <1>3, <1>4
  DEF Next, NotifyEngine, Doorbell, EngineControl, EngineStatus, DoorbellStatus, Custom0,
      StoreDecodeRegister, Decode

LEMMA KeysInit == Init => KeysInv
BY VirtioAssumption DEF Init, KeysInv, InputState, NewInput, Driver, KeysSeen, Indices

LEMMA KeysStep == KeysInv /\ [Next]_vars => KeysInv'
<1> SUFFICES ASSUME KeysInv, [Next]_vars PROVE KeysInv'
  OBVIOUS
<1> USE DEF KeysInv, InputState, Driver, KeysSeen
<1>1. ASSUME OfEngine PROVE KeysInv'
  BY <1>1 DEF OfEngine
<1>2. ASSUME OfDisk PROVE KeysInv'
  BY <1>2 DEF OfDisk
<1>3. ASSUME NEW key \in Keys, NEW pressed \in BOOLEAN, PressOrRelease(key, pressed)
      PROVE  KeysInv'
  BY <1>3 DEF PressOrRelease, SetKey, OfKeys
<1>4. CASE ReleaseAll
  BY <1>4 DEF ReleaseAll, ClearKeys, OfKeys
<1>5. CASE EnableKeys
  BY <1>5 DEF EnableKeys, StoreInputControl, OfKeys
<1>6. CASE AckKeys
  BY <1>6 DEF AckKeys, StoreInputStatus, OfKeys
<1>7. CASE LookAtKeys
  BY <1>7 DEF LookAtKeys, OfKeys
<1>8. CASE UNCHANGED vars
  BY <1>8 DEF vars
<1>9. ASSUME OfDecoder PROVE KeysInv'
  BY <1>9 DEF OfDecoder
<1> HIDE DEF KeysInv
<1> QED
  BY <1>1, <1>2, <1>3, <1>4, <1>5, <1>6, <1>7, <1>8, <1>9, StepsAre

(* No change of the keys passes unseen, whatever is pressed and released   *)
(* while the driver acknowledges and looks (set_key(), clear_keys()).      *)
THEOREM NoKeyMissed == Spec => []KeysSeen
<1>1. KeysInv => KeysSeen
  BY DEF KeysInv, KeysSeen
<1> QED  BY <1>1, KeysInit, KeysStep, PTL DEF Spec

-----------------------------------------------------------------------------
(* The disk.                                                               *)
DiskTyped ==
  disk \in DiskState /\ queue \in QueueState /\ plic \in PlicState /\ driver \in Driver

(* Until the rings are somewhere nothing is used, here or there.           *)
UnusedUntilReady ==
  /\ driver.ready => disk.place # "none"
  /\ ~driver.ready => disk.place = "none"
  /\ disk.place = "none" => disk.usedIdx = queue.usedIdx

DiskInv ==
  IF user = "disk" THEN DiskTyped /\ UnusedUntilReady
  ELSE disk = NewDisk /\ queue = NewQueue /\ plic = NewPlic /\ driver.seen = 0

LEMMA AfterIsIndex == \A idx \in Indices : After(idx) \in Indices
BY VirtioAssumption DEF After, Indices

LEMMA SlotIsHead == \A idx \in Indices : Slot(idx) \in Heads
BY VirtioAssumption DEF Slot, Indices, Heads

LEMMA SomeIndices == 0 \in Indices /\ 0 \in Heads
BY VirtioAssumption DEF Indices, Heads

Shown(d, q) == IF d.place = "registers" THEN d.usedIdx ELSE q.usedIdx

LEMMA UsedTyped ==
  ASSUME NEW d \in DiskState, NEW h \in Heads
  PROVE  Raise(Used(d, h)) \in DiskState
BY AfterIsIndex, SlotIsHead DEF Raise, Used, DiskState

(* A notification changes what is shown as used only by interrupting.      *)
LEMMA NotifySignals ==
  ASSUME NEW d \in DiskState, NEW q \in QueueState, NEW request \in Requests
  PROVE  LET r == Notify(d, q, request)
         IN  /\ r[1] \in DiskState /\ r[2] \in QueueState
             /\ r[1].irq \/ (Shown(r[1], r[2]) = Shown(d, q) /\ r[1].irq = d.irq)
             /\ r[1].place = d.place
             /\ d.place = "none" => r[1].usedIdx = d.usedIdx /\ r[2] = q
<1> DEFINE r == Notify(d, q, request)
<1> SUFFICES /\ r[1] \in DiskState /\ r[2] \in QueueState
             /\ r[1].irq \/ (Shown(r[1], r[2]) = Shown(d, q) /\ r[1].irq = d.irq)
             /\ r[1].place = d.place
             /\ d.place = "none" => r[1].usedIdx = d.usedIdx /\ r[2] = q
  OBVIOUS
<1>0. \A x : Result(x) \in {"ok", "error"}
  BY DEF Result
<1>1. \A x \in {"ok", "error"} : [d EXCEPT !.result = x] \in DiskState
  BY DEF DiskState
<1>2. CASE d.place = "none"
  <2>1. r[1] = [d EXCEPT !.result = "error"] /\ r[2] = q
    BY <1>2 DEF Notify
  <2> QED  BY <1>1, <2>1, <1>2 DEF Shown, DiskState
<1>3. CASE d.place = "registers"
  <2> DEFINE a == [d EXCEPT !.result = Result(request)]
  <2>1. r[1] = ServeRegisters(d, request) /\ r[2] = q
    BY <1>3 DEF Notify
  <2>2. a \in DiskState
    BY <1>0, <1>1
  <2>3. CASE r[1] = [d EXCEPT !.result = "error"]
    BY <1>1, <2>1, <2>3 DEF Shown, DiskState
  <2>4. CASE r[1] = Raise(Used(a, d.head))
    <3>1. r[1] \in DiskState
      BY <2>2, <2>4, UsedTyped DEF DiskState
    <3>2. r[1].irq /\ r[1].place = d.place
      BY <2>2, <2>4 DEF Raise, Used, DiskState
    <3> QED  BY <3>1, <3>2, <2>1, <1>3
  <2>5. CASE r[1] = Raise(a)
    BY <2>1, <2>2, <2>5, <1>3 DEF Raise, DiskState
  <2> QED  BY <2>1, <2>3, <2>4, <2>5 DEF ServeRegisters
<1>4. CASE d.place \in {"ram", "outside", "slot_outside", "used_outside"}
  <2> DEFINE h == Oldest(d, q)
             s == [d EXCEPT !.availIdx = q.availIdx]
             t == [s EXCEPT !.result = Result(q.request[h])]
             u == IF Answered(q.request[h])
                  THEN [q EXCEPT !.answer[h] = Result(q.request[h])] ELSE q
             w == [u EXCEPT !.used[Slot(d.usedIdx)] = h, !.usedIdx = After(d.usedIdx)]
  <2>1. r = ServeRings(d, q)
    BY <1>4 DEF Notify
  <2>2. h \in Heads
    BY SlotIsHead DEF Oldest, QueueState, DiskState
  <2>3. s \in DiskState
    BY DEF DiskState, QueueState
  <2>4. t \in DiskState /\ [s EXCEPT !.result = "error"] \in DiskState
    BY <2>3, <1>0 DEF DiskState
  <2>5. u \in QueueState
    BY <2>2, <1>0 DEF QueueState
  <2>6. w \in QueueState
    <3>1. d.usedIdx \in Indices
      BY DEF DiskState
    <3> QED  BY <3>1, <2>2, <2>5, AfterIsIndex, SlotIsHead DEF QueueState
  <2>7. CASE r = <<[d EXCEPT !.result = "error"], q>>
    BY <1>1, <2>7, <1>4 DEF Shown, DiskState
  <2>8. CASE r = <<[s EXCEPT !.result = "error"], q>>
    <3>1. [s EXCEPT !.result = "error"].place = d.place
      BY <2>3 DEF DiskState
    <3>2. [s EXCEPT !.result = "error"].irq = d.irq
      BY <2>3 DEF DiskState
    <3>3. r[1] = [s EXCEPT !.result = "error"] /\ r[2] = q
      BY <2>8
    <3> HIDE DEF s, r
    <3> QED  BY <2>4, <3>1, <3>2, <3>3, <1>4 DEF Shown
  <2>9. CASE r = <<Raise(Used(t, h)), IF d.place = "used_outside" THEN u ELSE w>>
    <3>1. r[1] = Raise(Used(t, h)) /\ r[2] \in {u, w}
      BY <2>9
    <3>2. r[1] \in DiskState
      BY <2>2, <2>4, <3>1, UsedTyped
    <3>3. r[1].irq /\ r[1].place = t.place
      BY <2>4, <3>1 DEF Raise, Used, DiskState
    <3>4. t.place = d.place
      BY <2>3 DEF DiskState
    <3> HIDE DEF r, u, w, t
    <3> QED  BY <3>1, <3>2, <3>3, <3>4, <2>5, <2>6, <1>4
  <2> QED  BY <2>1, <2>7, <2>8, <2>9 DEF ServeRings
<1> QED  BY <1>2, <1>3, <1>4 DEF DiskState, Places

LEMMA SetUpTyped ==
  ASSUME NEW p \in PlicState
  PROVE  SetUpPlic(p) \in PlicState
<1>1. PriorityOf \in [Sources -> Priorities]
  BY DevicesAssumption
<1>2. "supervisor" \in Contexts
  BY DEF Contexts
<1> QED  BY <1>1, <1>2 DEF SetUpPlic, PlicState

LEMMA LatchTyped ==
  ASSUME NEW p \in PlicState, NEW raised \in SUBSET (Sources \ {VirtioSource}), NEW irq
  PROVE  SetPending(p, raised \cup (IF irq THEN {VirtioSource} ELSE {})) \in PlicState
<1>1. raised \cup (IF irq THEN {VirtioSource} ELSE {}) \in SUBSET Sources
  BY PlicAssumption
<1> QED  BY <1>1, SetPendingSound

LEMMA DiskInit == Init => DiskInv
<1> SUFFICES ASSUME Init PROVE DiskInv
  OBVIOUS
<1> USE SomeIndices DEF Init
<1>1. disk \in DiskState
  BY DEF NewDisk, DiskState, Places
<1>2. queue \in QueueState
  BY DEF NewQueue, QueueState, Requests
<1>3. driver \in Driver
  BY VirtioAssumption DEF Driver
<1>4. plic \in PlicState
  BY PlicAssumption DEF NewPlic, PlicState
<1> QED
  BY <1>1, <1>2, <1>3, <1>4
  DEF DiskInv, DiskTyped, UnusedUntilReady, NewDisk, NewQueue

LEMMA DiskStep == KeysInv /\ DiskInv /\ [Next]_vars => DiskInv'
<1> SUFFICES ASSUME KeysInv, DiskInv, [Next]_vars PROVE DiskInv'
  OBVIOUS
<1> USE DEF DiskInv
<1>1. ASSUME OfEngine PROVE DiskInv'
  BY <1>1 DEF OfEngine, DiskTyped, UnusedUntilReady
<1>2. ASSUME OfDecoder PROVE DiskInv'
  BY <1>2 DEF OfDecoder, DiskTyped, UnusedUntilReady
<1>3. CASE UNCHANGED vars
  BY <1>3 DEF vars, DiskTyped, UnusedUntilReady
<1>4. ASSUME OfDisk PROVE user = "disk" /\ user' = user /\ DiskTyped
  BY <1>4 DEF OfDisk
<1>5. ASSUME NEW place \in Places \ {"none"}, SetUpDisk(place) PROVE DiskInv'
  <2>1. OfDisk
    BY <1>5 DEF SetUpDisk
  <2>2. DiskTyped'
    <3>1. plic' \in PlicState
      <4>1. plic \in PlicState  BY <1>4, <2>1 DEF DiskTyped
      <4> QED  BY <1>5, <4>1, SetUpTyped DEF SetUpDisk
    <3> QED  BY <1>4, <1>5, <2>1, <3>1 DEF SetUpDisk, DiskTyped, DiskState, Driver
  <2>3. disk'.place = place /\ driver'.ready /\ disk'.irq = disk.irq
        /\ disk'.usedIdx = disk.usedIdx /\ queue' = queue
        /\ driver'.seen = driver.seen /\ driver'.handler = driver.handler
    BY <1>4, <1>5, <2>1 DEF SetUpDisk, DiskTyped, DiskState, Driver
  <2>4. disk.usedIdx = queue.usedIdx /\ disk.place = "none"
    BY <1>4, <1>5, <2>1 DEF SetUpDisk, UnusedUntilReady
  <2> QED  BY <1>4, <2>1, <2>2, <2>3, <2>4 DEF UnusedUntilReady
<1>6. ASSUME NEW h \in Heads, NEW request \in Requests, Publish(h, request)
      PROVE  DiskInv'
  <2>1. OfDisk
    BY <1>6 DEF Publish
  <2>2. queue' \in QueueState /\ queue'.usedIdx = queue.usedIdx
    BY <1>4, <1>6, <2>1, AfterIsIndex, SlotIsHead DEF Publish, DiskTyped, QueueState
  <2>3. disk' \in DiskState /\ disk'.usedIdx = disk.usedIdx /\ disk'.irq = disk.irq
        /\ disk'.place = disk.place
    <3>1. queue'.availIdx \in Indices
      BY <2>2 DEF QueueState
    <3>2. disk' \in {disk, [disk EXCEPT !.head = h, !.availIdx = queue'.availIdx]}
      BY <1>6 DEF Publish
    <3>3. disk \in DiskState
      BY <1>4, <2>1 DEF DiskTyped
    <3> QED  BY <3>1, <3>2, <3>3 DEF DiskState
  <2>4. driver' \in Driver /\ driver'.seen = driver.seen /\ driver'.handler = driver.handler
        /\ driver'.ready = driver.ready
    <3>1. driver' = [driver EXCEPT !.owed = @ + 1] /\ driver.owed < QueueNum
      BY <1>6 DEF Publish
    <3>2. driver.owed + 1 \in 0 .. QueueNum
      BY <1>4, <2>1, <3>1, VirtioAssumption DEF DiskTyped, Driver
    <3> QED  BY <1>4, <2>1, <3>1, <3>2 DEF DiskTyped, Driver
  <2>5. plic' = plic
    BY <1>6 DEF Publish
  <2> QED  BY <1>4, <2>1, <2>2, <2>3, <2>4, <2>5 DEF DiskTyped, UnusedUntilReady
<1>7. ASSUME OfDisk, Notified, plic' = plic, driver' \in Driver, driver'.seen = driver.seen,
             driver'.ready = driver.ready
      PROVE  DiskInv'
  <2> DEFINE r == Notify(disk, queue, queue.request[disk.head])
  <2>1. queue.request[disk.head] \in Requests
    BY <1>4, <1>7 DEF DiskTyped, DiskState, QueueState
  <2>2. disk' = r[1] /\ queue' = r[2]
    BY <1>7 DEF Notified
  <2>3. /\ r[1] \in DiskState /\ r[2] \in QueueState
        /\ r[1].irq \/ (Shown(r[1], r[2]) = Shown(disk, queue) /\ r[1].irq = disk.irq)
        /\ r[1].place = disk.place
        /\ disk.place = "none" => r[1].usedIdx = disk.usedIdx /\ r[2] = queue
    BY <1>4, <1>7, <2>1, NotifySignals DEF DiskTyped
  <2> HIDE DEF r
  <2> QED  BY <1>4, <1>7, <2>2, <2>3 DEF DiskTyped, Shown, UnusedUntilReady
<1>8. CASE NotifyDisk
  <2>1. OfDisk
    BY <1>8 DEF NotifyDisk
  <2>2. driver' \in Driver /\ driver'.seen = driver.seen /\ driver'.ready = driver.ready
    BY <1>4, <1>8, <2>1, VirtioAssumption DEF NotifyDisk, DiskTyped, Driver
  <2> QED  BY <1>7, <1>8, <2>1, <2>2 DEF NotifyDisk
<1>9. CASE StrayStore
  <2>1. OfDisk /\ driver' = driver /\ plic' = plic
    BY <1>9 DEF StrayStore
  <2>2. CASE Notified
    BY <1>4, <1>7, <2>1, <2>2 DEF DiskTyped
  <2>3. ASSUME NEW request \in Requests, disk' = Command(disk, request), queue' = queue
        PROVE  DiskInv'
    BY <1>4, <2>1, <2>3
    DEF DiskTyped, Command, Raise, Result, DiskState, UnusedUntilReady
  <2> QED  BY <1>9, <2>2, <2>3 DEF StrayStore, Requests
<1>10. ASSUME OfDisk, queue' = queue, plic' \in PlicState, driver' \in Driver,
              disk' = disk \/ disk' = Ack(disk), driver'.ready = driver.ready
       PROVE  DiskInv'
  <2>1. disk' \in DiskState /\ disk'.place = disk.place /\ disk'.usedIdx = disk.usedIdx
    BY <1>4, <1>10 DEF Ack, DiskTyped, DiskState
  <2> QED  BY <1>4, <1>10, <2>1 DEF DiskTyped, UnusedUntilReady
<1>11. ASSUME NEW on \in BOOLEAN, NEW raised \in SUBSET (Sources \ {VirtioSource}),
              Clock(on, raised)
       PROVE  DiskInv'
  <2>1. OfDisk
    BY <1>11 DEF Clock
  <2>2. plic' \in PlicState
    BY <1>4, <1>11, <2>1, LatchTyped DEF Clock, DiskTyped
  <2>3. driver' \in Driver /\ driver'.ready = driver.ready
    <3>1. driver' \in {driver, [driver EXCEPT !.handler = "claim"]}
      BY <1>11 DEF Clock
    <3> QED  BY <1>4, <2>1, <3>1 DEF DiskTyped, Driver
  <2> QED  BY <1>10, <1>11, <2>1, <2>2, <2>3 DEF Clock
<1>12. ASSUME ClaimInterrupt \/ AckDisk \/ TakeUsed \/ CompleteInterrupt
       PROVE  DiskInv'
  <2>1. OfDisk /\ queue' = queue
    BY <1>12 DEF ClaimInterrupt, AckDisk, TakeUsed, CompleteInterrupt
  <2>2. plic' \in PlicState
    <3>1. "supervisor" \in Contexts  BY DEF Contexts
    <3> QED
      BY <1>4, <1>12, <2>1, <3>1, StoreClaimSound
      DEF ClaimInterrupt, AckDisk, TakeUsed, CompleteInterrupt, DiskTyped
  <2>3. driver' \in Driver /\ driver'.ready = driver.ready
    <3>1. BestPendingSource(plic, "supervisor") \in Sources \cup {NoSource}
      BY <1>4, <2>1, BestIsSource DEF DiskTyped, Contexts
    <3> QED
      BY <1>4, <1>12, <2>1, <3>1, AfterIsIndex
      DEF ClaimInterrupt, AckDisk, TakeUsed, CompleteInterrupt, DiskTyped, Driver
  <2>4. disk' = disk \/ disk' = Ack(disk)
    BY <1>12 DEF ClaimInterrupt, AckDisk, TakeUsed, CompleteInterrupt
  <2> QED  BY <1>10, <2>1, <2>2, <2>3, <2>4
<1>15. CASE LastLook
  <2>1. OfDisk /\ plic' = plic
    BY <1>15 DEF LastLook
  <2>2. driver' \in Driver /\ driver'.ready = driver.ready
    <3>1. driver \in Driver /\ driver.owed \in 0 .. QueueNum /\ 1 \in 0 .. QueueNum
      BY <1>4, <2>1, VirtioAssumption DEF DiskTyped, Driver
    <3>2. PICK owed \in {1, driver.owed} :
            driver' = [driver EXCEPT !.handler = "complete", !.owed = owed]
      BY <1>15 DEF LastLook
    <3> QED  BY <3>1, <3>2 DEF Driver
  <2>3. queue' \in QueueState /\ queue'.usedIdx = queue.usedIdx /\ disk' = disk
    BY <1>4, <1>15, <2>1 DEF LastLook, DiskTyped, DiskState, QueueState, Requests
  <2> QED  BY <1>4, <2>1, <2>2, <2>3 DEF DiskTyped, UnusedUntilReady
<1>13. ASSUME DiskHandler PROVE DiskInv'
  BY <1>12, <1>13, <1>15 DEF DiskHandler
<1>14. ASSUME \/ \E key \in Keys, pressed \in BOOLEAN : PressOrRelease(key, pressed)
              \/ ReleaseAll \/ EnableKeys \/ AckKeys \/ LookAtKeys
       PROVE  DiskInv'
  <2>1. OfKeys
    BY <1>14 DEF PressOrRelease, ReleaseAll, EnableKeys, AckKeys, LookAtKeys
  <2>2. user' # "disk" /\ disk = NewDisk /\ queue = NewQueue /\ plic = NewPlic
        /\ driver.seen = 0
    BY <2>1 DEF OfKeys
  <2>3. disk' = disk /\ queue' = queue /\ plic' = plic
    BY <2>1 DEF OfKeys
  <2>4. driver'.seen = driver.seen
    BY <1>14, <2>1
    DEF PressOrRelease, ReleaseAll, EnableKeys, AckKeys, LookAtKeys, OfKeys, KeysInv, Driver
  <2> QED  BY <2>2, <2>3, <2>4 DEF NewDisk, NewQueue, NewPlic
<1> QED
  BY <1>1, <1>2, <1>3, <1>5, <1>6, <1>8, <1>9, <1>11, <1>13, <1>14
  DEF Next, NotifyEngine, Doorbell, EngineControl, EngineStatus, DoorbellStatus, Custom0,
      StoreDecodeRegister, Decode

(* What the driver has set up, where the handler is while something is     *)
(* used and not seen, and that the disk raises nothing meanwhile.          *)
PlicSetUp ==
  /\ plic.enable["supervisor"] = IF driver.ready THEN Sources ELSE {}
  /\ driver.ready => plic.priority = PriorityOf
  /\ plic.threshold["supervisor"] = 0
HandlerPlaced ==
  /\ driver.handler # "out" => driver.ready /\ ~disk.irq
  /\ driver.handler = "complete" => UsedIndex = driver.seen
SignalInv ==
  IF user = "disk" THEN PlicSetUp /\ HandlerPlaced /\ CompletionSignalled
  ELSE UsedIndex = driver.seen

(* The disk, when it is pending, goes before every other source.           *)
LEMMA DiskGoesFirst ==
  ASSUME DiskFirst, plic \in PlicState, PlicSetUp, driver.ready, VirtioSource \in plic.pending
  PROVE  BestPendingSource(plic, "supervisor") = VirtioSource
<1> DEFINE best == BestPendingSource(plic, "supervisor")
           Offered == {s \in plic.pending \cap plic.enable["supervisor"] :
                         plic.priority[s] > plic.threshold["supervisor"]}
<1>1. IsBest(plic, best, Offered)
  BY BestAmongOffered DEF Contexts
<1>2. /\ plic.pending \subseteq Sources /\ Sources \subseteq Nat \ {0}
      /\ VirtioSource \in Sources /\ VirtioSource = 1
      /\ plic.enable["supervisor"] = Sources /\ plic.threshold["supervisor"] = 0
      /\ plic.priority = PriorityOf
  BY PlicAssumption DEF PlicState, PlicSetUp, VirtioSource
<1>3. \A s \in Sources : PriorityOf[s] \in Nat /\ PriorityOf[s] <= PriorityOf[VirtioSource]
  BY PlicAssumption, DevicesAssumption DEF DiskFirst
<1>4. PriorityOf[VirtioSource] > 0
  <2>1. PriorityOf \in [Sources -> Priorities \ {0}]
    BY DevicesAssumption
  <2>2. \A v \in Priorities \ {0} : v > 0
    BY PlicAssumption
  <2>3. PriorityOf[VirtioSource] \in Priorities \ {0}
    BY <1>2, <2>1
  <2> QED  BY <2>2, <2>3
<1>5. VirtioSource \in Offered /\ Offered \subseteq Sources
  BY <1>2, <1>4
<1> HIDE DEF best, Offered
<1>6. /\ best \in Offered
      /\ \/ plic.priority[VirtioSource] < plic.priority[best]
         \/ plic.priority[VirtioSource] = plic.priority[best] /\ VirtioSource >= best
  BY <1>1, <1>5 DEF IsBest
<1>7. best \in Sources /\ best \in Nat \ {0} /\ PriorityOf[best] \in Nat
      /\ PriorityOf[VirtioSource] \in Nat /\ PriorityOf[best] <= PriorityOf[VirtioSource]
  BY <1>2, <1>3, <1>5, <1>6
<1> QED  BY <1>2, <1>6, <1>7 DEF best

(* Nothing is offered to a driver that has not enabled anything.           *)
LEMMA NothingEnabled ==
  ASSUME NEW p \in PlicState, p.enable["supervisor"] = {}
  PROVE  BestPendingSource(p, "supervisor") = NoSource
<1>1. {s \in p.pending \cap p.enable["supervisor"] :
         p.priority[s] > p.threshold["supervisor"]} = {}
  OBVIOUS
<1>2. IsBest(p, BestPendingSource(p, "supervisor"), {})
  BY <1>1, BestAmongOffered DEF Contexts
<1> QED  BY <1>2 DEF IsBest

(* Claims and completions leave what is set up alone.                      *)
SameSetUp(p, q) == p.priority = q.priority /\ p.enable = q.enable /\ p.threshold = q.threshold
LEMMA CompletionKeepsSetUp ==
  ASSUME NEW p \in PlicState, NEW x \in Contexts, NEW s
  PROVE  SameSetUp(p, StoreClaim(p, x, s))
<1> DEFINE One(q) == Complete(q, x, BestPendingSource(q, x))
<1>1. ASSUME NEW q \in PlicState, NEW t  PROVE SameSetUp(q, Complete(q, x, t))
  BY DEF Complete, PlicState, SameSetUp
<1>2. ASSUME NEW q \in PlicState
      PROVE  One(q) \in PlicState /\ SameSetUp(q, One(q))
  BY <1>1, CompleteSound
<1>3. Complete(p, x, s) \in PlicState /\ SameSetUp(p, Complete(p, x, s))
  BY <1>1, CompleteSound
<1> HIDE DEF One
<1>4. SameSetUp(p, One(One(One(Complete(p, x, s)))))
  BY <1>2, <1>3 DEF SameSetUp
<1> QED  BY <1>4 DEF StoreClaim, One

LEMMA SignalInit == Init => SignalInv
BY DEF Init, SignalInv, PlicSetUp, HandlerPlaced, CompletionSignalled, UsedIndex, NewDisk, NewQueue,
       NewPlic, Contexts

LEMMA SignalStep ==
  ASSUME DiskFirst, KeysInv, DiskInv, DiskInv', SignalInv, [Next]_vars
  PROVE  SignalInv'
<1> SUFFICES ASSUME user = "disk", user' = "disk"  PROVE SignalInv'
  <2>1. user' = user
    BY StepsAre
    DEF OfEngine, OfDisk, OfDecoder, PressOrRelease, ReleaseAll, EnableKeys, AckKeys, LookAtKeys,
        OfKeys, vars
  <2>2. user' # "disk" => UsedIndex' = driver'.seen
    BY DEF DiskInv, UsedIndex, NewDisk, NewQueue
  <2> QED  BY <2>1, <2>2 DEF SignalInv
<1>1. /\ disk \in DiskState /\ queue \in QueueState /\ plic \in PlicState /\ driver \in Driver
      /\ disk' \in DiskState /\ queue' \in QueueState /\ plic' \in PlicState
      /\ driver' \in Driver
      /\ UnusedUntilReady
  BY DEF DiskInv, DiskTyped
<1>2. PlicSetUp /\ HandlerPlaced /\ CompletionSignalled
  BY DEF SignalInv
<1>3. UsedIndex = Shown(disk, queue) /\ UsedIndex' = Shown(disk', queue')
  BY DEF UsedIndex, Shown
<1> HIDE DEF UsedIndex
<1>4. ASSUME plic' = plic, driver'.ready = driver.ready  PROVE PlicSetUp'
  BY <1>2, <1>4 DEF PlicSetUp
<1>5. CASE UNCHANGED vars
  BY <1>2, <1>3, <1>5 DEF vars, SignalInv, PlicSetUp, HandlerPlaced, CompletionSignalled
<1>6. ASSUME NEW place \in Places \ {"none"}, SetUpDisk(place)  PROVE SignalInv'
  <2>1. /\ ~driver.ready /\ disk' = [disk EXCEPT !.place = place] /\ queue' = queue
        /\ driver' = [driver EXCEPT !.ready = TRUE]
        /\ plic' = SetUpPlic(plic)
    BY <1>6 DEF SetUpDisk
  <2>2. PlicSetUp'
    <3>1. /\ plic'.priority = PriorityOf /\ plic'.enable["supervisor"] = Sources
          /\ plic'.threshold = plic.threshold
      BY <1>1, <2>1 DEF SetUpPlic, PlicState, Contexts
    <3>2. driver'.ready  BY <1>1, <2>1 DEF Driver
    <3> QED  BY <1>2, <3>1, <3>2 DEF PlicSetUp
  <2>3. driver.handler = "out" /\ driver'.handler = "out" /\ driver'.seen = driver.seen
    BY <1>1, <1>2, <2>1 DEF HandlerPlaced, Driver
  <2>4. UsedIndex' = UsedIndex /\ disk'.irq = disk.irq
    BY <1>1, <1>3, <2>1 DEF Shown, UnusedUntilReady, DiskState
  <2>5. plic'.pending = plic.pending
    BY <1>1, <2>1 DEF SetUpPlic, PlicState
  <2> QED  BY <1>2, <2>2, <2>3, <2>4, <2>5 DEF SignalInv, HandlerPlaced, CompletionSignalled
<1>7. ASSUME NEW h \in Heads, NEW request \in Requests, Publish(h, request)
      PROVE  SignalInv'
  <2>1. /\ queue' = [queue EXCEPT !.avail[Slot(queue.availIdx)] = h, !.availIdx = After(@),
                                  !.request[h] = request, !.answer[h] = "none"]
        /\ disk' \in {disk, [disk EXCEPT !.head = h, !.availIdx = queue'.availIdx]}
        /\ driver' = [driver EXCEPT !.owed = @ + 1] /\ plic' = plic
    BY <1>7 DEF Publish
  <2>2. queue'.usedIdx = queue.usedIdx
    BY <1>1, <2>1 DEF QueueState
  <2>3. disk'.usedIdx = disk.usedIdx /\ disk'.place = disk.place /\ disk'.irq = disk.irq
    BY <1>1, <2>1 DEF DiskState
  <2>4. driver'.ready = driver.ready /\ driver'.handler = driver.handler
        /\ driver'.seen = driver.seen
    BY <1>1, <2>1 DEF Driver
  <2>5. UsedIndex' = UsedIndex
    BY <1>3, <2>2, <2>3 DEF Shown
  <2> QED
    BY <1>2, <1>4, <2>1, <2>3, <2>4, <2>5 DEF SignalInv, HandlerPlaced, CompletionSignalled
<1>8. ASSUME disk'.irq \/ (UsedIndex' = UsedIndex /\ disk'.irq = disk.irq), plic' = plic,
             driver'.handler = "out", driver.handler = "out", driver'.ready = driver.ready,
             driver'.seen = driver.seen
      PROVE  SignalInv'
  BY <1>2, <1>4, <1>8 DEF SignalInv, HandlerPlaced, CompletionSignalled
<1>9. ASSUME Notified  PROVE disk'.irq \/ (UsedIndex' = UsedIndex /\ disk'.irq = disk.irq)
  <2> DEFINE r == Notify(disk, queue, queue.request[disk.head])
  <2>1. disk' = r[1] /\ queue' = r[2]
    BY <1>9 DEF Notified
  <2>2. queue.request[disk.head] \in Requests
    BY <1>1 DEF DiskState, QueueState
  <2>3. r[1].irq \/ (Shown(r[1], r[2]) = Shown(disk, queue) /\ r[1].irq = disk.irq)
    BY <1>1, <2>2, NotifySignals
  <2> HIDE DEF r
  <2> QED  BY <1>3, <2>1, <2>3
<1>10. CASE NotifyDisk
  <2>1. /\ plic' = plic /\ Notified /\ driver.handler = "out"
        /\ driver' = [driver EXCEPT !.owed = @ - 1]
    BY <1>10 DEF NotifyDisk
  <2>2. driver'.ready = driver.ready /\ driver'.handler = "out" /\ driver'.seen = driver.seen
    BY <1>1, <2>1 DEF Driver
  <2> QED  BY <1>8, <1>9, <2>1, <2>2
<1>11. CASE StrayStore
  <2>1. plic' = plic /\ driver.handler = "out" /\ driver' = driver
    BY <1>11 DEF StrayStore
  <2>2. ASSUME NEW request, disk' = Command(disk, request), queue' = queue  PROVE disk'.irq
    BY <1>1, <2>2 DEF Command, Raise, DiskState
  <2>3. disk'.irq \/ (UsedIndex' = UsedIndex /\ disk'.irq = disk.irq)
    BY <1>9, <1>11, <2>2 DEF StrayStore
  <2> QED  BY <1>8, <2>1, <2>3
<1>12. ASSUME NEW on \in BOOLEAN, NEW raised \in SUBSET (Sources \ {VirtioSource}),
              Clock(on, raised)
       PROVE  SignalInv'
  <2> DEFINE latched == raised \cup (IF disk.irq THEN {VirtioSource} ELSE {})
  <2>1. /\ plic' = SetPending(plic, latched) /\ disk' = Ack(disk) /\ queue' = queue
        /\ \/ driver' = driver
           \/ /\ driver' = [driver EXCEPT !.handler = "claim"] /\ driver.handler = "out"
              /\ BestPendingSource(plic', "supervisor") # NoSource
    BY <1>12 DEF Clock
  <2> HIDE DEF latched
  <2>2. SameSetUp(plic, plic') /\ plic'.pending = plic.pending \cup latched
    BY <1>1, <2>1 DEF SetPending, PlicState, SameSetUp
  <2>3. ~disk'.irq /\ disk'.usedIdx = disk.usedIdx /\ disk'.place = disk.place
    BY <1>1, <2>1 DEF Ack, DiskState
  <2>4. UsedIndex' = UsedIndex
    BY <1>3, <2>1, <2>3 DEF Shown
  <2>5. /\ driver'.ready = driver.ready /\ driver'.seen = driver.seen
        /\ \/ driver'.handler = driver.handler
           \/ /\ driver'.handler = "claim" /\ driver.handler = "out"
              /\ BestPendingSource(plic', "supervisor") # NoSource
    BY <1>1, <2>1 DEF Driver
  <2>6. PlicSetUp'
    BY <1>2, <2>2, <2>5 DEF PlicSetUp, SameSetUp
  <2>7. driver'.handler # "out" => driver'.ready
    <3>1. ASSUME ~driver'.ready  PROVE BestPendingSource(plic', "supervisor") = NoSource
      BY <1>1, <2>6, <3>1, NothingEnabled DEF PlicSetUp
    <3> QED  BY <1>2, <2>5, <3>1 DEF HandlerPlaced
  <2>8. HandlerPlaced'
    BY <1>2, <2>3, <2>4, <2>5, <2>7 DEF HandlerPlaced
  <2>9. CompletionSignalled'
    BY <1>2, <2>2, <2>4, <2>5 DEF CompletionSignalled, latched
  <2> QED  BY <2>6, <2>8, <2>9 DEF SignalInv
<1>13. CASE ClaimInterrupt
  <2> DEFINE s == BestPendingSource(plic, "supervisor")
  <2>1. /\ driver.handler = "claim" /\ disk' = disk /\ queue' = queue /\ plic' = plic
        /\ driver' = [driver EXCEPT !.claimed = s,
                        !.handler = IF s = VirtioSource THEN "ack" ELSE "complete"]
    BY <1>13 DEF ClaimInterrupt
  <2>2. UsedIndex = driver.seen \/ s = VirtioSource
    BY <1>1, <1>2, <2>1, DiskGoesFirst DEF HandlerPlaced, CompletionSignalled
  <2> HIDE DEF s
  <2>3. /\ driver'.handler = IF s = VirtioSource THEN "ack" ELSE "complete"
        /\ driver'.ready = driver.ready /\ driver'.seen = driver.seen
    BY <1>1, <2>1 DEF Driver
  <2>4. UsedIndex' = UsedIndex
    BY <1>3, <2>1
  <2> QED
    BY <1>2, <1>4, <2>1, <2>2, <2>3, <2>4 DEF SignalInv, HandlerPlaced, CompletionSignalled
<1>14. CASE AckDisk
  <2>1. /\ driver.handler = "ack" /\ disk' = Ack(disk) /\ queue' = queue /\ plic' = plic
        /\ driver' = [driver EXCEPT !.handler = "look"]
    BY <1>14 DEF AckDisk
  <2>2. ~disk'.irq /\ disk'.usedIdx = disk.usedIdx /\ disk'.place = disk.place
    BY <1>1, <2>1 DEF Ack, DiskState
  <2>3. driver'.handler = "look" /\ driver'.ready = driver.ready /\ driver'.seen = driver.seen
    BY <1>1, <2>1 DEF Driver
  <2> QED
    BY <1>2, <1>4, <2>1, <2>2, <2>3 DEF SignalInv, HandlerPlaced, CompletionSignalled
<1>15. CASE TakeUsed
  <2>1. /\ driver.handler = "look" /\ disk' = disk /\ queue' = queue /\ plic' = plic
        /\ driver' = [driver EXCEPT !.seen = After(@)]
    BY <1>15 DEF TakeUsed
  <2>2. driver'.handler = "look" /\ driver'.ready = driver.ready
    BY <1>1, <2>1 DEF Driver
  <2> QED
    BY <1>2, <1>4, <2>1, <2>2 DEF SignalInv, HandlerPlaced, CompletionSignalled
<1>16. CASE LastLook
  <2>1. /\ driver.handler = "look" /\ UsedIndex = driver.seen /\ disk' = disk /\ plic' = plic
        /\ queue' \in {queue, [queue EXCEPT !.request[disk.head] = "good"]}
        /\ \E owed \in {1, driver.owed} :
             driver' = [driver EXCEPT !.handler = "complete", !.owed = owed]
    BY <1>16 DEF LastLook
  <2>2. queue'.usedIdx = queue.usedIdx
    BY <1>1, <2>1 DEF QueueState
  <2>3. driver'.handler = "complete" /\ driver'.ready = driver.ready
        /\ driver'.seen = driver.seen
    BY <1>1, <2>1 DEF Driver
  <2>4. UsedIndex' = UsedIndex
    BY <1>3, <2>1, <2>2 DEF Shown
  <2> QED
    BY <1>2, <1>4, <2>1, <2>3, <2>4 DEF SignalInv, HandlerPlaced, CompletionSignalled
<1>17. CASE CompleteInterrupt
  <2>1. /\ driver.handler = "complete" /\ disk' = disk /\ queue' = queue
        /\ plic' = StoreClaim(plic, "supervisor", driver.claimed)
        /\ driver' = [driver EXCEPT !.handler = "out", !.claimed = NoSource]
    BY <1>17 DEF CompleteInterrupt
  <2>2. SameSetUp(plic, plic')
    BY <1>1, <2>1, CompletionKeepsSetUp DEF Contexts
  <2>3. driver'.handler = "out" /\ driver'.ready = driver.ready /\ driver'.seen = driver.seen
    BY <1>1, <2>1 DEF Driver
  <2>4. UsedIndex' = UsedIndex /\ UsedIndex = driver.seen
    BY <1>2, <1>3, <2>1 DEF HandlerPlaced
  <2>5. PlicSetUp'
    BY <1>2, <2>2, <2>3 DEF PlicSetUp, SameSetUp
  <2> QED  BY <2>3, <2>4, <2>5 DEF SignalInv, HandlerPlaced, CompletionSignalled
<1>18. \/ UNCHANGED vars
       \/ \E place \in Places \ {"none"} : SetUpDisk(place)
       \/ \E h \in Heads, request \in Requests : Publish(h, request)
       \/ \E on \in BOOLEAN, raised \in SUBSET (Sources \ {VirtioSource}) : Clock(on, raised)
       \/ StrayStore \/ NotifyDisk \/ DiskHandler
  <2>1. "disk" \notin EngineIds  BY EnginesAssumption
  <2> QED
    BY <2>1
    DEF Next, NotifyEngine, Doorbell, EngineControl, EngineStatus, DoorbellStatus, Custom0,
        OfEngine, PressOrRelease, ReleaseAll, EnableKeys, AckKeys, LookAtKeys, OfKeys,
        StoreDecodeRegister, Decode, OfDecoder
<1> QED
  BY <1>5, <1>6, <1>7, <1>10, <1>11, <1>12, <1>13, <1>14, <1>15, <1>16, <1>17, <1>18
  DEF DiskHandler

(* Where no other source goes before the disk, whatever else interrupts,   *)
(* is completed and clears pending bits on its way, and for rings of any   *)
(* length: what the disk serves is shown to a driver whose interrupt is    *)
(* raised or latched, or that will look                                    *)
(* (sync_plic_pending_from_peripherals(), complete(),                      *)
(* execute_descriptor_queue(), execute_queue_notify()).                    *)
THEOREM CompletionsSignalled == DiskFirst => (Spec => []CompletionSignalled)
<1> SUFFICES ASSUME DiskFirst  PROVE Spec => []CompletionSignalled
  OBVIOUS
<1>1. SignalInv /\ DiskInv => CompletionSignalled
  BY DEF SignalInv, DiskInv, CompletionSignalled
<1>2. KeysInv /\ DiskInv /\ DiskInv' /\ SignalInv /\ [Next]_vars => SignalInv'
  BY SignalStep
<1> QED  BY <1>1, <1>2, KeysInit, KeysStep, DiskInit, DiskStep, SignalInit, PTL DEF Spec

-----------------------------------------------------------------------------
(* Lists of commands.                                                      *)

(* The solutions of the recursion by which FoldLeft is defined.            *)
IsFold(id, e, list, n, f) ==
  f = [s \in SUBSET (1 .. n) |->
         IF s = {} THEN e ELSE Entry(id, f[s \ {Max(s)}], list[Max(s)])]

LEMMA MaxOfInterval ==
  ASSUME NEW n \in Nat, NEW s \in SUBSET (1 .. n + 1), n + 1 \in s
  PROVE  Max(s) = n + 1
<1>1. \A y \in s : n + 1 >= y  OBVIOUS
<1>2. \A x \in s : (\A y \in s : x >= y) => x = n + 1
  OBVIOUS
<1> QED  BY <1>1, <1>2 DEF Max

LEMMA MaxIsIn ==
  ASSUME NEW n \in Nat, NEW s \in SUBSET (1 .. n), s # {}
  PROVE  Max(s) \in s
<1> DEFINE B == {k \in Nat : \A y \in s : k >= y}
<1>1. n \in B  OBVIOUS
<1>2. PICK m \in B : \A k \in B : m <= k
  BY <1>1, LeastNatural
<1>3. m \in s
  <2>1. PICK y \in s : TRUE  OBVIOUS
  <2>2. m >= 1 /\ m \in Nat  BY <1>2, <2>1
  <2>3. m - 1 \in Nat /\ m - 1 \notin B  BY <1>2, <2>2
  <2>4. PICK z \in s : ~(m - 1 >= z)  BY <2>3
  <2>5. z \in Nat /\ m >= z  BY <1>2
  <2> QED  BY <2>2, <2>4, <2>5
<1> QED  BY <1>2, <1>3 DEF Max

LEMMA FoldExists ==
  ASSUME NEW id, NEW e, NEW list, NEW n \in Nat
  PROVE  \E f : IsFold(id, e, list, n, f)
<1> DEFINE S == {k \in Nat : \E f : IsFold(id, e, list, k, f)}
<1>1. 0 \in S
  <2> DEFINE f == [s \in SUBSET (1 .. 0) |-> e]
  <2>1. \A s \in SUBSET (1 .. 0) : s = {}  OBVIOUS
  <2>2. f = [s \in SUBSET (1 .. 0) |->
               IF s = {} THEN e ELSE Entry(id, f[s \ {Max(s)}], list[Max(s)])]
    BY <2>1
  <2> HIDE DEF f
  <2>3. IsFold(id, e, list, 0, f)  BY <2>2 DEF IsFold
  <2> QED  BY <2>3
<1>2. ASSUME NEW k \in S  PROVE k + 1 \in S
  <2>1. k \in Nat /\ \E f : IsFold(id, e, list, k, f)  OBVIOUS
  <2>2. PICK f : IsFold(id, e, list, k, f)  BY <2>1
  <2> DEFINE g == [s \in SUBSET (1 .. k + 1) |->
                     IF k + 1 \in s THEN Entry(id, f[s \ {k + 1}], list[k + 1]) ELSE f[s]]
  <2>3. ASSUME NEW s \in SUBSET (1 .. k + 1)
        PROVE  g[s] = IF s = {} THEN e ELSE Entry(id, g[s \ {Max(s)}], list[Max(s)])
    <3>1. CASE k + 1 \in s
      <4>1. Max(s) = k + 1  BY <2>1, <3>1, MaxOfInterval
      <4>2. s \ {k + 1} \in SUBSET (1 .. k + 1) /\ k + 1 \notin s \ {k + 1}  OBVIOUS
      <4>3. g[s \ {k + 1}] = f[s \ {k + 1}]  BY <4>2
      <4> QED  BY <3>1, <4>1, <4>3
    <3>2. CASE k + 1 \notin s
      <4>1. s \in SUBSET (1 .. k)  BY <2>1, <3>2
      <4>2. g[s] = f[s]  BY <3>2
      <4>3. f[s] = IF s = {} THEN e ELSE Entry(id, f[s \ {Max(s)}], list[Max(s)])
        BY <2>2, <4>1 DEF IsFold
      <4>4. CASE s = {}  BY <4>2, <4>3, <4>4
      <4>5. CASE s # {}
        <5>1. s \ {Max(s)} \in SUBSET (1 .. k + 1) /\ k + 1 \notin s \ {Max(s)}  BY <3>2
        <5>2. g[s \ {Max(s)}] = f[s \ {Max(s)}]  BY <5>1
        <5> QED  BY <4>2, <4>3, <4>5, <5>2
      <4> QED  BY <4>4, <4>5
    <3> QED  BY <3>1, <3>2
  <2>4. g = [s \in SUBSET (1 .. k + 1) |->
               IF s = {} THEN e ELSE Entry(id, g[s \ {Max(s)}], list[Max(s)])]
    <3>1. g = [s \in SUBSET (1 .. k + 1) |-> g[s]]  OBVIOUS
    <3> HIDE DEF g
    <3> QED  BY <2>3, <3>1
  <2> HIDE DEF g
  <2>5. IsFold(id, e, list, k + 1, g)  BY <2>4 DEF IsFold
  <2> QED  BY <2>1, <2>5
<1>3. S = Nat
  <2> HIDE DEF S
  <2>1. S \in SUBSET Nat  BY DEF S
  <2> QED  BY <1>1, <1>2, <2>1, SetInduction
<1> QED  BY <1>3

(* A list runs entry by entry.                                             *)
IsRun(id, e, list, a) ==
  /\ a = [n \in 0 .. Len(list) |-> a[n]]
  /\ a[0] = e
  /\ \A n \in 1 .. Len(list) : a[n] = Entry(id, a[n - 1], list[n])

LEMMA ListRuns ==
  ASSUME NEW id, NEW e, NEW K, NEW list \in Seq(K)
  PROVE  \E a : IsRun(id, e, list, a) /\ RunList(id, e, list) = a[Len(list)]
<1> DEFINE f == CHOOSE g : IsFold(id, e, list, Len(list), g)
           a == [n \in 0 .. Len(list) |-> f[1 .. n]]
<1>1. Len(list) \in Nat /\ DOMAIN list = 1 .. Len(list)  OBVIOUS
<1>2. RunList(id, e, list) = f[1 .. Len(list)]
  BY <1>1 DEF RunList, FoldLeft, MapThenFoldSet, IsFold
<1>3. IsFold(id, e, list, Len(list), f)
  BY <1>1, FoldExists
<1> HIDE DEF f
<1>4. a[0] = e
  <2>1. 1 .. 0 = {} /\ 0 \in 0 .. Len(list)  BY <1>1
  <2>2. {} \in SUBSET (1 .. Len(list))  OBVIOUS
  <2>3. f[{}] = e  BY <1>3, <2>2 DEF IsFold
  <2> QED  BY <2>1, <2>3
<1>5. ASSUME NEW n \in 1 .. Len(list)  PROVE a[n] = Entry(id, a[n - 1], list[n])
  <2>1. n - 1 \in Nat /\ n - 1 \in 0 .. Len(list) /\ n \in 0 .. Len(list) /\ (n - 1) + 1 = n
    BY <1>1
  <2>2. 1 .. n \in SUBSET (1 .. Len(list)) /\ 1 .. n # {} /\ n \in 1 .. n
    <3>1. \A i \in 1 .. n : i \in 1 .. Len(list)  BY <1>1
    <3>2. n \in 1 .. n  BY <1>1
    <3> QED  BY <3>1, <3>2
  <2>3. Max(1 .. n) = n
    <3>1. 1 .. n \in SUBSET (1 .. (n - 1) + 1) /\ (n - 1) + 1 \in 1 .. n  BY <2>1, <2>2
    <3> QED  BY <2>1, <3>1, MaxOfInterval
  <2>4. (1 .. n) \ {n} = 1 .. n - 1  OBVIOUS
  <2>5. f[1 .. n] = Entry(id, f[(1 .. n) \ {Max(1 .. n)}], list[Max(1 .. n)])
    BY <1>3, <2>2 DEF IsFold
  <2> QED  BY <2>1, <2>3, <2>4, <2>5
<1>6. a[Len(list)] = f[1 .. Len(list)]
  BY <1>1
<1>7. a = [n \in 0 .. Len(list) |-> a[n]]
  OBVIOUS
<1> HIDE DEF a
<1>8. IsRun(id, e, list, a)
  BY <1>4, <1>5, <1>7 DEF IsRun
<1> QED  BY <1>2, <1>6, <1>8

(* What each entry keeps the list keeps; it ends with its last entry.      *)
Stable(id, K, P) == \A x \in P, kind \in K : Entry(id, x, kind) \in P
Ends(id, K, P, f) == \E x \in P, kind \in K : f = Entry(id, x, kind)

LEMMA RunKeeps ==
  ASSUME NEW id, NEW K, NEW list \in Seq(K), NEW P, NEW e \in P, Stable(id, K, P)
  PROVE  /\ RunList(id, e, list) \in P
         /\ list # <<>> => Ends(id, K, P, RunList(id, e, list))
<1> USE DEF Stable, Ends
<1>1. PICK a : IsRun(id, e, list, a) /\ RunList(id, e, list) = a[Len(list)]
  BY ListRuns
<1>2. Len(list) \in Nat /\ \A n \in 1 .. Len(list) : list[n] \in K
  OBVIOUS
<1> DEFINE S == {n \in Nat : n <= Len(list) => a[n] \in P}
<1>3. 0 \in S  BY <1>1 DEF IsRun
<1>4. ASSUME NEW n \in S  PROVE n + 1 \in S
  <2>1. n \in Nat /\ (n <= Len(list) => a[n] \in P)  OBVIOUS
  <2>2. SUFFICES ASSUME n + 1 <= Len(list)  PROVE a[n + 1] \in P
    BY <2>1
  <2>3. n + 1 \in 1 .. Len(list) /\ (n + 1) - 1 = n /\ a[n] \in P
    BY <1>2, <2>1, <2>2
  <2>4. a[n + 1] = Entry(id, a[n], list[n + 1])  BY <1>1, <2>3 DEF IsRun
  <2> QED  BY <1>2, <2>3, <2>4
<1>5. S = Nat
  <2> HIDE DEF S
  <2>1. S \in SUBSET Nat  BY DEF S
  <2> QED  BY <1>3, <1>4, <2>1, SetInduction
<1>6. \A n \in Nat : n <= Len(list) => a[n] \in P
  BY <1>5
<1>7. ASSUME list # <<>>
      PROVE  \E x \in P, kind \in K : a[Len(list)] = Entry(id, x, kind)
  <2>1. Len(list) \in 1 .. Len(list) /\ Len(list) - 1 \in Nat /\ Len(list) - 1 <= Len(list)
    BY <1>2, <1>7
  <2>2. a[Len(list)] = Entry(id, a[Len(list) - 1], list[Len(list)])
    BY <1>1, <2>1 DEF IsRun
  <2> QED  BY <1>2, <1>6, <2>1, <2>2
<1> QED  BY <1>1, <1>2, <1>6, <1>7

LEMMA Readables ==
  ASSUME NEW K, NEW list \in Seq(K)
  PROVE  /\ Readable(list) \in Seq(K \ {"unreadable"})
         /\ Readable(list) = <<>> => list = <<>> \/ Readable(list) # list
<1> DEFINE bad == {i \in 1 .. Len(list) : list[i] = "unreadable"}
<1>1. Readable(list) = IF (IF bad # {} THEN Min(bad) ELSE 0) = 0
                       THEN list ELSE SubSeq(list, 1, (IF bad # {} THEN Min(bad) ELSE 0) - 1)
  BY DEF Readable, SelectInSeq
<1>2. CASE bad = {}
  <2>1. Readable(list) = list  BY <1>1, <1>2
  <2>2. \A i \in 1 .. Len(list) : list[i] \in K \ {"unreadable"}  BY <1>2
  <2>3. list \in Seq(K \ {"unreadable"})  BY <2>2
  <2> QED  BY <2>1, <2>3
<1>3. CASE bad # {}
  <2>1. bad \in SUBSET Nat  OBVIOUS
  <2>2. PICK m \in bad : \A k \in bad : m <= k
    <3> HIDE DEF bad
    <3> QED  BY <1>3, <2>1, LeastNatural
  <2>3. Min(bad) \in bad /\ \A k \in bad : Min(bad) <= k
    BY <2>2 DEF Min
  <2> DEFINE n == Min(bad)
  <2>4. n \in 1 .. Len(list) /\ n # 0 /\ list[n] = "unreadable"  BY <2>3
  <2>5. Readable(list) = SubSeq(list, 1, n - 1)  BY <1>1, <1>3, <2>4
  <2>6. \A i \in 1 .. n - 1 : list[i] \in K \ {"unreadable"}
    <3> SUFFICES ASSUME NEW i \in 1 .. n - 1  PROVE list[i] \in K \ {"unreadable"}
      OBVIOUS
    <3> HIDE DEF n
    <3>1. i \in 1 .. Len(list) /\ ~(n <= i)  BY <2>4
    <3>2. i \notin bad  BY <2>3, <3>1 DEF n
    <3> QED  BY <3>1, <3>2
  <2> HIDE DEF n
  <2>7. SubSeq(list, 1, n - 1) = [i \in 1 .. n - 1 |-> list[i]]
    BY <2>4
  <2>8. [i \in 1 .. n - 1 |-> list[i]] \in Seq(K \ {"unreadable"})
    <3>1. n - 1 \in Nat  BY <2>4
    <3> QED  BY <2>6, <3>1
  <2>9. Len(SubSeq(list, 1, n - 1)) = n - 1 /\ n - 1 # Len(list)
    BY <2>4
  <2> QED  BY <2>5, <2>7, <2>8, <2>9
<1> QED  BY <1>2, <1>3

-----------------------------------------------------------------------------
(* One command.                                                            *)
Ids == {"npu", "lpu", "gpu", "tpu"}
Runnable(id) == IF id \in Tensor THEN Kinds(id) \ {"unreadable"} ELSE Kinds(id)
Statuses == SUBSET {"BUSY", "DONE", "ERROR", "IRQ"}
Explained(e) == "ERROR" \in e.status => e.code \in {1, 2}
Total(e) == e.done + e.errors

LEMMA Counted ==
  ASSUME NEW e \in EngineState, NEW done \in {0, 1}, NEW errors \in {0, 1}
  PROVE  /\ Count(e, done, errors) \in EngineState
         /\ Count(e, done, errors).status = e.status
         /\ Count(e, done, errors).code = e.code
         /\ Count(e, done, errors).irqEn = e.irqEn
<1>1. (e.done + done) % CounterMod \in Counters /\ (e.errors + errors) % CounterMod \in Counters
  BY EnginesAssumption DEF EngineState, Counters
<1> QED  BY <1>1 DEF Count, EngineState

LEMMA Finished ==
  ASSUME NEW e \in EngineState, NEW bits \in SUBSET {"DONE", "ERROR"}
  PROVE  /\ Finish(e, bits) \in EngineState
         /\ Finish(e, bits).code = e.code /\ Finish(e, bits).irqEn = e.irqEn
         /\ Finish(e, bits).done = e.done /\ Finish(e, bits).errors = e.errors
         /\ "BUSY" \notin Finish(e, bits).status
         /\ "IRQ" \in e.status => "IRQ" \in Finish(e, bits).status
         /\ "ERROR" \in Finish(e, bits).status <=> "ERROR" \in e.status \cup bits
<1> DEFINE st == (e.status \ {"BUSY"}) \cup bits \cup (IF e.irqEn THEN {"IRQ"} ELSE {})
<1>1. e.status \in Statuses  BY DEF EngineState, Statuses
<1>2. st \in Statuses  BY <1>1 DEF Statuses
<1>3. /\ "BUSY" \notin st
      /\ "IRQ" \in e.status => "IRQ" \in st
      /\ "ERROR" \in st <=> "ERROR" \in e.status \cup bits
  OBVIOUS
<1>4. Finish(e, bits) = [e EXCEPT !.status = st]  BY DEF Finish, EngineState
<1> HIDE DEF st
<1> QED  BY <1>2, <1>3, <1>4 DEF EngineState, Statuses

LEMMA Begun ==
  ASSUME NEW e \in EngineState, NEW cleared \in SUBSET {"DONE", "ERROR"}
  PROVE  /\ Begin(e, cleared) \in EngineState
         /\ Begin(e, cleared).code = e.code /\ Begin(e, cleared).irqEn = e.irqEn
         /\ Begin(e, cleared).done = e.done /\ Begin(e, cleared).errors = e.errors
         /\ "IRQ" \in e.status => "IRQ" \in Begin(e, cleared).status
         /\ "ERROR" \in Begin(e, cleared).status <=> "ERROR" \in e.status \ cleared
<1> DEFINE st == (e.status \cup {"BUSY"}) \ cleared
<1>1. e.status \in Statuses  BY DEF EngineState, Statuses
<1>2. st \in Statuses  BY <1>1 DEF Statuses
<1>3. /\ "IRQ" \in e.status => "IRQ" \in st
      /\ "ERROR" \in st <=> "ERROR" \in e.status \ cleared
  OBVIOUS
<1>4. Begin(e, cleared) = [e EXCEPT !.status = st]  BY DEF Begin, EngineState
<1> HIDE DEF st
<1> QED  BY <1>2, <1>3, <1>4 DEF EngineState, Statuses

LEMMA CountsAdd ==
  ASSUME NEW x \in Int, NEW y \in Int
  PROVE  (((x + 1) % CounterMod) + y) % CounterMod = ((x + y) + 1) % CounterMod
<1> DEFINE z == x + 1
<1>1. z \in Int /\ z + y = (x + y) + 1  OBVIOUS
<1> HIDE DEF z
<1>2. ((z % CounterMod) + y) % CounterMod = (z + y) % CounterMod
  BY <1>1, EnginesAssumption, RemainderAdds
<1> QED  BY <1>1, <1>2 DEF z

(* An entry adds one to the tasks that are done or failed.                 *)
LEMMA OneMore ==
  ASSUME NEW e \in EngineState
  PROVE  /\ Total(Count(e, 1, 0)) % CounterMod = (Total(e) + 1) % CounterMod
         /\ Total(Count(e, 0, 1)) % CounterMod = (Total(e) + 1) % CounterMod
<1>1. e.done \in 0 .. CounterMod - 1 /\ e.errors \in 0 .. CounterMod - 1
  BY DEF EngineState, Counters
<1>2. /\ Count(e, 1, 0).done = (e.done + 1) % CounterMod
      /\ Count(e, 1, 0).errors = (e.errors + 0) % CounterMod
      /\ Count(e, 0, 1).done = (e.done + 0) % CounterMod
      /\ Count(e, 0, 1).errors = (e.errors + 1) % CounterMod
  BY DEF Count, EngineState
<1>3. (e.done + 0) % CounterMod = e.done /\ (e.errors + 0) % CounterMod = e.errors
  BY <1>1, EnginesAssumption, Small
<1>4. (((e.done + 1) % CounterMod) + e.errors) % CounterMod
        = ((e.done + e.errors) + 1) % CounterMod
  BY <1>1, CountsAdd
<1>5. (((e.errors + 1) % CounterMod) + e.done) % CounterMod
        = ((e.errors + e.done) + 1) % CounterMod
  BY <1>1, CountsAdd
<1> DEFINE d == (e.done + 1) % CounterMod
           f == (e.errors + 1) % CounterMod
<1>6. d \in Int /\ f \in Int  BY <1>1, EnginesAssumption
<1>7. /\ Total(Count(e, 1, 0)) = d + e.errors /\ Total(Count(e, 0, 1)) = f + e.done
  <2>1. Count(e, 1, 0).done = d /\ Count(e, 0, 1).errors = f  BY <1>2
  <2>2. Count(e, 1, 0).errors = e.errors /\ Count(e, 0, 1).done = e.done  BY <1>2, <1>3
  <2> HIDE DEF d, f
  <2> QED  BY <1>1, <1>6, <2>1, <2>2 DEF Total
<1>8. e.done + e.errors = Total(e) /\ e.errors + e.done = Total(e)
  BY <1>1 DEF Total
<1> QED  BY <1>4, <1>5, <1>7, <1>8

LEMMA EntryDoes ==
  ASSUME NEW id \in Ids, NEW e \in EngineState, NEW kind \in Runnable(id)
  PROVE  /\ Entry(id, e, kind) \in EngineState
         /\ Explained(e) => Explained(Entry(id, e, kind))
         /\ "IRQ" \in e.status => "IRQ" \in Entry(id, e, kind).status
         /\ id \in Tensor => "BUSY" \notin Entry(id, e, kind).status
         /\ id # "npu" =>
              Total(Entry(id, e, kind)) % CounterMod = (Total(e) + 1) % CounterMod
<1>1. CASE id = "npu"
  <2>1. kind \in {"good", "unknown", "vector", "no_operand", "unreadable", "no_result"}
    BY <1>1 DEF Runnable, Tensor, Kinds
  <2>2. Entry(id, e, kind) \in {Count(e, 1, 0), Count(e, 0, 1), Count(e, 1, 1)}
    BY <1>1, <2>1 DEF Entry, NpuEntry
  <2> QED  BY <1>1, <2>2, Counted DEF Tensor, Explained
<1>2. CASE id = "lpu"
  <2>1. Entry(id, e, kind) \in {Count(e, 1, 0), Count(e, 0, 1)}
    BY <1>2 DEF Entry, LpuEntry
  <2>2. id \notin Tensor  BY <1>2 DEF Tensor
  <2>3. ASSUME NEW f, f \in {Count(e, 1, 0), Count(e, 0, 1)}
        PROVE  /\ f \in EngineState /\ f.status = e.status /\ f.code = e.code
               /\ Total(f) % CounterMod = (Total(e) + 1) % CounterMod
    <3>1. CASE f = Count(e, 1, 0)
      <4>1. f \in EngineState /\ f.status = e.status /\ f.code = e.code
        BY <3>1, Counted
      <4> QED  BY <3>1, <4>1, OneMore, Zenon
    <3>2. CASE f = Count(e, 0, 1)
      <4>1. f \in EngineState /\ f.status = e.status /\ f.code = e.code
        BY <3>2, Counted
      <4> QED  BY <3>2, <4>1, OneMore, Zenon
    <3> QED  BY <2>3, <3>1, <3>2
  <2> QED  BY <2>1, <2>2, <2>3, Zenon DEF Explained
<1>3. CASE id \in Tensor
  <2> DEFINE b == Begin(e, {"DONE", "ERROR"})
             c == [b EXCEPT !.code = 3]
  <2>1. kind \in {"good", "unknown", "bad_size", "no_operand", "no_result"}
    BY <1>3 DEF Runnable, Tensor, Kinds
  <2>2. /\ b \in EngineState /\ Total(b) = Total(e)
        /\ "ERROR" \notin b.status /\ ("IRQ" \in e.status => "IRQ" \in b.status)
    BY Begun DEF Total
  <2>3. \A code \in 0 .. 3 :
          /\ [b EXCEPT !.code = code] \in EngineState
          /\ Total([b EXCEPT !.code = code]) = Total(b)
          /\ [b EXCEPT !.code = code].status = b.status
          /\ [b EXCEPT !.code = code].code = code
    BY <2>2 DEF EngineState, Total
  <2>4. Entry(id, e, kind) \in {Finish(Count(b, 1, 0), {"DONE"}), Finish(Count(c, 1, 0), {"DONE"}),
                                Failed(b, 1), Failed(b, 2)}
    BY <1>3, <2>1 DEF Entry, TensorEntry, Tensor
  <2>8. c \in EngineState /\ Total(c) = Total(b) /\ c.status = b.status
    BY <2>3
  <2> HIDE DEF b, c
  <2>5. ASSUME NEW f \in {b, c}, Entry(id, e, kind) = Finish(Count(f, 1, 0), {"DONE"})
        PROVE  /\ Entry(id, e, kind) \in EngineState
               /\ Explained(Entry(id, e, kind))
               /\ "IRQ" \in e.status => "IRQ" \in Entry(id, e, kind).status
               /\ "BUSY" \notin Entry(id, e, kind).status
               /\ Total(Entry(id, e, kind)) % CounterMod = (Total(e) + 1) % CounterMod
    <3>1. f \in EngineState /\ Total(f) = Total(e) /\ f.status = b.status
      BY <2>2, <2>8
    <3> DEFINE g == Count(f, 1, 0)
    <3>2. g \in EngineState /\ g.status = b.status
          /\ Total(g) % CounterMod = (Total(e) + 1) % CounterMod
      BY <3>1, Counted, OneMore
    <3> HIDE DEF g
    <3>3. Entry(id, e, kind) = Finish(g, {"DONE"})  BY <2>5 DEF g
    <3> QED  BY <2>2, <3>2, <3>3, Finished DEF Explained, Total
  <2>6. ASSUME NEW code \in {1, 2}, Entry(id, e, kind) = Failed(b, code)
        PROVE  /\ Entry(id, e, kind) \in EngineState
               /\ Explained(Entry(id, e, kind))
               /\ "IRQ" \in e.status => "IRQ" \in Entry(id, e, kind).status
               /\ "BUSY" \notin Entry(id, e, kind).status
               /\ Total(Entry(id, e, kind)) % CounterMod = (Total(e) + 1) % CounterMod
    <3> DEFINE f == [b EXCEPT !.code = code]
               g == Count(f, 0, 1)
    <3>1. f \in EngineState /\ Total(f) = Total(e) /\ f.status = b.status /\ f.code = code
      BY <2>2, <2>3
    <3> HIDE DEF f
    <3>2. g \in EngineState /\ g.status = b.status /\ g.code = code
          /\ Total(g) % CounterMod = (Total(e) + 1) % CounterMod
      BY <3>1, Counted, OneMore
    <3>3. Entry(id, e, kind) = Finish(g, {"DONE", "ERROR"})  BY <2>6 DEF g, f, Failed
    <3> HIDE DEF g
    <3> QED  BY <2>2, <3>2, <3>3, Finished DEF Explained, Total
  <2> QED  BY <2>4, <2>5, <2>6 DEF c
<1> QED  BY <1>1, <1>2, <1>3 DEF Ids, Tensor

(* A list of n commands adds n.                                            *)
LEMMA RunCounts ==
  ASSUME NEW id \in Ids \ {"npu"}, NEW e \in EngineState, NEW list \in Seq(Runnable(id))
  PROVE  Total(RunList(id, e, list)) % CounterMod = (Total(e) + Len(list)) % CounterMod
<1>1. PICK a : IsRun(id, e, list, a) /\ RunList(id, e, list) = a[Len(list)]
  BY ListRuns
<1>2. Len(list) \in Nat /\ \A n \in 1 .. Len(list) : list[n] \in Runnable(id)
  OBVIOUS
<1>3. \A x \in EngineState : Total(x) \in Int
  BY DEF EngineState, Counters, Total
<1> DEFINE Good(n) == /\ a[n] \in EngineState
                      /\ Total(a[n]) % CounterMod = (Total(e) + n) % CounterMod
           S == {n \in Nat : n <= Len(list) => Good(n)}
<1>4. 0 \in S
  <2>1. a[0] = e /\ Total(e) + 0 = Total(e)  BY <1>1, <1>3 DEF IsRun
  <2> QED  BY <2>1
<1>5. ASSUME NEW n \in S  PROVE n + 1 \in S
  <2>1. n \in Nat /\ (n <= Len(list) => Good(n))  OBVIOUS
  <2>2. SUFFICES ASSUME n + 1 <= Len(list)  PROVE Good(n + 1)
    BY <2>1
  <2>3. n + 1 \in 1 .. Len(list) /\ (n + 1) - 1 = n /\ Good(n)
    BY <1>2, <2>1, <2>2
  <2>4. a[n + 1] = Entry(id, a[n], list[n + 1])  BY <1>1, <2>3 DEF IsRun
  <2>5. /\ a[n + 1] \in EngineState
        /\ Total(a[n + 1]) % CounterMod = (Total(a[n]) + 1) % CounterMod
    BY <1>2, <2>3, <2>4, EntryDoes
  <2> DEFINE t == Total(a[n])
             u == Total(e) + n
  <2>6. t \in Int /\ u \in Int /\ t % CounterMod = u % CounterMod
    BY <1>3, <2>1, <2>3
  <2> HIDE DEF t, u
  <2>7. (t + 1) % CounterMod = (u + 1) % CounterMod
    <3> DEFINE one == 1
    <3>1. one \in Int  OBVIOUS
    <3> HIDE DEF one
    <3>2. ((t % CounterMod) + one) % CounterMod = (t + one) % CounterMod
      BY <2>6, <3>1, EnginesAssumption, RemainderAdds
    <3>3. ((u % CounterMod) + one) % CounterMod = (u + one) % CounterMod
      BY <2>6, <3>1, EnginesAssumption, RemainderAdds
    <3> QED  BY <2>6, <3>2, <3>3 DEF one
  <2>8. u + 1 = Total(e) + (n + 1)  BY <1>3, <2>1 DEF u
  <2> QED  BY <2>5, <2>7, <2>8 DEF t
<1>6. S = Nat
  <2> HIDE DEF S
  <2>1. S \in SUBSET Nat  BY DEF S
  <2> QED  BY <1>4, <1>5, <2>1, SetInduction
<1>7. Len(list) \in S  BY <1>2, <1>6
<1>8. Good(Len(list))  BY <1>2, <1>7
<1> QED  BY <1>1, <1>8

LEMMA RunDoes ==
  ASSUME NEW id \in Ids, NEW e \in EngineState, NEW list \in Seq(Runnable(id))
  PROVE  /\ RunList(id, e, list) \in EngineState
         /\ Explained(e) => Explained(RunList(id, e, list))
         /\ "IRQ" \in e.status => "IRQ" \in RunList(id, e, list).status
         /\ id \in Tensor /\ list # <<>> => "BUSY" \notin RunList(id, e, list).status
<1> DEFINE K == Runnable(id)
           P == {x \in EngineState : /\ Explained(e) => Explained(x)
                                     /\ "IRQ" \in e.status => "IRQ" \in x.status}
<1>1. e \in P  OBVIOUS
<1>2. Stable(id, K, P)
  BY EntryDoes DEF Stable
<1>3. P \subseteq EngineState  OBVIOUS
<1>6. list \in Seq(K)  OBVIOUS
<1> HIDE DEF P, K
<1>4. /\ RunList(id, e, list) \in P
      /\ list # <<>> => Ends(id, K, P, RunList(id, e, list))
  BY <1>1, <1>2, <1>6, RunKeeps
<1>5. id \in Tensor /\ list # <<>> => "BUSY" \notin RunList(id, e, list).status
  BY <1>3, <1>4, EntryDoes DEF K, Ends
<1> QED  BY <1>4, <1>5 DEF P

(* A store to NOTIFY.                                                      *)
LEMMA RingDoes ==
  ASSUME NEW id \in Ids, NEW e \in EngineState, NEW list \in Seq(Kinds(id))
  PROVE  LET f == Ring(id, e, list).engine
         IN  /\ f \in EngineState
             /\ Explained(e) => Explained(f)
             /\ "IRQ" \in e.status => "IRQ" \in f.status
             /\ "BUSY" \in f.status => ~Ring(id, e, list).ok
             /\ id # "npu" /\ Ring(id, e, list).ok =>
                  Total(f) % CounterMod = (Total(e) + Len(list)) % CounterMod
<1> DEFINE b == Begin(e, {"DONE"})
           f == Ring(id, e, list).engine
<1>1. /\ b \in EngineState /\ Total(b) = Total(e)
      /\ Explained(e) => Explained(b)
      /\ "IRQ" \in e.status => "IRQ" \in b.status
  BY Begun DEF Total, Explained
<1> HIDE DEF b
<1>2. ASSUME NEW run \in Seq(Runnable(id)),
             NEW g, g = RunList(id, b, run), f = Finish(g, {"DONE"}), f = Ring(id, e, list).engine
      PROVE  /\ f \in EngineState
             /\ Explained(e) => Explained(f)
             /\ "IRQ" \in e.status => "IRQ" \in f.status
             /\ "BUSY" \notin f.status
             /\ Total(f) = Total(g)
  <2>1. /\ g \in EngineState
        /\ Explained(b) => Explained(g)
        /\ "IRQ" \in b.status => "IRQ" \in g.status
    BY <1>1, <1>2, RunDoes
  <2> HIDE DEF f
  <2> QED  BY <1>1, <1>2, <2>1, Finished DEF Explained, Total
<1>3. CASE id = "npu"
  <2> DEFINE run == IF list # <<>> /\ Head(list) \in {"unreadable", "vector"}
                    THEN <<Head(list)>> ELSE list
  <2>1. run \in Seq(Runnable(id))
    <3>1. list \in Seq(Runnable(id))  BY <1>3 DEF Runnable, Tensor
    <3>2. list # <<>> => Head(list) \in Runnable(id)  BY <3>1
    <3> QED  BY <3>1, <3>2
  <2> HIDE DEF run
  <2>2. f = Finish(RunList("npu", b, run), {"DONE"})
    BY <1>3 DEF Ring, NpuList, run, b
  <2> HIDE DEF f
  <2> QED  BY <1>2, <1>3, <2>1, <2>2 DEF f
<1>4. CASE id = "lpu"
  <2>1. list \in Seq(Runnable(id))  BY <1>4 DEF Runnable, Tensor
  <2>2. f = Finish(RunList("lpu", b, list), {"DONE"})
    BY <1>4 DEF Ring, LpuList, b
  <2>3. Total(RunList("lpu", b, list)) % CounterMod = (Total(b) + Len(list)) % CounterMod
    BY <1>1, <1>4, <2>1, RunCounts
  <2> HIDE DEF f
  <2> QED  BY <1>1, <1>2, <1>4, <2>1, <2>2, <2>3 DEF f
<1>5. CASE id \in Tensor
  <2>1. f = TensorList(id, e, list) /\ (Ring(id, e, list).ok <=> Readable(list) = list)
    BY <1>5 DEF Ring, Tensor
  <2>2. Runnable(id) = Kinds(id) \ {"unreadable"}  BY <1>5 DEF Runnable
  <2>3. /\ Readable(list) \in Seq(Runnable(id))
        /\ Readable(list) = <<>> => list = <<>> \/ Readable(list) # list
    BY <2>2, Readables
  <2>4. CASE list = <<>>
    <3>1. f = Finish(b, {"DONE"})  BY <2>1, <2>4 DEF TensorList, b
    <3> HIDE DEF f
    <3>2. /\ f \in EngineState /\ Total(f) = Total(e) /\ "BUSY" \notin f.status
          /\ Explained(e) => Explained(f)
          /\ "IRQ" \in e.status => "IRQ" \in f.status
      BY <1>1, <3>1, Finished DEF Total, Explained
    <3>3. Total(e) + Len(list) = Total(e)
      <4>1. Total(e) \in Int  BY DEF Total, EngineState, Counters
      <4> QED  BY <2>4, <4>1
    <3> QED  BY <3>2, <3>3 DEF f
  <2>5. CASE list # <<>>
    <3> DEFINE run == Readable(list)
    <3>1. f = RunList(id, b, run)  BY <2>1, <2>5 DEF TensorList, b
    <3>2. run \in Seq(Runnable(id))  BY <2>3
    <3>3. Ring(id, e, list).ok => run = list /\ run # <<>>  BY <2>1, <2>3, <2>5
    <3> HIDE DEF f, run
    <3>4. Total(f) % CounterMod = (Total(b) + Len(run)) % CounterMod
      BY <1>1, <1>5, <3>1, <3>2, RunCounts DEF Tensor
    <3>5. /\ f \in EngineState
          /\ Explained(b) => Explained(f)
          /\ "IRQ" \in b.status => "IRQ" \in f.status
          /\ run # <<>> => "BUSY" \notin f.status
      BY <1>1, <1>5, <3>1, <3>2, RunDoes
    <3> QED  BY <1>1, <3>3, <3>4, <3>5 DEF f
  <2> QED  BY <2>4, <2>5
<1> QED  BY <1>3, <1>4, <1>5 DEF Ids, Tensor

(* A store to CONTROL.                                                     *)
LEMMA ControlDoes ==
  ASSUME NEW id \in Ids, NEW e \in EngineState, NEW irqEn \in BOOLEAN, NEW reset \in BOOLEAN,
         NEW start \in BOOLEAN, NEW kind \in Runnable(id)
  PROVE  LET f == StoreControl(id, e, irqEn, reset, start, kind)
         IN  /\ f \in EngineState
             /\ Explained(e) => Explained(f)
             /\ "IRQ" \in e.status => "IRQ" \in f.status \/ (reset /\ id \in Tensor)
             /\ "BUSY" \in f.status => "BUSY" \in e.status
<1> DEFINE f == StoreControl(id, e, irqEn, reset, start, kind)
           cleared == reset /\ id \in Tensor
           r == [e EXCEPT !.irqEn = irqEn,
                          !.status = IF reset /\ id \in Tensor THEN {} ELSE @,
                          !.code = IF reset /\ id \in Tensor THEN 0 ELSE @]
           c == IF id = "lpu" /\ kind = "unknown" THEN Count(r, 0, 1) ELSE r
<1>1. /\ r \in EngineState
      /\ r.status = (IF cleared THEN {} ELSE e.status)
      /\ r.code = (IF cleared THEN 0 ELSE e.code)
  <2> DEFINE st == IF cleared THEN {} ELSE e.status
             code == IF cleared THEN 0 ELSE e.code
  <2>1. st \in Statuses /\ code \in 0 .. 3  BY DEF EngineState, Statuses
  <2>2. r = [e EXCEPT !.irqEn = irqEn, !.status = st, !.code = code]
    BY DEF EngineState
  <2> HIDE DEF st, code, r
  <2>3. r \in EngineState /\ r.status = st /\ r.code = code
    BY <2>1, <2>2 DEF EngineState, Statuses
  <2> QED  BY <2>3 DEF st, code
<1>2. c \in EngineState /\ c.status = r.status /\ c.code = r.code
  <2> HIDE DEF r
  <2> QED  BY <1>1, Counted
<1>3. f = IF ~start THEN r ELSE IF id \in Tensor THEN TensorEntry(r, kind)
          ELSE Finish(c, {"DONE"})
  BY DEF StoreControl
<1>4. id \in Tensor => TensorEntry(r, kind) = Entry(id, r, kind)
  BY DEF Entry, Tensor
<1> HIDE DEF f, r, c
<1>5. CASE f = r  BY <1>1, <1>5 DEF Explained, f
<1>6. CASE id \in Tensor /\ f = Entry(id, r, kind)
  <2>1. /\ f \in EngineState
        /\ Explained(r) => Explained(f)
        /\ "IRQ" \in r.status => "IRQ" \in f.status
        /\ "BUSY" \notin f.status
    BY <1>1, <1>6, EntryDoes
  <2> QED  BY <1>1, <2>1 DEF Explained, f
<1>7. CASE f = Finish(c, {"DONE"})
  <2>1. /\ f \in EngineState /\ f.code = c.code
        /\ "BUSY" \notin f.status
        /\ "IRQ" \in c.status => "IRQ" \in f.status
        /\ "ERROR" \in f.status <=> "ERROR" \in c.status \cup {"DONE"}
    BY <1>2, <1>7, Finished
  <2> QED  BY <1>1, <1>2, <2>1 DEF Explained, f
<1> QED  BY <1>3, <1>4, <1>5, <1>6, <1>7

(* A store to STATUS.                                                      *)
LEMMA Cleared ==
  ASSUME NEW e \in EngineState, NEW bits
  PROVE  /\ Clear(e, bits) \in EngineState
         /\ Explained(e) => Explained(Clear(e, bits))
         /\ "BUSY" \in Clear(e, bits).status => "BUSY" \in e.status
<1> DEFINE st == e.status \ (bits \ {"BUSY"})
           code == IF "ERROR" \in bits THEN 0 ELSE e.code
<1>1. st \in Statuses /\ code \in 0 .. 3  BY DEF EngineState, Statuses
<1>2. "ERROR" \in st => "ERROR" \in e.status /\ code = e.code  OBVIOUS
<1>3. "BUSY" \in st => "BUSY" \in e.status  OBVIOUS
<1>4. Clear(e, bits) = [e EXCEPT !.status = st, !.code = code]
  BY DEF Clear, EngineState
<1> HIDE DEF st, code
<1> QED  BY <1>1, <1>2, <1>3, <1>4 DEF EngineState, Statuses, Explained

LEMMA StatusDoes ==
  ASSUME NEW e \in EngineState, NEW bits, NEW word \in BOOLEAN
  PROVE  LET f == StoreStatus(e, bits, word)
         IN  /\ f \in EngineState
             /\ Explained(e) => Explained(f)
             /\ "BUSY" \in f.status => "BUSY" \in e.status
<1> DEFINE f == Clear(e, bits)
           g == Clear(f, f.status)
<1>1. /\ f \in EngineState
      /\ Explained(e) => Explained(f)
      /\ "BUSY" \in f.status => "BUSY" \in e.status
  BY Cleared
<1>2. StoreStatus(e, bits, word) = IF word THEN g ELSE f
  BY DEF StoreStatus
<1> HIDE DEF f
<1>3. /\ g \in EngineState
      /\ Explained(f) => Explained(g)
      /\ "BUSY" \in g.status => "BUSY" \in f.status
  BY <1>1, Cleared
<1> HIDE DEF g
<1> QED  BY <1>1, <1>2, <1>3

-----------------------------------------------------------------------------
(* The doorbell.                                                           *)
LEMMA SumCounts ==
  ASSUME NEW x \in Counters, NEW y \in Int
  PROVE  (x + y) % CounterMod \in Counters
BY EnginesAssumption DEF Counters

LEMMA SubmitDoes ==
  ASSUME NEW d \in DoorState, NEW valid \in BOOLEAN, NEW id \in Ids, NEW e \in EngineState,
         NEW list \in Seq(Kinds(id))
  PROVE  LET r == Submit(d, valid, id, e, list)
         IN  /\ r.door \in DoorState /\ r.engine \in EngineState /\ r.ok \in BOOLEAN
             /\ Explained(e) => Explained(r.engine)
             /\ "IRQ" \in e.status => "IRQ" \in r.engine.status
             /\ "BUSY" \in r.engine.status \ e.status => ~r.ok
             /\ "BUSY" \in r.door.status => ~r.ok
<1> DEFINE r == Submit(d, valid, id, e, list)
           s == [d EXCEPT !.status = {"BUSY"}, !.submits = (@ + 1) % CounterMod]
           f == Ring(id, e, list).engine
           ok == Ring(id, e, list).ok
<1>1. /\ f \in EngineState
      /\ Explained(e) => Explained(f)
      /\ "IRQ" \in e.status => "IRQ" \in f.status
      /\ "BUSY" \in f.status => ~ok
  BY RingDoes
<1>2. ok \in BOOLEAN  BY DEF Ring
<1>3. s \in DoorState /\ s.status = {"BUSY"}
  <2>1. (d.submits + 1) % CounterMod \in Counters  BY SumCounts DEF DoorState
  <2> QED  BY <2>1 DEF DoorState
<1>4. r = IF valid
          THEN [door |-> IF ok THEN Added(s, e, f) ELSE s, engine |-> f, ok |-> ok]
          ELSE [door |-> [s EXCEPT !.status = {"ERROR"}, !.errors = (@ + 1) % CounterMod],
                engine |-> e, ok |-> FALSE]
  BY DEF Submit
<1> HIDE DEF r, s, f, ok
<1>5. Added(s, e, f) \in DoorState /\ "BUSY" \notin Added(s, e, f).status
  <2> DEFINE done == (f.done - e.done) % CounterMod
             errors == (f.errors - e.errors) % CounterMod
             st == {"DONE"} \cup (IF errors > 0 THEN {"ERROR"} ELSE {})
             m == (s.completes + done) % CounterMod
             n == (s.errors + errors) % CounterMod
  <2>1. done \in Int /\ errors \in Int
    BY <1>1, EnginesAssumption DEF EngineState, Counters
  <2>2. Added(s, e, f) = [s EXCEPT !.status = st, !.completes = m, !.errors = n]
    BY <1>3 DEF Added, DoorState
  <2>3. st \in SUBSET {"BUSY", "DONE", "ERROR"} /\ "BUSY" \notin st  OBVIOUS
  <2> HIDE DEF done, errors, st
  <2>4. m \in Counters /\ n \in Counters
    BY <1>3, <2>1, SumCounts DEF DoorState
  <2> HIDE DEF m, n
  <2> QED  BY <1>3, <2>2, <2>3, <2>4 DEF DoorState
<1>6. CASE valid /\ ok
  BY <1>1, <1>2, <1>4, <1>5, <1>6 DEF r
<1>7. CASE valid /\ ~ok
  BY <1>1, <1>2, <1>3, <1>4, <1>7 DEF r
<1>8. CASE ~valid
  <2> DEFINE n == (s.errors + 1) % CounterMod
  <2>1. n \in Counters  BY <1>3, SumCounts DEF DoorState
  <2>2. r.door = [s EXCEPT !.status = {"ERROR"}, !.errors = n] /\ r.engine = e /\ r.ok = FALSE
    BY <1>3, <1>4, <1>8 DEF DoorState
  <2> HIDE DEF n
  <2> QED  BY <1>3, <2>1, <2>2 DEF DoorState, r
<1> QED  BY <1>2, <1>6, <1>7, <1>8

LEMMA DoorStatusDoes ==
  ASSUME NEW d \in DoorState, NEW bits, NEW word \in BOOLEAN
  PROVE  /\ StoreDoorStatus(d, bits, word) \in DoorState
         /\ "BUSY" \in StoreDoorStatus(d, bits, word).status => "BUSY" \in d.status
         /\ StoreDoorStatus(d, bits, word).submits = d.submits
<1> DEFINE st == IF word THEN d.status \cap {"BUSY"} ELSE d.status \ (bits \ {"BUSY"})
<1>1. st \in SUBSET {"BUSY", "DONE", "ERROR"}  BY DEF DoorState
<1>2. "BUSY" \in st => "BUSY" \in d.status  OBVIOUS
<1>3. StoreDoorStatus(d, bits, word) = [d EXCEPT !.status = st]
  BY DEF StoreDoorStatus, DoorState
<1> HIDE DEF st
<1> QED  BY <1>1, <1>2, <1>3 DEF DoorState

-----------------------------------------------------------------------------
(* Accelerators and the doorbell through all steps.                        *)
EngineInv ==
  /\ user \in EngineIds \cup {"disk", "keys", "decoder"}
  /\ engine \in EngineState /\ door \in DoorState /\ failed \in BOOLEAN
  /\ ErrorExplained

(* What a step does to them, whichever it is.                              *)
IrqCleared ==
  \/ \E bits \in SUBSET Bits, word \in BOOLEAN : EngineStatus(bits, word)
  \/ user \in Tensor /\ \E irqEn, start \in BOOLEAN, kind \in Commands :
       EngineControl(irqEn, TRUE, start, kind)
EngineSteps ==
  /\ EngineInv'
  /\ "BUSY" \in engine'.status \ engine.status => failed'
  /\ "BUSY" \in door'.status \ door.status => failed'
  /\ "IRQ" \in engine.status \ engine'.status => IrqCleared

LEMMA ListsAreSequences ==
  ASSUME user \in EngineIds
  PROVE  user \in Ids /\ \A list \in Lists : list \in Seq(Kinds(user))
<1>1. user \in Ids  BY EnginesAssumption DEF Ids
<1>2. ASSUME NEW list \in Lists  PROVE list \in Seq(Kinds(user))
  <2>1. PICK n \in 0 .. Length : list \in [1 .. n -> Kinds(user)]
    BY DEF Lists
  <2>2. n \in Nat  BY DevicesAssumption
  <2> QED  BY <2>1, <2>2
<1> QED  BY <1>1, <1>2

LEMMA EngineInit == Init => EngineInv
<1> SUFFICES ASSUME Init PROVE EngineInv
  OBVIOUS
<1>1. 0 \in Counters  BY EnginesAssumption DEF Counters
<1>2. NewEngine \in EngineState  BY <1>1 DEF NewEngine, EngineState
<1>3. NewDoor \in DoorState  BY <1>1 DEF NewDoor, DoorState
<1>4. "ERROR" \notin NewEngine.status  BY DEF NewEngine
<1> HIDE DEF NewEngine, NewDoor
<1> QED  BY <1>2, <1>3, <1>4 DEF Init, EngineInv, ErrorExplained

LEMMA EngineNext == EngineInv /\ [Next]_vars => EngineSteps
<1> SUFFICES ASSUME EngineInv, [Next]_vars PROVE EngineSteps
  OBVIOUS
<1>1. ASSUME UNCHANGED <<user, engine, door, failed>>  PROVE EngineSteps
  BY <1>1 DEF EngineSteps, EngineInv, ErrorExplained
<1>2. /\ engine \in EngineState /\ door \in DoorState /\ Explained(engine)
  BY DEF EngineInv, Explained, ErrorExplained
<1>3. ASSUME OfEngine
      PROVE  /\ user \in EngineIds /\ user \in Ids /\ user' = user
             /\ \A list \in Lists : list \in Seq(Kinds(user))
  BY <1>3, ListsAreSequences DEF OfEngine
<1>4. ASSUME NEW list \in Lists, NotifyEngine(list)  PROVE EngineSteps
  <2>1. OfEngine /\ door' = door /\ engine' = Ring(user, engine, list).engine
        /\ failed' = ~Ring(user, engine, list).ok
    BY <1>4 DEF NotifyEngine
  <2>2. list \in Seq(Kinds(user)) /\ user \in Ids  BY <1>3, <2>1
  <2>3. /\ engine' \in EngineState
        /\ Explained(engine')
        /\ "IRQ" \in engine.status => "IRQ" \in engine'.status
        /\ "BUSY" \in engine'.status => failed'
    BY <1>2, <2>1, <2>2, RingDoes
  <2> QED  BY <1>2, <1>3, <2>1, <2>3 DEF EngineSteps, EngineInv, ErrorExplained, Explained
<1>5. ASSUME NEW valid \in BOOLEAN, NEW list \in Lists, Doorbell(valid, list)
      PROVE  EngineSteps
  <2> DEFINE r == Submit(door, valid, user, engine, list)
  <2>1. OfEngine /\ engine' = r.engine /\ door' = r.door /\ failed' = ~r.ok
    BY <1>5 DEF Doorbell
  <2>2. list \in Seq(Kinds(user)) /\ user \in Ids  BY <1>3, <2>1
  <2>3. /\ r.door \in DoorState /\ r.engine \in EngineState /\ r.ok \in BOOLEAN
        /\ Explained(engine) => Explained(r.engine)
        /\ "IRQ" \in engine.status => "IRQ" \in r.engine.status
        /\ "BUSY" \in r.engine.status \ engine.status => ~r.ok
        /\ "BUSY" \in r.door.status => ~r.ok
    BY <1>2, <2>2, SubmitDoes
  <2> HIDE DEF r
  <2> QED  BY <1>2, <1>3, <2>1, <2>3 DEF EngineSteps, EngineInv, ErrorExplained, Explained
<1>6. ASSUME NEW irqEn \in BOOLEAN, NEW reset \in BOOLEAN, NEW start \in BOOLEAN,
             NEW kind \in Commands, EngineControl(irqEn, reset, start, kind)
      PROVE  EngineSteps
  <2>1. OfEngine /\ door' = door /\ failed' = FALSE
        /\ engine' = StoreControl(user, engine, irqEn, reset, start, kind)
    BY <1>6 DEF EngineControl
  <2>2. user \in Ids /\ kind \in Runnable(user)
    BY <1>3, <2>1 DEF Commands, Runnable
  <2>3. /\ engine' \in EngineState
        /\ Explained(engine')
        /\ "IRQ" \in engine.status => "IRQ" \in engine'.status \/ (reset /\ user \in Tensor)
        /\ "BUSY" \in engine'.status => "BUSY" \in engine.status
    BY <1>2, <2>1, <2>2, ControlDoes
  <2>4. reset /\ user \in Tensor => IrqCleared
    BY <1>6 DEF IrqCleared
  <2> QED  BY <1>2, <1>3, <2>1, <2>3, <2>4 DEF EngineSteps, EngineInv, ErrorExplained, Explained
<1>7. CASE Custom0
  <2>1. EngineControl(FALSE, FALSE, TRUE, "good")  BY <1>7 DEF Custom0
  <2>2. "good" \in Commands  BY DEF Commands, Kinds
  <2> QED  BY <1>6, <2>1, <2>2
<1>8. ASSUME NEW bits \in SUBSET Bits, NEW word \in BOOLEAN, EngineStatus(bits, word)
      PROVE  EngineSteps
  <2>1. OfEngine /\ door' = door /\ failed' = FALSE
        /\ engine' = StoreStatus(engine, bits, word)
    BY <1>8 DEF EngineStatus
  <2>2. /\ engine' \in EngineState
        /\ Explained(engine')
        /\ "BUSY" \in engine'.status => "BUSY" \in engine.status
    BY <1>2, <2>1, StatusDoes
  <2>3. IrqCleared  BY <1>8 DEF IrqCleared
  <2> QED  BY <1>2, <1>3, <2>1, <2>2, <2>3 DEF EngineSteps, EngineInv, ErrorExplained, Explained
<1>9. ASSUME NEW bits, NEW word \in BOOLEAN, DoorbellStatus(bits, word)
      PROVE  EngineSteps
  <2>1. OfEngine /\ engine' = engine /\ failed' = FALSE
        /\ door' = StoreDoorStatus(door, bits, word)
    BY <1>9 DEF DoorbellStatus
  <2>2. door' \in DoorState /\ ("BUSY" \in door'.status => "BUSY" \in door.status)
    BY <1>2, <2>1, DoorStatusDoes
  <2> QED  BY <1>2, <1>3, <2>1, <2>2 DEF EngineSteps, EngineInv, ErrorExplained, Explained
<1>10. ASSUME OfDisk \/ OfKeys \/ OfDecoder \/ UNCHANGED vars  PROVE EngineSteps
  BY <1>1, <1>10 DEF OfDisk, OfKeys, OfDecoder, vars
<1>11. {} \in SUBSET Bits /\ "good" \in Commands
  BY DEF Commands, Kinds
<1>12. ASSUME NEW irqEn \in BOOLEAN, NEW reset \in BOOLEAN,
              \/ EngineControl(irqEn, reset, FALSE, "good")
              \/ \E kind \in Commands : EngineControl(irqEn, reset, TRUE, kind)
       PROVE  EngineSteps
  BY <1>6, <1>11, <1>12
<1>13. ASSUME \/ EngineStatus({}, TRUE) \/ DoorbellStatus({}, TRUE)
              \/ \E bits \in SUBSET Bits : EngineStatus(bits, FALSE) \/ DoorbellStatus(bits, FALSE)
       PROVE  EngineSteps
  BY <1>8, <1>9, <1>11, <1>13
<1> QED
  BY <1>4, <1>5, <1>7, <1>10, <1>12, <1>13
  DEF Next, SetUpDisk, Publish, Clock, StrayStore, NotifyDisk, DiskHandler, ClaimInterrupt,
      AckDisk, TakeUsed, LastLook, CompleteInterrupt, PressOrRelease, ReleaseAll, EnableKeys,
      AckKeys, LookAtKeys,
      StoreDecodeRegister, Decode

(* Whatever is run, cleared and reset in between, with counters of any     *)
(* width and lists of any length, an ERROR bit has its code                *)
(* (execute_once_with_memory(), write_reg()).                              *)
THEOREM ErrorsAreExplained == Spec => []ErrorExplained
<1>1. EngineInv /\ [Next]_vars => EngineInv'
  BY EngineNext DEF EngineSteps
<1>2. EngineInv => ErrorExplained
  BY DEF EngineInv
<1> QED  BY <1>1, <1>2, EngineInit, PTL DEF Spec

(* No store that succeeds leaves an accelerator or the doorbell BUSY,      *)
(* whichever list it ran (process_pending_descriptor_notify(),             *)
(* submit_acc_doorbell()).                                                 *)
THEOREM BusyIsReported == Spec => BusyReportsError
<1>1. EngineInv /\ [Next]_vars => EngineInv'
  BY EngineNext DEF EngineSteps
<1>2. EngineInv /\ [Next]_vars =>
        [/\ "BUSY" \in engine'.status \ engine.status => failed'
         /\ "BUSY" \in door'.status \ door.status => failed']_vars
  BY EngineNext DEF EngineSteps
<1> QED  BY <1>1, <1>2, EngineInit, PTL DEF Spec, BusyReportsError

(* Nothing but a store to STATUS, or a reset of a GPU or a TPU, takes an   *)
(* accelerator's interrupt back (execute_once(), write_reg()).             *)
THEOREM IrqIsHeld == Spec => IrqHeldUntilCleared
<1>1. EngineInv /\ [Next]_vars => EngineInv'
  BY EngineNext DEF EngineSteps
<1>2. EngineInv /\ [Next]_vars =>
        ["IRQ" \in engine.status \ engine'.status =>
            \/ \E bits \in SUBSET Bits, word \in BOOLEAN : EngineStatus(bits, word)
            \/ user \in Tensor /\ \E irqEn, start \in BOOLEAN, kind \in Commands :
                 EngineControl(irqEn, TRUE, start, kind)]_vars
  BY EngineNext DEF EngineSteps, IrqCleared
<1> QED  BY <1>1, <1>2, EngineInit, PTL DEF Spec, IrqHeldUntilCleared

(* What the doorbell adds is what the list added, up to whole turns of the *)
(* counters.                                                               *)
LEMMA AddsList ==
  ASSUME NEW d \in DoorState, NEW e \in EngineState, NEW f \in EngineState, NEW n \in Nat,
         Total(f) % CounterMod = (Total(e) + n) % CounterMod
  PROVE  LET a == Added(d, e, f)
         IN  (a.completes - d.completes + a.errors - d.errors) % CounterMod = n % CounterMod
<1> DEFINE p      == f.done - e.done
           q      == f.errors - e.errors
           done   == p % CounterMod
           errors == q % CounterMod
           u      == d.completes + done
           v      == d.errors + errors
           c      == u % CounterMod
           x      == v % CounterMod
           t      == Total(f)
           w      == Total(e) + n
           g      == t % CounterMod
           sum    == c - d.completes + x - d.errors
<1>1. CounterMod \in Nat \ {0}  BY EnginesAssumption
<1>2. /\ f.done \in Int /\ f.errors \in Int /\ e.done \in Int /\ e.errors \in Int
      /\ d.completes \in Int /\ d.errors \in Int
      /\ t = f.done + f.errors /\ w = e.done + e.errors + n
  BY DEF EngineState, DoorState, Counters, Total
<1>3. Added(d, e, f).completes = c /\ Added(d, e, f).errors = x
  BY DEF Added, DoorState
<1>4. p \in Int /\ q \in Int /\ t \in Int /\ w \in Int  BY <1>2
<1>5. Rest(CounterMod, w, g)  BY DEF Rest
<1> HIDE DEF p, q, t, w
<1>6. done \in Int /\ errors \in Int /\ g \in Int  BY <1>1, <1>4
<1>7. /\ Rest(CounterMod, p, done) /\ Rest(CounterMod, q, errors) /\ Rest(CounterMod, t, g)
  BY DEF Rest
<1> HIDE DEF done, errors, g
<1>8. u \in Int /\ v \in Int  BY <1>2, <1>6
<1> HIDE DEF u, v
<1>9. c \in Int /\ x \in Int  BY <1>1, <1>8
<1>10. Rest(CounterMod, u, c) /\ Rest(CounterMod, v, x)
  BY DEF Rest
<1> HIDE DEF c, x
<1>11. sum \in Int  BY <1>2, <1>9
<1>12. /\ p = f.done - e.done /\ q = f.errors - e.errors
       /\ u = d.completes + done /\ v = d.errors + errors
  BY DEF p, q, u, v
<1>13. sum % CounterMod = n % CounterMod
  <2>1. t - p - q = w - n  BY <1>2, <1>12
  <2>2. sum = (c - u) + done + (x - v) + errors
    BY <1>2, <1>6, <1>8, <1>9, <1>12
  <2> HIDE DEF sum
  <2>3. Rests(CounterMod, p, done, q, errors, u, c, v, x, t, w, g, n, sum)
    BY <1>5, <1>7, <1>10, <2>1, <2>2 DEF Rests
  <2>4. n \in Int  OBVIOUS
  <2>5. Congruent(CounterMod, sum, n)
    BY ONLY <2>3, <2>4, <1>1, <1>4, <1>6, <1>8, <1>9, <1>11, AddedUp
  <2> QED  BY <2>5 DEF Congruent
<1> QED  BY <1>3, <1>13

(* For lists of any length and counters of any width, the doorbell shows   *)
(* each command of a list that succeeds once, as completed or as failed    *)
(* (submit_acc_doorbell()).                                                *)
THEOREM RingAccounts == Spec => RingAccountsForList
<1>1. EngineInv /\ [Next]_vars => EngineInv'
  BY EngineNext DEF EngineSteps
<1>2. ASSUME EngineInv, [Next]_vars
      PROVE  [user # "npu" /\ door'.submits # door.submits /\ ~failed' =>
                \A list \in Lists : Doorbell(TRUE, list) =>
                  (door'.completes - door.completes + door'.errors - door.errors) % CounterMod
                    = Len(list) % CounterMod]_vars
  <2> SUFFICES ASSUME user # "npu", ~failed', NEW list \in Lists, Doorbell(TRUE, list)
               PROVE  (door'.completes - door.completes + door'.errors - door.errors) % CounterMod
                        = Len(list) % CounterMod
    OBVIOUS
  <2>1. /\ user \in Ids \ {"npu"} /\ list \in Seq(Kinds(user))
        /\ engine \in EngineState /\ door \in DoorState
    <3>1. user \in EngineIds  BY DEF Doorbell, OfEngine
    <3> QED  BY <1>2, <3>1, ListsAreSequences DEF EngineInv
  <2> DEFINE f == Ring(user, engine, list).engine
             s == [door EXCEPT !.status = {"BUSY"}, !.submits = (@ + 1) % CounterMod]
  <2>2. Ring(user, engine, list).ok /\ door' = Added(s, engine, f)
    BY DEF Doorbell, Submit
  <2>3. s \in DoorState /\ s.completes = door.completes /\ s.errors = door.errors
    <3>1. (door.submits + 1) % CounterMod \in Counters  BY <2>1, SumCounts DEF DoorState
    <3> QED  BY <2>1, <3>1 DEF DoorState
  <2>4. f \in EngineState /\ Total(f) % CounterMod = (Total(engine) + Len(list)) % CounterMod
    BY <2>1, <2>2, RingDoes
  <2>5. Len(list) \in Nat  BY <2>1
  <2> HIDE DEF f, s
  <2>6. LET a == Added(s, engine, f)
        IN  (a.completes - s.completes + a.errors - s.errors) % CounterMod
              = Len(list) % CounterMod
    BY <2>1, <2>3, <2>4, <2>5, AddsList
  <2> QED  BY <2>2, <2>3, <2>6
<1> QED  BY <1>1, <1>2, EngineInit, PTL DEF Spec, RingAccountsForList

-----------------------------------------------------------------------------
(* The rings of the disk.                                                  *)

(* How far index a is ahead of index s.                                    *)
Ahead(a, s) == (a - s) % IndexMod

LEMMA Moduli ==
  /\ IndexMod \in Nat \ {0} /\ QueueNum \in Nat \ {0} /\ QueueNum < IndexMod
  /\ \A a \in Indices : a \in Int /\ 0 <= a /\ a < IndexMod
BY VirtioAssumption DEF Indices

LEMMA AheadTyped ==
  ASSUME NEW a \in Indices, NEW s \in Indices
  PROVE  Ahead(a, s) \in 0 .. IndexMod - 1
BY Moduli DEF Ahead

LEMMA AheadIs ==
  ASSUME NEW a \in Indices, NEW s \in Indices
  PROVE  Ahead(a, s) = IF a >= s THEN a - s ELSE a - s + IndexMod
<1>1. a \in Int /\ s \in Int /\ 0 <= a /\ a < IndexMod /\ 0 <= s /\ s < IndexMod
      /\ IndexMod \in Nat \ {0}
  BY Moduli
<1>2. CASE a >= s
  <2>1. a - s \in 0 .. IndexMod - 1  BY <1>1, <1>2
  <2> QED  BY <1>1, <1>2, <2>1, Small DEF Ahead
<1>3. CASE a < s
  <2> DEFINE x == a - s
             y == a - s + IndexMod
             one == 1
  <2>1. x \in Int /\ y \in 0 .. IndexMod - 1 /\ y \in Int /\ one \in Int
        /\ y = x + one * IndexMod
    BY <1>1, <1>3
  <2> HIDE DEF x, y, one
  <2>2. y % IndexMod = x % IndexMod  BY <1>1, <2>1, SameRemainder
  <2>3. y % IndexMod = y  BY <1>1, <2>1, Small
  <2> QED  BY <1>1, <1>3, <2>2, <2>3 DEF x, y, Ahead
<1> QED  BY <1>1, <1>2, <1>3

LEMMA AfterIs ==
  ASSUME NEW a \in Indices
  PROVE  After(a) \in Indices /\ After(a) = IF a + 1 = IndexMod THEN 0 ELSE a + 1
<1>1. CASE a + 1 = IndexMod
  BY <1>1, Moduli DEF After, Indices
<1>2. CASE a + 1 # IndexMod
  <2>1. a + 1 \in 0 .. IndexMod - 1  BY <1>2, Moduli
  <2> QED  BY <1>2, <2>1, Moduli, Small DEF After, Indices
<1> QED  BY <1>1, <1>2

LEMMA AheadAfter ==
  ASSUME NEW a \in Indices, NEW s \in Indices, Ahead(a, s) < IndexMod - 1
  PROVE  Ahead(After(a), s) = Ahead(a, s) + 1
BY AheadIs, AfterIs, Moduli

LEMMA AheadOfNext ==
  ASSUME NEW a \in Indices, NEW s \in Indices, Ahead(a, s) > 0
  PROVE  Ahead(a, After(s)) = Ahead(a, s) - 1
BY AheadIs, AfterIs, Moduli

LEMMA AheadSame ==
  ASSUME NEW a \in Indices, NEW b \in Indices, NEW s \in Indices
  PROVE  Ahead(a, s) = Ahead(b, s) <=> a = b
BY AheadIs, Moduli

LEMMA AheadOfItself ==
  ASSUME NEW a \in Indices, NEW s \in Indices
  PROVE  Ahead(s, s) = 0 /\ (a # s => Ahead(a, s) > 0)
BY AheadIs, Moduli

(* Slots follow the indices round, if the ring divides their range.        *)
LEMMA SlotOfTurn ==
  ASSUME RingsDivide, NEW x \in Int
  PROVE  Slot(x + IndexMod) = Slot(x)
<1>1. IndexMod % QueueNum = 0 /\ IndexMod \in Nat /\ QueueNum \in Nat \ {0}
  BY VirtioAssumption DEF RingsDivide
<1> DEFINE im == IndexMod
<1>2. im \in Int /\ im % QueueNum = 0  BY <1>1
<1> HIDE DEF im
<1>6. \E k \in Int : im = k * QueueNum + (im % QueueNum)
  BY <1>1, <1>2, Remains
<1>7. PICK k \in Int : im = k * QueueNum + (im % QueueNum)
  BY <1>6
<1>3. IndexMod = k * QueueNum  BY <1>1, <1>2, <1>7 DEF im
<1> DEFINE y == x + IndexMod
<1>4. y \in Int /\ y = x + k * QueueNum  BY <1>1, <1>3
<1> HIDE DEF y
<1>5. y % QueueNum = x % QueueNum  BY <1>1, <1>4, SameRemainder
<1> QED  BY <1>5 DEF y, Slot

LEMMA SlotAhead ==
  ASSUME RingsDivide, NEW a \in Indices, NEW s \in Indices
  PROVE  Slot(s + Ahead(a, s)) = Slot(a)
<1>1. a \in Int /\ s \in Int /\ IndexMod \in Int  BY Moduli
<1>2. CASE a >= s
  <2>1. s + Ahead(a, s) = a  BY <1>1, <1>2, AheadIs
  <2> QED  BY <2>1
<1>3. CASE ~(a >= s)
  <2>1. s + Ahead(a, s) = a + IndexMod  BY <1>1, <1>3, AheadIs
  <2> QED  BY <1>1, <2>1, SlotOfTurn
<1> QED  BY <1>2, <1>3

LEMMA SlotOfNext ==
  ASSUME RingsDivide, NEW s \in Indices, NEW i \in Int
  PROVE  Slot(After(s) + i) = Slot(s + (i + 1))
<1>1. s \in Int /\ IndexMod \in Int  BY Moduli
<1>2. CASE s + 1 = IndexMod
  <2>1. s + (i + 1) = i + IndexMod /\ After(s) + i = i  BY <1>1, <1>2, AfterIs
  <2> QED  BY <1>1, <2>1, SlotOfTurn
<1>3. CASE s + 1 # IndexMod
  <2>1. s + (i + 1) = After(s) + i  BY <1>1, <1>3, AfterIs
  <2> QED  BY <2>1
<1> QED  BY <1>2, <1>3

LEMMA SlotTyped ==
  ASSUME NEW x \in Int
  PROVE  Slot(x) \in Heads
BY Moduli DEF Slot, Heads

LEMMA SlotsApart ==
  ASSUME NEW x \in Int, NEW i \in Int, NEW j \in Int, 0 <= i, i < j, j - i < QueueNum
  PROVE  Slot(x + i) # Slot(x + j)
<1> SUFFICES ASSUME Slot(x + i) = Slot(x + j) PROVE FALSE
  OBVIOUS
<1>1. QueueNum \in Nat \ {0}  BY Moduli
<1> DEFINE a == x + i
           b == x + j
<1>2. a \in Int /\ b \in Int /\ b % QueueNum = a % QueueNum  BY DEF Slot
<1> HIDE DEF a, b
<1>3. PICK k \in Int : b = a + k * QueueNum  BY <1>1, <1>2, Multiple
<1>4. k * QueueNum = j - i
  <2>1. k * QueueNum \in Int  BY <1>1
  <2> QED  BY <1>2, <1>3, <2>1 DEF a, b
<1>5. ASSUME k >= 1  PROVE FALSE
  <2>1. 1 * QueueNum <= k * QueueNum  BY <1>1, <1>5, ProductGrows
  <2> QED  BY <1>1, <1>4, <2>1
<1>6. ASSUME k <= 0  PROVE FALSE
  <2>1. 0 * QueueNum <= (0 - k) * QueueNum  BY <1>1, <1>6, ProductGrows
  <2>2. (0 - k) * QueueNum = 0 - k * QueueNum  BY <1>1
  <2> QED  BY <1>1, <1>4, <2>1, <2>2
<1> QED  BY <1>5, <1>6

(* What was served and not seen is as the driver wants it; what is         *)
(* available and not seen is in the ring, and is not there twice.          *)
ServedAt(d, q, slot) ==
  LET h == q.avail[slot]
  IN  /\ (IF d.place = "registers" THEN d.ring ELSE q.used)[slot] = h
      /\ d.place = "ram" /\ Answered(q.request[h]) => q.answer[h] = Result(q.request[h])
Apart(q, s) ==
  \A i, j \in 0 .. Ahead(q.availIdx, s) - 1 :
    i < j => q.avail[Slot(s + i)] # q.avail[Slot(s + j)]
Serviced(d, q, s) ==
  /\ RingsDivide
  /\ Ahead(d.usedIdx, s) <= Ahead(q.availIdx, s)
  /\ Ahead(q.availIdx, s) <= QueueNum
  /\ Apart(q, s)
  /\ \A i \in 0 .. Ahead(d.usedIdx, s) - 1 : ServedAt(d, q, Slot(s + i))
  /\ d.place = "ram" => q.usedIdx = d.usedIdx
  /\ d.place = "registers" =>
       /\ d.availIdx = q.availIdx /\ Ahead(q.availIdx, s) <= 1
       /\ Ahead(q.availIdx, s) = 1 => d.head = q.avail[Slot(s)]
Untouched(d, q, s) ==
  q.availIdx = 0 /\ d.availIdx = 0 /\ d.usedIdx = 0 /\ q.usedIdx = 0 /\ s = 0
RingsInv ==
  user = "disk" =>
    /\ RingsDivide
    /\ disk.place = "none" => Untouched(disk, queue, driver.seen)
    /\ disk.place \in {"ram", "registers"} => Serviced(disk, queue, driver.seen)

(* There is room for a request whose head is not in the ring.              *)
LEMMA RoomToPublish ==
  ASSUME NEW q \in QueueState, NEW s \in Indices, NEW h \in Heads, Apart(q, s),
         h \notin {q.avail[Slot(s + i)] : i \in 0 .. Ahead(q.availIdx, s) - 1}
  PROVE  Ahead(q.availIdx, s) < QueueNum
<1> DEFINE n == Ahead(q.availIdx, s)
           f == [i \in 0 .. n |-> IF i < n THEN q.avail[Slot(s + i)] ELSE h]
<1>1. n \in Nat /\ s \in Int /\ QueueNum \in Nat \ {0}
  <2>1. n \in 0 .. IndexMod - 1  BY AheadTyped DEF QueueState
  <2> QED  BY <2>1, Moduli
<1>2. \A i, j \in 0 .. n - 1 : i < j => q.avail[Slot(s + i)] # q.avail[Slot(s + j)]
  BY DEF Apart
<1>3. \A i \in 0 .. n - 1 : q.avail[Slot(s + i)] # h
  OBVIOUS
<1> HIDE DEF n
<1>4. f \in [0 .. n -> Heads]
  <2>1. \A i \in 0 .. n : q.avail[Slot(s + i)] \in Heads
    BY <1>1, SlotTyped DEF QueueState
  <2> QED  BY <2>1
<1>5. \A x, y \in 0 .. n : x < y => f[x] # f[y]
  <2> SUFFICES ASSUME NEW x \in 0 .. n, NEW y \in 0 .. n, x < y  PROVE f[x] # f[y]
    OBVIOUS
  <2>1. x \in 0 .. n - 1 /\ f[x] = q.avail[Slot(s + x)]  BY <1>1
  <2>2. CASE y < n
    <3>1. y \in 0 .. n - 1 /\ f[y] = q.avail[Slot(s + y)]  BY <1>1, <2>2
    <3> QED  BY <1>2, <2>1, <3>1
  <2>3. CASE y = n
    <3>1. f[y] = h  BY <2>3, <1>1
    <3> QED  BY <1>3, <2>1, <3>1
  <2> QED  BY <1>1, <2>2, <2>3
<1>6. /\ IsFiniteSet(0 .. n) /\ Cardinality(0 .. n) = n + 1
      /\ IsFiniteSet(Heads) /\ Cardinality(Heads) = QueueNum
  <2> DEFINE k == QueueNum - 1
  <2>1. 0 \in Int /\ n \in Int /\ k \in Int /\ ~(0 > n) /\ ~(0 > k) /\ Heads = 0 .. k
        /\ n - 0 + 1 = n + 1 /\ k - 0 + 1 = QueueNum
    BY <1>1 DEF Heads
  <2> HIDE DEF k
  <2>2. IsFiniteSet(0 .. n) /\ Cardinality(0 .. n) = IF 0 > n THEN 0 ELSE n - 0 + 1
    BY <2>1, FS_Interval
  <2>3. IsFiniteSet(0 .. k) /\ Cardinality(0 .. k) = IF 0 > k THEN 0 ELSE k - 0 + 1
    BY <2>1, FS_Interval
  <2> QED  BY <2>1, <2>2, <2>3
<1> HIDE DEF f
<1>7. ASSUME QueueNum < n + 1  PROVE FALSE
  <2>1. \E x, y \in 0 .. n : x # y /\ f[x] = f[y]
    BY <1>4, <1>6, <1>7, FS_PigeonHole
  <2>2. \A x, y \in 0 .. n : x # y => x < y \/ y < x  BY <1>1
  <2> QED  BY <1>5, <2>1, <2>2
<1> QED  BY <1>1, <1>7 DEF n

LEMMA PublishServes ==
  ASSUME NEW d \in DiskState, NEW q \in QueueState, NEW s \in Indices, NEW h \in Heads,
         NEW request \in Requests, Serviced(d, q, s), d.place \in {"ram", "registers"},
         h \notin {q.avail[Slot(s + i)] : i \in 0 .. Ahead(q.availIdx, s) - 1},
         d.place = "registers" => Ahead(q.availIdx, s) = 0
  PROVE  LET p == [q EXCEPT !.avail[Slot(q.availIdx)] = h, !.availIdx = After(@),
                            !.request[h] = request, !.answer[h] = "none"]
         IN  Serviced(IF d.place = "registers"
                      THEN [d EXCEPT !.head = h, !.availIdx = p.availIdx] ELSE d, p, s)
<1> DEFINE n == Ahead(q.availIdx, s)
           m == Ahead(d.usedIdx, s)
           p == [q EXCEPT !.avail[Slot(q.availIdx)] = h, !.availIdx = After(@),
                          !.request[h] = request, !.answer[h] = "none"]
           c == IF d.place = "registers"
                THEN [d EXCEPT !.head = h, !.availIdx = p.availIdx] ELSE d
<1>1. n \in Nat /\ m \in Nat /\ m <= n /\ n < QueueNum /\ QueueNum < IndexMod /\ s \in Int
      /\ IndexMod \in Nat /\ QueueNum \in Nat
  <2>1. n \in 0 .. IndexMod - 1 /\ m \in 0 .. IndexMod - 1
    BY AheadTyped DEF QueueState, DiskState
  <2>2. n < QueueNum  BY RoomToPublish DEF Serviced
  <2> QED  BY <2>1, <2>2, Moduli DEF Serviced
<1>2. /\ p.availIdx = After(q.availIdx)
      /\ p.avail = [q.avail EXCEPT ![Slot(q.availIdx)] = h]
      /\ p.request = [q.request EXCEPT ![h] = request]
      /\ p.answer = [q.answer EXCEPT ![h] = "none"]
      /\ p.used = q.used /\ p.usedIdx = q.usedIdx
  BY DEF QueueState
<1>3. /\ c.place = d.place /\ c.ring = d.ring /\ c.usedIdx = d.usedIdx
      /\ d.place = "registers" => c.head = h /\ c.availIdx = p.availIdx
  BY DEF DiskState
<1>4. Ahead(p.availIdx, s) = n + 1
  BY <1>1, <1>2, AheadAfter DEF QueueState
<1>5. Ahead(c.usedIdx, s) = m
  BY <1>3
<1> DEFINE slot == Slot(q.availIdx)
<1>6. slot = Slot(s + n) /\ slot \in Heads /\ \A i \in Int : Slot(s + i) \in Heads
  <2>1. RingsDivide  BY DEF Serviced
  <2> QED  BY <1>1, <2>1, SlotAhead, SlotTyped DEF QueueState
<1>7. /\ \A i, j \in 0 .. n - 1 : i < j => q.avail[Slot(s + i)] # q.avail[Slot(s + j)]
      /\ \A i \in 0 .. n - 1 : q.avail[Slot(s + i)] # h
      /\ \A i \in 0 .. m - 1 : ServedAt(d, q, Slot(s + i))
      /\ d.place = "ram" => q.usedIdx = d.usedIdx
      /\ d.place = "registers" => n = 0
  BY DEF Serviced, Apart
<1>8. q.avail \in [Heads -> Heads] /\ q.request \in [Heads -> Requests]
      /\ q.answer \in [Heads -> {"none", "ok", "error"}]
  BY DEF QueueState
<1> HIDE DEF p, c, n, m, slot
<1>9. ASSUME NEW i \in 0 .. n - 1  PROVE Slot(s + i) # slot
  <2>1. i \in Int /\ n \in Int /\ 0 <= i /\ i < n /\ n - i < QueueNum  BY <1>1
  <2>2. Slot(s + i) # Slot(s + n)  BY <1>1, <2>1, SlotsApart
  <2> QED  BY <1>6, <2>2
<1>10. /\ \A i \in 0 .. n - 1 : p.avail[Slot(s + i)] = q.avail[Slot(s + i)]
       /\ p.avail[Slot(s + n)] = h
  BY <1>1, <1>2, <1>6, <1>8, <1>9 DEF slot
<1>11. Apart(p, s)
  <2> SUFFICES ASSUME NEW i \in 0 .. n, NEW j \in 0 .. n, i < j
               PROVE  p.avail[Slot(s + i)] # p.avail[Slot(s + j)]
    BY <1>1, <1>4 DEF Apart
  <2>1. i \in 0 .. n - 1  BY <1>1
  <2>2. CASE j \in 0 .. n - 1  BY <1>7, <1>10, <2>1, <2>2
  <2>3. CASE j = n  BY <1>7, <1>10, <2>1, <2>3
  <2> QED  BY <1>1, <2>2, <2>3
<1>12. \A i \in 0 .. m - 1 : ServedAt(c, p, Slot(s + i))
  <2> SUFFICES ASSUME NEW i \in 0 .. m - 1  PROVE ServedAt(c, p, Slot(s + i))
    OBVIOUS
  <2> DEFINE t == Slot(s + i)
             g == q.avail[t]
  <2>1. i \in 0 .. n - 1  BY <1>1
  <2>2. p.avail[t] = g /\ g # h /\ g \in Heads
    BY <1>6, <1>7, <1>8, <1>10, <2>1
  <2>3. ServedAt(d, q, t)  BY <1>7
  <2> HIDE DEF t
  <2>4. p.request[g] = q.request[g] /\ p.answer[g] = q.answer[g]
    BY <1>2, <1>8, <2>2
  <2>5. ServedAt(c, p, t)
    BY <1>2, <1>3, <2>2, <2>3, <2>4 DEF ServedAt
  <2> QED  BY <2>5 DEF t
<1>13. d.place = "registers" => p.avail[Slot(s)] = h
  <2>1. s + 0 = s  BY <1>1
  <2> QED  BY <1>7, <1>10, <2>1
<1>14. Serviced(c, p, s)
  BY <1>1, <1>2, <1>3, <1>4, <1>5, <1>7, <1>11, <1>12, <1>13 DEF Serviced
<1> QED  BY <1>14 DEF c, p

(* A request is served: the oldest one, into the slot of its turn.         *)
LEMMA RingServes ==
  ASSUME NEW d \in DiskState, NEW q \in QueueState, NEW s \in Indices,
         Serviced(d, q, s), d.place = "ram"
  PROVE  LET r == ServeRings(d, q) IN Serviced(r[1], r[2], s)
<1> DEFINE n == Ahead(q.availIdx, s)
           m == Ahead(d.usedIdx, s)
           r == ServeRings(d, q)
           h == Oldest(d, q)
           a == [d EXCEPT !.availIdx = q.availIdx]
           b == [a EXCEPT !.result = Result(q.request[h])]
           u == IF Answered(q.request[h])
                THEN [q EXCEPT !.answer[h] = Result(q.request[h])] ELSE q
           w == [u EXCEPT !.used[Slot(d.usedIdx)] = h, !.usedIdx = After(d.usedIdx)]
<1>1. n \in Nat /\ m \in Nat /\ m <= n /\ n <= QueueNum /\ QueueNum < IndexMod /\ s \in Int
      /\ IndexMod \in Nat /\ QueueNum \in Nat
  <2>1. n \in 0 .. IndexMod - 1 /\ m \in 0 .. IndexMod - 1
    BY AheadTyped DEF QueueState, DiskState
  <2> QED  BY <2>1, Moduli DEF Serviced
<1>2. CASE q.availIdx = d.usedIdx
  <2>1. r = <<[a EXCEPT !.result = "error"], q>>
    BY <1>2 DEF ServeRings, Nothing
  <2> DEFINE c == [a EXCEPT !.result = "error"]
  <2>2. c.place = d.place /\ c.usedIdx = d.usedIdx /\ c.ring = d.ring
    BY DEF DiskState
  <2>3. r[1] = c /\ r[2] = q  BY <2>1
  <2> HIDE DEF c, r
  <2>4. Serviced(c, q, s)
    BY <2>2 DEF Serviced, ServedAt
  <2> QED  BY <2>3, <2>4 DEF r
<1>3. CASE q.availIdx # d.usedIdx
  <2> DEFINE c == Raise(Used(b, h))
             slot == Slot(d.usedIdx)
  <2>1. r = <<c, w>>
    BY <1>3 DEF ServeRings, Nothing
  <2>2. /\ c.place = "ram" /\ c.usedIdx = After(d.usedIdx)
    BY DEF Raise, Used, DiskState
  <2>3. /\ w.avail = q.avail /\ w.availIdx = q.availIdx /\ w.request = q.request
        /\ w.used = [q.used EXCEPT ![slot] = h]
        /\ w.usedIdx = After(d.usedIdx)
        /\ w.answer = IF Answered(q.request[h])
                      THEN [q.answer EXCEPT ![h] = Result(q.request[h])] ELSE q.answer
    BY DEF QueueState
  <2>4. m < n
    <3>1. m # n  BY <1>3, AheadSame DEF QueueState, DiskState
    <3> QED  BY <1>1, <3>1
  <2>5. /\ slot = Slot(s + m) /\ slot \in Heads /\ h = q.avail[slot]
        /\ \A i \in Int : Slot(s + i) \in Heads
    <3>1. d.usedIdx \in Indices  BY DEF DiskState
    <3>2. d.usedIdx \in Int  BY <3>1, Moduli
    <3>6. RingsDivide  BY DEF Serviced
    <3>3. slot = Slot(s + m)  BY <3>1, <3>6, SlotAhead
    <3>4. slot \in Heads  BY <3>2, SlotTyped
    <3>5. \A i \in Int : Slot(s + i) \in Heads  BY <1>1, SlotTyped
    <3> QED  BY <3>3, <3>4, <3>5 DEF Oldest
  <2>6. Ahead(c.usedIdx, s) = m + 1
    BY <1>1, <2>2, <2>4, AheadAfter DEF DiskState
  <2>7. /\ \A i, j \in 0 .. n - 1 : i < j => q.avail[Slot(s + i)] # q.avail[Slot(s + j)]
        /\ \A i \in 0 .. m - 1 : ServedAt(d, q, Slot(s + i))
    BY DEF Serviced, Apart
  <2>8. /\ q.avail \in [Heads -> Heads] /\ q.used \in [Heads -> Heads]
        /\ q.answer \in [Heads -> {"none", "ok", "error"}]
    BY DEF QueueState
  <2>9. h \in Heads  BY <2>5, <2>8
  <2>10. r[1] = c /\ r[2] = w  BY <2>1
  <2> HIDE DEF c, w, r, h, slot, n, m
  <2>11. ASSUME NEW i \in 0 .. m - 1  PROVE ServedAt(c, w, Slot(s + i))
    <3> DEFINE t == Slot(s + i)
               g == q.avail[t]
    <3>1. i \in 0 .. n - 1 /\ m \in 0 .. n - 1 /\ i < m /\ i \in Int /\ m \in Int
          /\ 0 <= i /\ m - i < QueueNum
      BY <1>1, <2>4
    <3>2. t # slot  BY <1>1, <2>5, <3>1, SlotsApart
    <3>3. g # h  BY <2>5, <2>7, <3>1
    <3>4. t \in Heads /\ g \in Heads  BY <2>5, <2>8, <3>1
    <3>5. ServedAt(d, q, t)  BY <2>7
    <3> HIDE DEF t
    <3>6. w.used[t] = q.used[t] /\ w.answer[g] = q.answer[g]
      BY <2>3, <2>8, <2>9, <3>2, <3>3, <3>4
    <3>7. ServedAt(c, w, t)
      BY <2>2, <2>3, <3>5, <3>6 DEF ServedAt
    <3> QED  BY <3>7 DEF t
  <2>12. ServedAt(c, w, Slot(s + m))
    <3>1. w.used[slot] = h /\ (Answered(q.request[h]) => w.answer[h] = Result(q.request[h]))
      BY <2>3, <2>5, <2>8, <2>9
    <3>2. ServedAt(c, w, slot)
      BY <2>2, <2>3, <2>5, <3>1 DEF ServedAt
    <3> QED  BY <2>5, <3>2
  <2>13. \A i \in 0 .. (m + 1) - 1 : ServedAt(c, w, Slot(s + i))
    <3> SUFFICES ASSUME NEW i \in 0 .. (m + 1) - 1  PROVE ServedAt(c, w, Slot(s + i))
      OBVIOUS
    <3>1. i = m \/ i \in 0 .. m - 1  BY <1>1
    <3> QED  BY <2>11, <2>12, <3>1
  <2>14. Apart(w, s)
    BY <2>3 DEF Serviced, Apart
  <2>15. Ahead(w.availIdx, s) = n  BY <2>3 DEF n
  <2>16. Serviced(c, w, s)
    BY <1>1, <2>2, <2>3, <2>4, <2>6, <2>13, <2>14, <2>15 DEF Serviced
  <2> QED  BY <2>10, <2>16 DEF r
<1> QED  BY <1>2, <1>3

LEMMA RegistersServe ==
  ASSUME NEW d \in DiskState, NEW q \in QueueState, NEW s \in Indices, NEW request \in Requests,
         Serviced(d, q, s), d.place = "registers"
  PROVE  Serviced(ServeRegisters(d, request), q, s)
<1> DEFINE n == Ahead(q.availIdx, s)
           m == Ahead(d.usedIdx, s)
           a == [d EXCEPT !.result = Result(request)]
           r == ServeRegisters(d, request)
<1>1. /\ d.availIdx = q.availIdx /\ n <= 1 /\ m <= n
      /\ n = 1 => d.head = q.avail[Slot(s)]
      /\ \A i \in 0 .. m - 1 : ServedAt(d, q, Slot(s + i))
  BY DEF Serviced
<1>2. n \in Nat /\ m \in Nat /\ s \in Int /\ IndexMod \in Nat /\ QueueNum \in Nat /\ 1 < IndexMod
  <2>1. n \in 0 .. IndexMod - 1 /\ m \in 0 .. IndexMod - 1
    BY AheadTyped DEF QueueState, DiskState
  <2> QED  BY <2>1, Moduli
<1>3. ASSUME r.place = d.place, r.usedIdx = d.usedIdx, r.ring = d.ring,
             r.availIdx = d.availIdx, r.head = d.head
      PROVE  Serviced(r, q, s)
  BY <1>3 DEF Serviced, ServedAt
<1>4. CASE r = [d EXCEPT !.result = "error"]
  BY <1>3, <1>4 DEF DiskState
<1>5. CASE r = Raise(a)
  <2>1. /\ Raise(a).place = d.place /\ Raise(a).usedIdx = d.usedIdx /\ Raise(a).ring = d.ring
        /\ Raise(a).availIdx = d.availIdx /\ Raise(a).head = d.head
    BY DEF Raise, DiskState
  <2> HIDE DEF r
  <2>2. Serviced(r, q, s)  BY <1>3, <1>5, <2>1
  <2> QED  BY <2>2 DEF r
<1>6. CASE d.availIdx # d.usedIdx /\ r = Raise(Used(a, d.head))
  <2> DEFINE slot == Slot(d.usedIdx)
  <2>1. /\ r.place = "registers" /\ r.usedIdx = After(d.usedIdx)
        /\ r.ring = [d.ring EXCEPT ![slot] = d.head]
        /\ r.availIdx = d.availIdx /\ r.head = d.head
    <3> DEFINE x == Raise(Used(a, d.head))
    <3>1. /\ x.place = "registers" /\ x.usedIdx = After(d.usedIdx)
          /\ x.ring = [d.ring EXCEPT ![slot] = d.head]
          /\ x.availIdx = d.availIdx /\ x.head = d.head
      BY DEF Raise, Used, DiskState
    <3>2. r = x  BY <1>6
    <3> HIDE DEF x, r
    <3> QED  BY <3>1, <3>2
  <2> HIDE DEF r
  <2>2. m = 0 /\ n = 1
    <3>1. m # n  BY <1>1, <1>6, AheadSame DEF QueueState, DiskState
    <3> HIDE DEF m, n
    <3> QED  BY <1>1, <1>2, <3>1
  <2>3. slot = Slot(s)
    <3>3. RingsDivide  BY DEF Serviced
    <3>1. Slot(s + m) = slot  BY <3>3, SlotAhead DEF DiskState
    <3>2. s + 0 = s  BY <1>2
    <3> QED  BY <2>2, <3>1, <3>2
  <2>4. Ahead(r.usedIdx, s) = 1
    <3>1. Ahead(d.usedIdx, s) < IndexMod - 1  BY <1>2, <2>2
    <3> QED  BY <2>1, <2>2, <3>1, AheadAfter DEF DiskState
  <2>5. r.ring[slot] = q.avail[slot]
    <3>1. slot \in Heads /\ d.ring \in [Heads -> Heads]
      BY <1>2, <2>3, SlotTyped DEF DiskState
    <3> HIDE DEF slot
    <3> QED  BY <1>1, <2>1, <2>2, <2>3, <3>1
  <2>6. ServedAt(r, q, Slot(s))
    BY <2>1, <2>3, <2>5 DEF ServedAt
  <2>7. \A i \in 0 .. 1 - 1 : ServedAt(r, q, Slot(s + i))
    <3>1. \A i \in 0 .. 1 - 1 : i = 0 /\ s + i = s  BY <1>2
    <3> QED  BY <2>6, <3>1
  <2>8. Serviced(r, q, s)
    <3> HIDE DEF slot
    <3> QED  BY <1>1, <1>2, <2>1, <2>2, <2>4, <2>7 DEF Serviced
  <2> QED  BY <2>8 DEF r
<1> QED  BY <1>4, <1>5, <1>6 DEF ServeRegisters, Nothing

(* The driver sees one more.                                               *)
LEMMA SeenServed ==
  ASSUME NEW d \in DiskState, NEW q \in QueueState, NEW s \in Indices,
         Serviced(d, q, s), Ahead(d.usedIdx, s) > 0
  PROVE  Serviced(d, q, After(s))
<1> DEFINE n == Ahead(q.availIdx, s)
           m == Ahead(d.usedIdx, s)
           z == After(s)
<1>1. n \in Nat /\ m \in Nat /\ 0 < m /\ m <= n /\ n <= QueueNum /\ s \in Int
      /\ QueueNum \in Nat
  <2>1. n \in 0 .. IndexMod - 1 /\ m \in 0 .. IndexMod - 1
    BY AheadTyped DEF QueueState, DiskState
  <2> QED  BY <2>1, Moduli DEF Serviced
<1>2. z \in Indices /\ Ahead(q.availIdx, z) = n - 1 /\ Ahead(d.usedIdx, z) = m - 1
  <2>1. q.availIdx \in Indices /\ d.usedIdx \in Indices
    BY DEF QueueState, DiskState
  <2>2. Ahead(d.usedIdx, s) > 0
    OBVIOUS
  <2>3. Ahead(q.availIdx, s) > 0
    BY <1>1
  <2>4. z \in Indices
    BY AfterIs
  <2>5. Ahead(q.availIdx, z) = n - 1
    BY ONLY <2>1, <2>3, s \in Indices, AheadOfNext
  <2>6. Ahead(d.usedIdx, z) = m - 1
    BY ONLY <2>1, <2>2, s \in Indices, AheadOfNext
  <2> QED  BY <2>4, <2>5, <2>6
<1>8. RingsDivide
  BY DEF Serviced
<1>3. \A i \in Int : Slot(z + i) = Slot(s + (i + 1))
  BY <1>8, SlotOfNext
<1>4. /\ \A i, j \in 0 .. n - 1 : i < j => q.avail[Slot(s + i)] # q.avail[Slot(s + j)]
      /\ \A i \in 0 .. m - 1 : ServedAt(d, q, Slot(s + i))
      /\ d.place = "ram" => q.usedIdx = d.usedIdx
      /\ d.place = "registers" => d.availIdx = q.availIdx /\ n <= 1
  BY DEF Serviced, Apart
<1> HIDE DEF n, m, z
<1>5. Apart(q, z)
  <2> SUFFICES ASSUME NEW i \in 0 .. (n - 1) - 1, NEW j \in 0 .. (n - 1) - 1, i < j
               PROVE  q.avail[Slot(z + i)] # q.avail[Slot(z + j)]
    BY <1>2 DEF Apart
  <2>1. /\ i \in Int /\ j \in Int /\ i + 1 \in 0 .. n - 1 /\ j + 1 \in 0 .. n - 1
        /\ i + 1 < j + 1
    BY <1>1
  <2>2. Slot(z + i) = Slot(s + (i + 1)) /\ Slot(z + j) = Slot(s + (j + 1))
    BY <1>3, <2>1
  <2> QED  BY <1>4, <2>1, <2>2
<1>6. ASSUME NEW i \in 0 .. (m - 1) - 1  PROVE ServedAt(d, q, Slot(z + i))
  <2>1. i \in Int /\ i + 1 \in 0 .. m - 1  BY <1>1
  <2>2. Slot(z + i) = Slot(s + (i + 1))  BY <1>3, <2>1
  <2> QED  BY <1>4, <2>1, <2>2
<1>7. Serviced(d, q, z)
  BY <1>1, <1>2, <1>4, <1>5, <1>6, <1>8 DEF Serviced
<1> QED  BY <1>7 DEF z

LEMMA NothingServed ==
  ASSUME RingsDivide, NEW d \in DiskState, NEW q \in QueueState, Untouched(d, q, 0)
  PROVE  Serviced(d, q, 0)
<1>1. 0 \in Indices  BY SomeIndices
<1>2. Ahead(q.availIdx, 0) = 0 /\ Ahead(d.usedIdx, 0) = 0
  BY <1>1, AheadOfItself DEF Untouched
<1>3. QueueNum \in Nat  BY Moduli
<1> QED  BY <1>2, <1>3 DEF Serviced, Apart, Untouched

(* What the rings rely on of the rest: types, and where the rings are.     *)
LEMMA DiskKnown ==
  ASSUME DiskInv, user = "disk"
  PROVE  /\ disk \in DiskState /\ queue \in QueueState /\ driver \in Driver
         /\ driver.seen \in Indices
         /\ driver.ready => disk.place # "none"
         /\ ~driver.ready => disk.place = "none"
BY DEF DiskInv, DiskTyped, UnusedUntilReady, Driver

LEMMA RingsInit == RingsDivide /\ Init => RingsInv
BY DEF Init, RingsInv, Untouched, NewDisk, NewQueue

LEMMA RingsStep == DiskInv /\ DiskInv' /\ RingsInv /\ [Next]_vars => RingsInv'
<1> SUFFICES ASSUME DiskInv, RingsInv, [Next]_vars, user = "disk", user' = "disk"
             PROVE  RingsInv'
  <2>1. ASSUME ~(user = "disk" /\ user' = "disk"), [Next]_vars  PROVE RingsInv'
    <3>1. user' = user
      BY <2>1, StepsAre
      DEF OfEngine, OfDisk, OfDecoder, PressOrRelease, ReleaseAll, EnableKeys, AckKeys,
          LookAtKeys, OfKeys, vars
    <3> QED  BY <2>1, <3>1 DEF RingsInv
  <2> QED  BY <2>1
<1>1. /\ disk \in DiskState /\ queue \in QueueState /\ driver \in Driver
      /\ driver.seen \in Indices
      /\ driver.ready => disk.place # "none"
      /\ ~driver.ready => disk.place = "none"
  BY DiskKnown
<1>2. /\ RingsDivide
      /\ disk.place = "none" => Untouched(disk, queue, driver.seen)
      /\ disk.place \in {"ram", "registers"} => Serviced(disk, queue, driver.seen)
  BY DEF RingsInv
<1>3. ASSUME disk'.place = disk.place, disk'.usedIdx = disk.usedIdx, disk'.ring = disk.ring,
             disk'.availIdx = disk.availIdx, disk'.head = disk.head, queue' = queue,
             driver'.seen = driver.seen
      PROVE  RingsInv'
  BY <1>2, <1>3 DEF RingsInv, Serviced, ServedAt, Apart, Untouched
<1>4. CASE UNCHANGED vars
  BY <1>3, <1>4 DEF vars
<1>5. ASSUME NEW place \in Places \ {"none"}, SetUpDisk(place)  PROVE RingsInv'
  <2>1. disk' = [disk EXCEPT !.place = place] /\ queue' = queue
        /\ driver' = [driver EXCEPT !.ready = TRUE] /\ ~driver.ready
    BY <1>5 DEF SetUpDisk
  <2>2. /\ disk' \in DiskState /\ disk'.place # "none"
        /\ disk'.availIdx = disk.availIdx /\ disk'.usedIdx = disk.usedIdx
        /\ driver'.seen = driver.seen
    BY <1>1, <2>1 DEF DiskState, Driver
  <2>3. Untouched(disk, queue, driver.seen)  BY <1>1, <1>2, <2>1
  <2>4. Untouched(disk', queue', 0) /\ driver'.seen = 0
    BY <2>1, <2>2, <2>3 DEF Untouched
  <2>5. Serviced(disk', queue', driver'.seen)
    BY <1>1, <1>2, <2>1, <2>2, <2>4, NothingServed
  <2> QED  BY <2>2, <2>5 DEF RingsInv
<1>6. ASSUME NEW h \in Heads, NEW request \in Requests, Publish(h, request)
      PROVE  RingsInv'
  <2> DEFINE p == [queue EXCEPT !.avail[Slot(queue.availIdx)] = h, !.availIdx = After(@),
                                !.request[h] = request, !.answer[h] = "none"]
             c == IF disk.place = "registers"
                  THEN [disk EXCEPT !.head = h, !.availIdx = p.availIdx] ELSE disk
  <2>1. queue' = p /\ disk' = c /\ driver.ready
        /\ driver' = [driver EXCEPT !.owed = @ + 1]
        /\ h \notin Waiting /\ (disk.place = "registers" => Waiting = {})
    BY <1>6 DEF Publish
  <2>2. c.place = disk.place  BY <1>1 DEF DiskState
  <2>3. driver'.seen = driver.seen  BY <1>1, <2>1 DEF Driver
  <2>4. Waiting = {queue.avail[Slot(driver.seen + i)] :
                     i \in 0 .. Ahead(queue.availIdx, driver.seen) - 1}
    BY DEF Waiting, Ahead
  <2>5. disk.place = "registers" => Ahead(queue.availIdx, driver.seen) = 0
    <3> SUFFICES ASSUME Waiting = {}  PROVE Ahead(queue.availIdx, driver.seen) = 0
      BY <2>1
    <3>1. Ahead(queue.availIdx, driver.seen) \in 0 .. IndexMod - 1
      BY <1>1, AheadTyped DEF QueueState
    <3>2. 0 \notin 0 .. Ahead(queue.availIdx, driver.seen) - 1  BY <2>4
    <3> QED  BY <3>1, <3>2, Moduli
  <2>6. CASE disk.place \in {"ram", "registers"}
    <3>1. Serviced(disk, queue, driver.seen)  BY <1>2, <2>6
    <3>2. Serviced(c, p, driver.seen)
      BY <1>1, <2>1, <2>4, <2>5, <2>6, <3>1, PublishServes
    <3> HIDE DEF c, p
    <3> QED  BY <2>1, <2>2, <2>3, <2>6, <3>2 DEF RingsInv
  <2>7. CASE disk.place \notin {"ram", "registers"}
    <3>1. disk'.place \notin {"none", "ram", "registers"}
      <4> HIDE DEF c
      <4> QED  BY <1>1, <2>1, <2>2, <2>7
    <3> QED  BY <3>1 DEF RingsInv
  <2> QED  BY <2>6, <2>7
<1>7. ASSUME Notified, driver'.seen = driver.seen  PROVE RingsInv'
  <2> DEFINE request == queue.request[disk.head]
             r == Notify(disk, queue, request)
  <2>1. request \in Requests /\ disk' = r[1] /\ queue' = r[2]
    BY <1>1, <1>7 DEF Notified, DiskState, QueueState
  <2>2. r[1].place = disk.place
    BY <1>1, <2>1, NotifySignals
  <2>3. CASE disk.place = "none"
    <3>1. r[1] = [disk EXCEPT !.result = "error"] /\ r[2] = queue  BY <2>3 DEF Notify
    <3>2. Untouched(disk, queue, driver.seen)  BY <1>2, <2>3
    <3>3. r[1].availIdx = disk.availIdx /\ r[1].usedIdx = disk.usedIdx
      BY <1>1, <3>1 DEF DiskState
    <3> HIDE DEF r
    <3> QED  BY <1>7, <2>1, <2>2, <2>3, <3>1, <3>2, <3>3 DEF RingsInv, Untouched
  <2>4. CASE disk.place = "registers"
    <3>1. r = <<ServeRegisters(disk, request), queue>>  BY <2>4 DEF Notify
    <3>2. r[1] = ServeRegisters(disk, request) /\ r[2] = queue  BY <3>1
    <3> HIDE DEF r, request
    <3>3. Serviced(disk, queue, driver.seen)  BY <1>2, <2>4
    <3>4. Serviced(ServeRegisters(disk, request), queue, driver.seen)
      BY <1>1, <2>1, <2>4, <3>3, RegistersServe
    <3> QED  BY <1>7, <2>1, <2>2, <2>4, <3>2, <3>4 DEF RingsInv
  <2>5. CASE disk.place = "ram"
    <3>1. r = ServeRings(disk, queue)  BY <2>5 DEF Notify
    <3> HIDE DEF r, request
    <3>2. Serviced(disk, queue, driver.seen)  BY <1>2, <2>5
    <3>3. Serviced(r[1], r[2], driver.seen)
      BY <1>1, <2>5, <3>1, <3>2, RingServes
    <3> QED  BY <1>7, <2>1, <2>2, <2>5, <3>3 DEF RingsInv
  <2>6. CASE disk.place \notin {"none", "ram", "registers"}
    <3> HIDE DEF r
    <3> QED  BY <2>1, <2>2, <2>6 DEF RingsInv
  <2> QED  BY <2>3, <2>4, <2>5, <2>6
<1>8. CASE NotifyDisk
  BY <1>1, <1>7, <1>8 DEF NotifyDisk, Driver
<1>9. CASE StrayStore
  <2>1. ASSUME NEW request \in Requests, disk' = Command(disk, request), queue' = queue
        PROVE  RingsInv'
    <3>1. /\ disk'.place = disk.place /\ disk'.usedIdx = disk.usedIdx /\ disk'.ring = disk.ring
          /\ disk'.availIdx = disk.availIdx /\ disk'.head = disk.head
      BY <1>1, <2>1 DEF Command, Raise, DiskState
    <3> QED  BY <1>3, <1>9, <2>1, <3>1 DEF StrayStore
  <2> QED  BY <1>7, <1>9, <2>1 DEF StrayStore, Requests
<1>10. ASSUME disk' = disk \/ disk' = Ack(disk), queue' = queue, driver'.seen = driver.seen
       PROVE  RingsInv'
  <2>1. /\ disk'.place = disk.place /\ disk'.usedIdx = disk.usedIdx /\ disk'.ring = disk.ring
        /\ disk'.availIdx = disk.availIdx /\ disk'.head = disk.head
    BY <1>1, <1>10 DEF Ack, DiskState
  <2> QED  BY <1>3, <1>10, <2>1
<1>14. ASSUME NEW on \in BOOLEAN, NEW raised \in SUBSET (Sources \ {VirtioSource}),
              Clock(on, raised)
       PROVE  RingsInv'
  BY <1>1, <1>10, <1>14 DEF Clock, Driver
<1>15. CASE ClaimInterrupt \/ AckDisk \/ CompleteInterrupt
  BY <1>1, <1>10, <1>15 DEF ClaimInterrupt, AckDisk, CompleteInterrupt, Driver
<1>11. CASE TakeUsed
  <2>1. driver'.seen = After(driver.seen) /\ disk' = disk /\ queue' = queue
        /\ UsedIndex # driver.seen
    BY <1>1, <1>11 DEF TakeUsed, Driver
  <2>2. CASE disk.place \in {"ram", "registers"}
    <3>1. Serviced(disk, queue, driver.seen)  BY <1>2, <2>2
    <3>2. disk.usedIdx # driver.seen  BY <2>1, <2>2, <3>1 DEF UsedIndex, Serviced
    <3>3. Ahead(disk.usedIdx, driver.seen) > 0
      BY <1>1, <3>2, AheadOfItself DEF DiskState
    <3>4. Serviced(disk, queue, After(driver.seen))
      BY <1>1, <3>1, <3>3, SeenServed
    <3> QED  BY <2>1, <2>2, <3>4 DEF RingsInv
  <2>3. disk.place # "none"
    BY <1>2, <2>1 DEF UsedIndex, Untouched
  <2> QED  BY <2>1, <2>2, <2>3 DEF RingsInv
<1>12. CASE LastLook
  <2>1. disk' = disk /\ driver'.seen = driver.seen
    BY <1>1, <1>12 DEF LastLook, Driver
  <2>2. CASE queue' = queue  BY <1>3, <2>1, <2>2
  <2>3. CASE disk.place = "registers" /\ queue' = [queue EXCEPT !.request[disk.head] = "good"]
    <3>1. /\ queue'.availIdx = queue.availIdx /\ queue'.avail = queue.avail
          /\ queue'.used = queue.used /\ queue'.usedIdx = queue.usedIdx
      BY <1>1, <2>3 DEF QueueState
    <3>2. Serviced(disk, queue, driver.seen)  BY <1>2, <2>3
    <3>3. Serviced(disk', queue', driver'.seen)
      BY <2>1, <2>3, <3>1, <3>2 DEF Serviced, ServedAt, Apart
    <3> QED  BY <2>1, <2>3, <3>3 DEF RingsInv
  <2> QED  BY <1>12, <2>2, <2>3 DEF LastLook
<1>13. \/ UNCHANGED vars
       \/ \E place \in Places \ {"none"} : SetUpDisk(place)
       \/ \E h \in Heads, request \in Requests : Publish(h, request)
       \/ \E on \in BOOLEAN, raised \in SUBSET (Sources \ {VirtioSource}) : Clock(on, raised)
       \/ StrayStore \/ NotifyDisk \/ DiskHandler
  <2>1. "disk" \notin EngineIds  BY EnginesAssumption
  <2> QED
    BY <2>1
    DEF Next, NotifyEngine, Doorbell, EngineControl, EngineStatus, DoorbellStatus, Custom0,
        OfEngine, PressOrRelease, ReleaseAll, EnableKeys, AckKeys, LookAtKeys, OfKeys,
        StoreDecodeRegister, Decode, OfDecoder
<1> QED
  BY <1>4, <1>5, <1>6, <1>8, <1>9, <1>11, <1>12, <1>13, <1>14, <1>15 DEF DiskHandler

(* For rings whose length divides the range of the indices, 1, 2, 4 and 8  *)
(* in the code, and indices that wrap, in RAM as in the registers:         *)
(* requests are served in the order they were made available, each once,   *)
(* and answered (execute_descriptor_queue(), execute_queue_notify()).      *)
THEOREM UsedFollowsAvailable == RingsDivide => (Spec => []UsedFollowsAvail)
<1> SUFFICES ASSUME RingsDivide  PROVE Spec => []UsedFollowsAvail
  OBVIOUS
<1>1. DiskInv /\ RingsInv => UsedFollowsAvail
  <2> SUFFICES ASSUME DiskInv, RingsInv, disk.place \in {"ram", "registers"}
               PROVE  UsedFollowsAvail
    BY DEF UsedFollowsAvail
  <2>1. user = "disk"  BY DEF DiskInv, NewDisk
  <2>2. Serviced(disk, queue, driver.seen)  BY <2>1 DEF RingsInv
  <2>3. /\ Ahead(disk.usedIdx, driver.seen) <= Ahead(queue.availIdx, driver.seen)
        /\ \A i \in 0 .. Ahead(disk.usedIdx, driver.seen) - 1 :
             ServedAt(disk, queue, Slot(driver.seen + i))
    BY <2>2 DEF Serviced
  <2> QED  BY <2>3 DEF UsedFollowsAvail, Served, Ahead, RingOf, ServedAt
<1>2. Init => RingsInv
  BY RingsInit
<1> QED
  BY <1>1, <1>2, KeysInit, KeysStep, DiskInit, DiskStep, RingsStep, PTL DEF Spec

-----------------------------------------------------------------------------
(* Sums over finite sets, as the folds take them: an element at a time, in *)
(* the order in which c chooses them.                                      *)
Chooses(T, c) == \A s \in SUBSET T : s # {} => c[s] \in s
IsSum(T, w, c, f) ==
  f = [s \in SUBSET T |-> IF s = {} THEN 0 ELSE w[c[s]] + f[s \ {c[s]}]]
SumTo(T, w, c, k, f) ==
  \A s \in SUBSET T :
    Cardinality(s) <= k => f[s] = IF s = {} THEN 0 ELSE w[c[s]] + f[s \ {c[s]}]

LEMMA LessOne ==
  ASSUME NEW T, IsFiniteSet(T), NEW s \in SUBSET T, NEW x \in s
  PROVE  /\ Cardinality(s) \in Nat /\ s \ {x} \in SUBSET T
         /\ Cardinality(s \ {x}) \in Nat /\ Cardinality(s \ {x}) = Cardinality(s) - 1
<1>1. IsFiniteSet(s) /\ IsFiniteSet(s \ {x})
  BY FS_Subset
<1>2. Cardinality(s) \in Nat /\ Cardinality(s \ {x}) \in Nat
  BY <1>1, FS_CardinalityType
<1>3. Cardinality(s \ {x}) = Cardinality(s) - 1
  BY <1>1, FS_RemoveElement
<1> QED  BY <1>2, <1>3

LEMMA NoElements ==
  ASSUME NEW T, IsFiniteSet(T), NEW s \in SUBSET T, Cardinality(s) <= 0
  PROVE  s = {}
<1>1. IsFiniteSet(s)  BY FS_Subset
<1>2. Cardinality(s) \in Nat  BY <1>1, FS_CardinalityType
<1>3. Cardinality(s) = 0  BY <1>2
<1> QED  BY <1>1, <1>3, FS_EmptySet

LEMMA SumExists ==
  ASSUME NEW T, IsFiniteSet(T), NEW w, NEW c, Chooses(T, c)
  PROVE  \E f : IsSum(T, w, c, f)
<1> DEFINE S == {k \in Nat : \E f : SumTo(T, w, c, k, f)}
<1>1. 0 \in S
  <2> DEFINE f == [s \in SUBSET T |-> 0]
  <2>1. ASSUME NEW s \in SUBSET T, Cardinality(s) <= 0  PROVE s = {}
    BY <2>1, NoElements
  <2>2. \A s \in SUBSET T :
          Cardinality(s) <= 0 => f[s] = IF s = {} THEN 0 ELSE w[c[s]] + f[s \ {c[s]}]
    BY <2>1
  <2> HIDE DEF f
  <2>3. SumTo(T, w, c, 0, f)
    BY <2>2 DEF SumTo
  <2> QED  BY <2>3
<1>2. ASSUME NEW k \in S  PROVE k + 1 \in S
  <2>1. k \in Nat /\ \E f : SumTo(T, w, c, k, f)  OBVIOUS
  <2>2. PICK f : SumTo(T, w, c, k, f)  BY <2>1
  <2> DEFINE g == [s \in SUBSET T |->
                     IF Cardinality(s) <= k THEN f[s] ELSE w[c[s]] + f[s \ {c[s]}]]
  <2>3. ASSUME NEW s \in SUBSET T, Cardinality(s) <= k + 1
        PROVE  g[s] = IF s = {} THEN 0 ELSE w[c[s]] + g[s \ {c[s]}]
    <3>1. CASE s = {}
      <4>1. Cardinality(s) = 0  BY <3>1, FS_EmptySet
      <4>2. Cardinality(s) <= k  BY <4>1, <2>1
      <4>3. g[s] = f[s]  BY <4>2
      <4>4. f[s] = 0  BY <2>2, <3>1, <4>2 DEF SumTo
      <4> QED  BY <3>1, <4>3, <4>4
    <3>2. CASE s # {}
      <4> DEFINE r == s \ {c[s]}
      <4>1. c[s] \in s  BY <3>2 DEF Chooses
      <4>2. r \in SUBSET T /\ Cardinality(s) \in Nat /\ Cardinality(r) = Cardinality(s) - 1
        BY <4>1, LessOne
      <4>3. Cardinality(r) <= k  BY <2>1, <2>3, <4>2
      <4>4. g[r] = f[r]
        <5> HIDE DEF r
        <5> QED  BY <4>2, <4>3
      <4>5. g[s] = w[c[s]] + f[r]
        <5>1. CASE Cardinality(s) <= k
          BY <2>2, <3>2, <5>1 DEF SumTo
        <5>2. CASE ~(Cardinality(s) <= k)
          BY <5>2
        <5> QED  BY <5>1, <5>2
      <4> HIDE DEF g
      <4> QED  BY <3>2, <4>4, <4>5
    <3> QED  BY <3>1, <3>2
  <2> HIDE DEF g
  <2>4. SumTo(T, w, c, k + 1, g)
    BY <2>3 DEF SumTo
  <2> QED  BY <2>1, <2>4
<1>3. S = Nat
  <2> HIDE DEF S
  <2>1. S \in SUBSET Nat  BY DEF S
  <2> QED  BY <1>1, <1>2, <2>1, SetInduction
<1>4. Cardinality(T) \in S
  BY <1>3, FS_CardinalityType
<1>5. PICK f : SumTo(T, w, c, Cardinality(T), f)
  BY <1>4
<1> DEFINE g == [s \in SUBSET T |-> f[s]]
<1>6. ASSUME NEW s \in SUBSET T
      PROVE  g[s] = IF s = {} THEN 0 ELSE w[c[s]] + g[s \ {c[s]}]
  <2>1. Cardinality(s) <= Cardinality(T)  BY FS_Subset
  <2>2. f[s] = IF s = {} THEN 0 ELSE w[c[s]] + f[s \ {c[s]}]
    BY <1>5, <2>1 DEF SumTo
  <2>3. s \ {c[s]} \in SUBSET T  OBVIOUS
  <2> QED  BY <2>2, <2>3
<1>7. g = [s \in SUBSET T |-> g[s]]
  OBVIOUS
<1> HIDE DEF g
<1>8. IsSum(T, w, c, g)
  BY <1>6, <1>7 DEF IsSum
<1> QED  BY <1>8

(* A fold may add the element on either side.                              *)
SumsUp(T, w, c, f) ==
  \A s \in SUBSET T :
    IF s = {} THEN f[s] = 0
    ELSE f[s] \in {w[c[s]] + f[s \ {c[s]}], f[s \ {c[s]}] + w[c[s]]}

LEMMA IsSumSumsUp ==
  ASSUME NEW T, NEW w, NEW c, NEW f, IsSum(T, w, c, f)
  PROVE  SumsUp(T, w, c, f)
<1> SUFFICES ASSUME NEW s \in SUBSET T
             PROVE  IF s = {} THEN f[s] = 0
                    ELSE f[s] \in {w[c[s]] + f[s \ {c[s]}], f[s \ {c[s]}] + w[c[s]]}
  BY DEF SumsUp
<1>1. f[s] = IF s = {} THEN 0 ELSE w[c[s]] + f[s \ {c[s]}]
  BY DEF IsSum
<1> QED  BY <1>1

LEMMA SumStarts ==
  ASSUME NEW T, NEW w, NEW c, NEW f, SumsUp(T, w, c, f)
  PROVE  f[{}] = 0
<1>1. {} \in SUBSET T  OBVIOUS
<1> QED  BY <1>1 DEF SumsUp

LEMMA SumChoice ==
  ASSUME NEW T, IsFiniteSet(T), NEW w, NEW c, Chooses(T, c),
         NEW f, SumsUp(T, w, c, f), NEW s \in SUBSET T, s # {}
  PROVE  /\ c[s] \in s
         /\ f[s] \in {w[c[s]] + f[s \ {c[s]}], f[s \ {c[s]}] + w[c[s]]}
BY DEF SumsUp, Chooses

(* The sum does not depend on the order.                                   *)
LEMMA SumTakes ==
  ASSUME NEW T, IsFiniteSet(T), NEW w \in [T -> Nat], NEW c, Chooses(T, c),
         NEW f, SumsUp(T, w, c, f)
  PROVE  \A s \in SUBSET T : f[s] \in Nat /\ \A x \in s : f[s] = w[x] + f[s \ {x}]
<1> DEFINE P(s) == f[s] \in Nat /\ \A x \in s : f[s] = w[x] + f[s \ {x}]
           S == {k \in Nat : \A s \in SUBSET T : Cardinality(s) <= k => P(s)}
<1>1. P({})
  BY SumStarts
<1>2. 0 \in S
  <2>1. ASSUME NEW s \in SUBSET T, Cardinality(s) <= 0  PROVE s = {}
    BY <2>1, NoElements
  <2> HIDE DEF P
  <2> QED  BY <1>1, <2>1
<1>3. ASSUME NEW k \in S  PROVE k + 1 \in S
  <2>1. k \in Nat /\ \A s \in SUBSET T : Cardinality(s) <= k => P(s)
    BY DEF S
  <2>2. ASSUME NEW s \in SUBSET T, Cardinality(s) <= k + 1, s # {}
        PROVE  P(s)
    <3>0. /\ c[s] \in s
          /\ f[s] \in {w[c[s]] + f[s \ {c[s]}], f[s \ {c[s]}] + w[c[s]]}
      BY <2>2, SumChoice
    <3>2. ASSUME NEW x \in s
          PROVE  /\ s \ {x} \in SUBSET T
                 /\ f[s \ {x}] \in Nat /\ w[x] \in Nat
                 /\ \A y \in s \ {x} : f[s \ {x}] = w[y] + f[(s \ {x}) \ {y}]
      <4>1. s \ {x} \in SUBSET T /\ Cardinality(s \ {x}) <= k
        BY <2>1, <2>2, LessOne
      <4>2. P(s \ {x})  BY <2>1, <4>1
      <4> QED  BY <4>1, <4>2
    <3>1. c[s] \in s /\ f[s] = w[c[s]] + f[s \ {c[s]}] /\ f[s] \in Nat
      <4> DEFINE z == c[s]
      <4>1. z \in s /\ f[s] \in {w[z] + f[s \ {z}], f[s \ {z}] + w[z]}  BY <3>0
      <4> HIDE DEF z
      <4>2. f[s \ {z}] \in Nat /\ w[z] \in Nat  BY <3>2, <4>1
      <4>3. z \in s /\ f[s] = w[z] + f[s \ {z}] /\ f[s] \in Nat  BY <4>1, <4>2
      <4> QED  BY <4>3 DEF z
    <3>4. ASSUME NEW x \in s  PROVE f[s] = w[x] + f[s \ {x}]
      <4> DEFINE z == c[s]
                 both == (s \ {x}) \ {z}
      <4>1. CASE x = z
        BY <3>1, <4>1
      <4>2. CASE x # z
        <5>1. x \in s \ {z} /\ z \in s \ {x} /\ (s \ {z}) \ {x} = both
          BY <3>1, <4>2
        <5>2. f[s \ {z}] = w[x] + f[both]
          <6> HIDE DEF both
          <6> QED  BY <3>1, <3>2, <5>1
        <5>3. f[s \ {x}] = w[z] + f[both]
          <6> HIDE DEF z
          <6> QED  BY <3>2, <5>1
        <5>4. f[both] \in Nat
          <6>1. both \in SUBSET T /\ Cardinality(both) <= k
            <7>1. s \ {x} \in SUBSET T /\ Cardinality(s \ {x}) = Cardinality(s) - 1
                  /\ Cardinality(s) \in Nat
              BY LessOne
            <7>2. both \in SUBSET T /\ Cardinality(both) = Cardinality(s \ {x}) - 1
              BY <5>1, <7>1, LessOne
            <7> HIDE DEF both
            <7> QED  BY <2>1, <2>2, <7>1, <7>2
          <6> HIDE DEF both
          <6> QED  BY <2>1, <6>1
        <5>5. w[x] \in Nat /\ w[z] \in Nat
          BY <3>1, <3>2
        <5>6. f[s] = w[z] + f[s \ {z}]
          BY <3>1
        <5> HIDE DEF both, z
        <5> QED  BY <5>2, <5>3, <5>4, <5>5, <5>6
      <4> QED  BY <4>1, <4>2
    <3> QED  BY <3>1, <3>4
  <2>3. \A s \in SUBSET T : Cardinality(s) <= k + 1 => P(s)
    <3> HIDE DEF P
    <3> QED  BY <1>1, <2>2
  <2> QED  BY <2>1, <2>3
<1>4. S = Nat
  <2> HIDE DEF S
  <2>1. S \in SUBSET Nat  BY DEF S
  <2> QED  BY <1>2, <1>3, <2>1, SetInduction
<1>5. \A s \in SUBSET T : P(s)
  <2>1. Cardinality(T) \in S  BY <1>4, FS_CardinalityType
  <2>2. \A s \in SUBSET T : Cardinality(s) <= Cardinality(T)  BY FS_Subset
  <2> HIDE DEF P
  <2> QED  BY <2>1, <2>2
<1> QED  BY <1>5

LEMMA SumTakesOne ==
  ASSUME NEW T, IsFiniteSet(T), NEW w \in [T -> Nat], NEW c, Chooses(T, c),
         NEW f, SumsUp(T, w, c, f), NEW s \in SUBSET T, NEW x \in s
  PROVE  f[s] = w[x] + f[s \ {x}]
BY SumTakes

LEMMA SumTyped ==
  ASSUME NEW T, IsFiniteSet(T), NEW w \in [T -> Nat], NEW c, Chooses(T, c),
         NEW f, SumsUp(T, w, c, f), NEW s \in SUBSET T
  PROVE  f[s] \in Nat
BY SumTakes

-----------------------------------------------------------------------------
(* Ranking.                                                                *)
FirstOf(k, r) == {r[j] : j \in 1 .. k}
Onto(n, r) == \A t \in 1 .. n : \E i \in 1 .. n : r[i] = t
IsRanking(n, scores, r) ==
  /\ r \in [1 .. n -> 1 .. n]
  /\ \A i, j \in 1 .. n : i < j => Before(scores, r[i], r[j])

LEMMA BeforeOrders ==
  ASSUME NEW n \in Nat, NEW scores \in [1 .. n -> Nat]
  PROVE  /\ \A s \in 1 .. n : ~Before(scores, s, s)
         /\ \A s, t \in 1 .. n : s # t => Before(scores, s, t) \/ Before(scores, t, s)
         /\ \A s, t, u \in 1 .. n :
              Before(scores, s, t) /\ Before(scores, t, u) => Before(scores, s, u)
BY DEF Before

LEMMA FiniteRange ==
  ASSUME NEW n \in Nat
  PROVE  IsFiniteSet(1 .. n) /\ Cardinality(1 .. n) = n
<1>1. 1 \in Int /\ n \in Int /\ (IF 1 > n THEN 0 ELSE n - 1 + 1) = n
  OBVIOUS
<1>2. IsFiniteSet(1 .. n) /\ Cardinality(1 .. n) = IF 1 > n THEN 0 ELSE n - 1 + 1
  BY <1>1, FS_Interval
<1> QED  BY <1>1, <1>2

LEMMA BetterCounts ==
  ASSUME NEW n \in Nat, NEW scores \in [1 .. n -> Nat], NEW t \in 1 .. n
  PROVE  /\ Better(scores, t) \in SUBSET (1 .. n)
         /\ Cardinality(Better(scores, t)) \in Nat
         /\ Cardinality(Better(scores, t)) + 1 \in 1 .. n
         /\ \A s \in 1 .. n : Before(scores, s, t) =>
              Cardinality(Better(scores, s)) < Cardinality(Better(scores, t))
<1> DEFINE b == Better(scores, t)
<1>1. b \in SUBSET (1 .. n) /\ t \notin b
  BY BeforeOrders DEF Better
<1>2. IsFiniteSet(1 .. n) /\ Cardinality(1 .. n) = n
  BY FiniteRange
<1>3. IsFiniteSet(b) /\ Cardinality(b) \in Nat /\ Cardinality(b) <= n
  BY <1>1, <1>2, FS_Subset, FS_CardinalityType
<1>4. Cardinality(b) # n
  BY <1>1, <1>2, FS_Subset
<1>5. ASSUME NEW s \in 1 .. n, Before(scores, s, t)
      PROVE  Cardinality(Better(scores, s)) < Cardinality(b)
  <2> DEFINE a == Better(scores, s)
  <2>1. a \in SUBSET b /\ s \in b /\ s \notin a
    BY <1>5, BeforeOrders DEF Better
  <2> HIDE DEF a, b
  <2>2. IsFiniteSet(a) /\ Cardinality(a) \in Nat /\ Cardinality(a) <= Cardinality(b)
    BY <1>3, <2>1, FS_Subset, FS_CardinalityType
  <2>3. Cardinality(a) # Cardinality(b)
    BY <1>3, <2>1, FS_Subset
  <2> QED  BY <1>3, <2>2, <2>3 DEF a
<1> HIDE DEF b
<1>6. Cardinality(b) + 1 \in 1 .. n
  BY <1>3, <1>4
<1> QED  BY <1>1, <1>3, <1>5, <1>6 DEF b

LEMMA RankingExists ==
  ASSUME NEW n \in Nat, NEW scores \in [1 .. n -> Nat]
  PROVE  \E r : IsRanking(n, scores, r)
<1> DEFINE place == [t \in 1 .. n |-> Cardinality(Better(scores, t)) + 1]
           r == [i \in 1 .. n |-> CHOOSE t \in 1 .. n : place[t] = i]
<1>1. place \in [1 .. n -> 1 .. n]
  BY BetterCounts
<1>2. \A s, t \in 1 .. n : Before(scores, s, t) => place[s] < place[t]
  <2> SUFFICES ASSUME NEW s \in 1 .. n, NEW t \in 1 .. n, Before(scores, s, t)
               PROVE  place[s] < place[t]
    OBVIOUS
  <2>1. Cardinality(Better(scores, s)) < Cardinality(Better(scores, t))
    BY BetterCounts
  <2>2. Cardinality(Better(scores, s)) \in Nat /\ Cardinality(Better(scores, t)) \in Nat
    BY BetterCounts
  <2> QED  BY <2>1, <2>2
<1> HIDE DEF place
<1>3. \A s, t \in 1 .. n : place[s] = place[t] => s = t
  <2> SUFFICES ASSUME NEW s \in 1 .. n, NEW t \in 1 .. n, s # t
               PROVE  place[s] # place[t]
    OBVIOUS
  <2>1. place[s] < place[t] \/ place[t] < place[s]
    BY <1>2, BeforeOrders
  <2>2. place[s] \in Int /\ place[t] \in Int  BY <1>1
  <2> QED  BY <2>1, <2>2
<1>4. \A i \in 1 .. n : \E t \in 1 .. n : place[t] = i
  <2>1. place \in Injection(1 .. n, 1 .. n)
    BY <1>1, <1>3 DEF Injection, IsInjective
  <2>2. place \in Surjection(1 .. n, 1 .. n)
    BY <2>1, FiniteRange, FS_Injection
  <2> QED  BY <2>2 DEF Surjection
<1>5. \A i \in 1 .. n : r[i] \in 1 .. n /\ place[r[i]] = i
  BY <1>4
<1>6. r \in [1 .. n -> 1 .. n]
  <2>1. r = [i \in 1 .. n |-> r[i]]  OBVIOUS
  <2> HIDE DEF r
  <2> QED  BY <1>5, <2>1
<1> HIDE DEF r
<1>7. ASSUME NEW i \in 1 .. n, NEW j \in 1 .. n, i < j
      PROVE  Before(scores, r[i], r[j])
  <2>1. r[i] \in 1 .. n /\ r[j] \in 1 .. n /\ place[r[i]] = i /\ place[r[j]] = j
    BY <1>5
  <2>2. i \in Int /\ j \in Int /\ r[i] # r[j]  BY <1>7, <2>1
  <2>3. ~Before(scores, r[j], r[i])  BY <1>2, <1>7, <2>1, <2>2
  <2> QED  BY <2>1, <2>2, <2>3, BeforeOrders
<1>8. IsRanking(n, scores, r)
  BY <1>6, <1>7 DEF IsRanking
<1> QED  BY <1>8

(* What a ranking is: the tokens before the i-th are those that are        *)
(* better than it, and no score before it is lower.                        *)
LEMMA Ranks ==
  ASSUME NEW n \in Nat, NEW scores \in [1 .. n -> Nat], NEW r, IsRanking(n, scores, r)
  PROVE  /\ \A i, j \in 1 .. n : r[i] = r[j] => i = j
         /\ Onto(n, r)
         /\ \A i \in 1 .. n : Better(scores, r[i]) = FirstOf(i - 1, r)
         /\ \A i, j \in 1 .. n : i <= j => scores[r[j]] <= scores[r[i]]
<1>1. r \in [1 .. n -> 1 .. n]
  BY DEF IsRanking
<1>2. \A i, j \in 1 .. n : i < j => Before(scores, r[i], r[j])
  BY DEF IsRanking
<1>3. \A i, j \in 1 .. n : r[i] = r[j] => i = j
  <2> SUFFICES ASSUME NEW i \in 1 .. n, NEW j \in 1 .. n, i # j  PROVE r[i] # r[j]
    OBVIOUS
  <2>1. i < j \/ j < i  OBVIOUS
  <2>2. Before(scores, r[i], r[j]) \/ Before(scores, r[j], r[i])  BY <1>2, <2>1
  <2>3. r[i] \in 1 .. n /\ r[j] \in 1 .. n  BY <1>1
  <2> QED  BY <2>2, <2>3, BeforeOrders
<1>4. \A t \in 1 .. n : \E i \in 1 .. n : r[i] = t
  <2>1. r \in Injection(1 .. n, 1 .. n)
    BY <1>1, <1>3 DEF Injection, IsInjective
  <2>2. r \in Surjection(1 .. n, 1 .. n)
    BY <2>1, FiniteRange, FS_Injection
  <2> QED  BY <2>2 DEF Surjection
<1>5. ASSUME NEW i \in 1 .. n
      PROVE  Better(scores, r[i]) = FirstOf(i - 1, r)
  <2>1. r[i] \in 1 .. n  BY <1>1
  <2>2. ASSUME NEW j \in 1 .. n  PROVE Before(scores, r[j], r[i]) <=> j < i
    <3>1. r[j] \in 1 .. n  BY <1>1
    <3>2. CASE j < i  BY <1>2, <3>2
    <3>3. CASE j = i  BY <3>3, <2>1, BeforeOrders
    <3>4. CASE i < j
      <4>1. Before(scores, r[i], r[j])  BY <1>2, <3>4
      <4>2. ~Before(scores, r[j], r[i])  BY <2>1, <3>1, <4>1, BeforeOrders
      <4> QED  BY <3>4, <4>2
    <3>5. j < i \/ j = i \/ i < j  OBVIOUS
    <3> QED  BY <3>2, <3>3, <3>4, <3>5
  <2>3. \A j \in 1 .. i - 1 : j \in 1 .. n /\ j < i  OBVIOUS
  <2>4. \A j \in 1 .. n : j < i => j \in 1 .. i - 1  OBVIOUS
  <2>5. ASSUME NEW t \in Better(scores, r[i])  PROVE t \in {r[j] : j \in 1 .. i - 1}
    <3>1. t \in 1 .. n /\ Before(scores, t, r[i])  BY DEF Better
    <3>2. PICK j \in 1 .. n : r[j] = t  BY <1>4, <3>1
    <3>3. j \in 1 .. i - 1  BY <2>2, <2>4, <3>1, <3>2
    <3> QED  BY <3>2, <3>3
  <2>6. ASSUME NEW j \in 1 .. i - 1  PROVE r[j] \in Better(scores, r[i])
    BY <1>1, <2>2, <2>3 DEF Better
  <2> QED  BY <2>5, <2>6 DEF FirstOf
<1>6. ASSUME NEW i \in 1 .. n, NEW j \in 1 .. n, i <= j  PROVE scores[r[j]] <= scores[r[i]]
  <2>1. r[i] \in 1 .. n /\ r[j] \in 1 .. n  BY <1>1
  <2>2. CASE i = j
    <3>1. scores[r[i]] \in Nat  BY <2>1
    <3> QED  BY <2>2, <3>1
  <2>3. CASE i < j
    <3>1. Before(scores, r[i], r[j])  BY <1>2, <2>3
    <3>2. scores[r[i]] \in Nat /\ scores[r[j]] \in Nat  BY <2>1
    <3> QED  BY <3>1, <3>2 DEF Before
  <2> QED  BY <1>6, <2>2, <2>3
<1>7. Onto(n, r)  BY <1>4 DEF Onto
<1> QED  BY <1>3, <1>5, <1>6, <1>7

LEMMA RankedIs ==
  ASSUME NEW n \in Nat, NEW scores \in [1 .. n -> Nat]
  PROVE  IsRanking(n, scores, Ranked(scores))
<1>1. DOMAIN scores = 1 .. n  OBVIOUS
<1>2. \E r \in [1 .. n -> 1 .. n] :
        \A i, j \in 1 .. n : i < j => Before(scores, r[i], r[j])
  BY RankingExists DEF IsRanking
<1> QED  BY <1>1, <1>2 DEF Ranked, IsRanking

-----------------------------------------------------------------------------
(* The weight of the best tokens.                                          *)
AddsUp(T, w, m, e, a) ==
  /\ \A i \in 1 .. m : e[i] \in T
  /\ \A i, j \in 1 .. m : e[i] = e[j] => i = j
  /\ a[0] = 0 /\ \A i \in 1 .. m : a[i] = a[i - 1] + w[e[i]]

LEMMA SumsAgree ==
  ASSUME NEW T, IsFiniteSet(T), NEW w \in [T -> Nat], NEW c, Chooses(T, c),
         NEW f, SumsUp(T, w, c, f), NEW m \in Nat, NEW e, NEW a, AddsUp(T, w, m, e, a)
  PROVE  f[FirstOf(m, e)] = a[m]
<1> DEFINE Best(k) == {e[j] : j \in 1 .. k}
           S == {k \in Nat : k <= m => f[Best(k)] = a[k]}
<1>0. /\ \A i \in 1 .. m : e[i] \in T
      /\ \A i, j \in 1 .. m : e[i] = e[j] => i = j
      /\ a[0] = 0 /\ \A i \in 1 .. m : a[i] = a[i - 1] + w[e[i]]
  BY DEF AddsUp
<1>1. 0 \in S
  <2>1. Best(0) = {}  OBVIOUS
  <2>2. f[{}] = 0  BY SumStarts
  <2> HIDE DEF Best
  <2> QED  BY <1>0, <2>1, <2>2
<1>2. ASSUME NEW k \in S  PROVE k + 1 \in S
  <2>1. k \in Nat /\ (k <= m => f[Best(k)] = a[k])
    BY DEF S
  <2>2. SUFFICES ASSUME k + 1 <= m  PROVE f[Best(k + 1)] = a[k + 1]
    BY <2>1
  <2>3. k + 1 \in 1 .. m /\ (k + 1) - 1 = k /\ k <= m
    BY <2>1, <2>2
  <2>4. \A j \in 1 .. k : j \in 1 .. m /\ j # k + 1  BY <2>3
  <2>5. Best(k + 1) \in SUBSET T /\ e[k + 1] \in Best(k + 1)
    <3>1. \A j \in 1 .. k + 1 : j \in 1 .. m  BY <2>3
    <3>2. k + 1 \in 1 .. k + 1  BY <2>1
    <3> QED  BY <1>0, <3>1, <3>2
  <2>6. Best(k + 1) \ {e[k + 1]} = Best(k)
    <3>1. \A j \in 1 .. k + 1 : j \in 1 .. k \/ j = k + 1  BY <2>1
    <3>2. \A j \in 1 .. k : j \in 1 .. k + 1  BY <2>1
    <3>3. \A j \in 1 .. k : e[j] # e[k + 1]  BY <1>0, <2>3, <2>4
    <3> QED  BY <3>1, <3>2, <3>3
  <2> HIDE DEF Best
  <2>7. f[Best(k + 1)] = w[e[k + 1]] + f[Best(k + 1) \ {e[k + 1]}]
    BY <2>5, SumTakes
  <2>8. a[k + 1] = a[k] + w[e[k + 1]]
    BY <1>0, <2>3
  <2>9. f[Best(k)] = a[k] /\ f[Best(k)] \in Nat /\ w[e[k + 1]] \in Nat
    <3>1. Best(k) \in SUBSET T  BY <2>5, <2>6
    <3>2. f[Best(k)] \in Nat  BY <3>1, SumTakes
    <3> QED  BY <1>0, <2>1, <2>3, <3>2
  <2> DEFINE p == f[Best(k)]
             x == w[e[k + 1]]
  <2>10. p = a[k] /\ p \in Nat /\ x \in Nat  BY <2>9
  <2>11. f[Best(k + 1)] = x + p  BY <2>6, <2>7
  <2>12. a[k + 1] = p + x  BY <2>8, <2>9
  <2> HIDE DEF p, x, S
  <2> QED  BY ONLY <2>10, <2>11, <2>12
<1>3. S = Nat
  <2> HIDE DEF S
  <2>1. S \in SUBSET Nat  BY DEF S
  <2> QED  BY <1>1, <1>2, <2>1, SetInduction
<1>4. m \in S  BY <1>3
<1>5. m <= m  OBVIOUS
<1> QED  BY <1>4, <1>5 DEF FirstOf

LEMMA Quotient ==
  ASSUME NEW a \in Nat, NEW b \in Nat \ {0}
  PROVE  a \div b \in Nat
OBVIOUS

LEMMA Products ==
  ASSUME NEW a \in Nat, NEW b \in Nat
  PROVE  a * b \in Nat
OBVIOUS

Warm(d) == d \in DecoderState /\ d.temperature > 0

LEMMA FunctionsAreSequences ==
  ASSUME NEW K, NEW n \in Nat, NEW r \in [1 .. n -> K]
  PROVE  r \in Seq(K) /\ Len(r) = n
<1>1. r \in Seq(K)  OBVIOUS
<1>2. DOMAIN r = 1 .. n /\ DOMAIN r = 1 .. Len(r) /\ Len(r) \in Nat
  BY <1>1
<1> QED  BY <1>1, <1>2

LEMMA RankedTyped ==
  ASSUME NEW n \in Nat \ {0}, NEW scores \in [1 .. n -> Nat]
  PROVE  /\ Ranked(scores) \in Seq(1 .. n) /\ Len(Ranked(scores)) = n
         /\ \A i \in 1 .. n : Ranked(scores)[i] \in 1 .. n
<1>1. Ranked(scores) \in [1 .. n -> 1 .. n] /\ n \in Nat
  BY RankedIs DEF IsRanking
<1>2. Ranked(scores) \in Seq(1 .. n) /\ Len(Ranked(scores)) = n
  <2> DEFINE K == 1 .. n
  <2>1. Ranked(scores) \in [1 .. n -> K] /\ n \in Nat  BY <1>1
  <2> HIDE DEF K
  <2>2. Ranked(scores) \in Seq(K) /\ Len(Ranked(scores)) = n
    BY <2>1, FunctionsAreSequences
  <2> QED  BY <2>2 DEF K
<1> QED  BY <1>1, <1>2

LEMMA WeightTyped ==
  ASSUME NEW n \in Nat \ {0}, NEW scores \in [1 .. n -> Nat], NEW d, Warm(d),
         NEW lowest \in Nat, NEW t \in 1 .. n
  PROVE  Weight(d, scores, lowest, t) \in Nat /\ Weight(d, scores, lowest, t) > 0
<1> DEFINE x == Above(scores[t], lowest) * 1000
<1>1. x \in Nat
  BY DEF Above
<1>2. d.temperature \in Nat \ {0}
  BY DEF Warm, DecoderState, Registers
<1>3. Weight(d, scores, lowest, t) = 1 + (x \div d.temperature)
  BY DEF Weight
<1> HIDE DEF x
<1>4. x \div d.temperature \in Nat  BY <1>1, <1>2, Quotient
<1> QED  BY <1>3, <1>4

(* a[i] is the weight of the i best tokens over the lowest score.          *)
Totals(n, d, scores, lowest, a) ==
  /\ a \in [0 .. n -> Nat] /\ a[0] = 0
  /\ \A i \in 1 .. n : a[i] = a[i - 1] + Weight(d, scores, lowest, Ranked(scores)[i])

MaxChoice(n) == [s \in SUBSET (1 .. n) |-> Max(s)]

LEMMA MaxChooses ==
  ASSUME NEW n \in Nat
  PROVE  Chooses(1 .. n, MaxChoice(n))
<1> SUFFICES ASSUME NEW s \in SUBSET (1 .. n), s # {}  PROVE MaxChoice(n)[s] \in s
  BY DEF Chooses
<1> QED  BY MaxIsIn DEF MaxChoice

LEMMA TotalsExist ==
  ASSUME NEW n \in Nat \ {0}, NEW scores \in [1 .. n -> Nat], NEW d, Warm(d),
         NEW lowest \in Nat
  PROVE  \E a : Totals(n, d, scores, lowest, a)
<1> DEFINE w == [i \in 1 .. n |-> Weight(d, scores, lowest, Ranked(scores)[i])]
           c == MaxChoice(n)
<1>1. w \in [1 .. n -> Nat]
  BY RankedTyped, WeightTyped
<1>2. IsFiniteSet(1 .. n) /\ Chooses(1 .. n, c)
  BY FiniteRange, MaxChooses
<1>3. PICK f : IsSum(1 .. n, w, c, f)
  BY <1>2, SumExists
<1> DEFINE a == [i \in 0 .. n |-> f[1 .. i]]
<1>4. \A i \in 0 .. n : 1 .. i \in SUBSET (1 .. n)
  OBVIOUS
<1>5. \A s \in SUBSET (1 .. n) : f[s] \in Nat /\ \A x \in s : f[s] = w[x] + f[s \ {x}]
  <2> DEFINE T == 1 .. n
  <2>1. IsFiniteSet(T) /\ w \in [T -> Nat] /\ Chooses(T, c) /\ SumsUp(T, w, c, f)
    BY <1>1, <1>2, <1>3, IsSumSumsUp
  <2> HIDE DEF T, w, c
  <2>2. \A s \in SUBSET T : f[s] \in Nat /\ \A x \in s : f[s] = w[x] + f[s \ {x}]
    <3> SUFFICES ASSUME NEW s \in SUBSET T
                 PROVE  f[s] \in Nat /\ \A x \in s : f[s] = w[x] + f[s \ {x}]
      OBVIOUS
    <3>1. f[s] \in Nat  BY <2>1, SumTyped
    <3>2. ASSUME NEW x \in s  PROVE f[s] = w[x] + f[s \ {x}]
      BY <2>1, SumTakesOne
    <3> QED  BY <3>1, <3>2
  <2> QED  BY <2>2 DEF T
<1>6. a[0] = 0
  <2>1. 1 .. 0 = {} /\ 0 \in 0 .. n  OBVIOUS
  <2>2. f[{}] = 0
    <3> HIDE DEF w, c
    <3> QED  BY <1>3, IsSumSumsUp, SumStarts
  <2> QED  BY <2>1, <2>2
<1>7. ASSUME NEW i \in 1 .. n  PROVE a[i] = a[i - 1] + Weight(d, scores, lowest, Ranked(scores)[i])
  <2>1. i \in 0 .. n /\ i - 1 \in 0 .. n /\ i \in 1 .. i /\ (1 .. i) \ {i} = 1 .. i - 1
    OBVIOUS
  <2>2. f[1 .. i] = w[i] + f[1 .. i - 1]
    <3> HIDE DEF w
    <3> QED  BY <1>4, <1>5, <2>1
  <2>3. f[1 .. i - 1] \in Nat  BY <1>4, <1>5, <2>1
  <2>4. w[i] = Weight(d, scores, lowest, Ranked(scores)[i]) /\ w[i] \in Nat  BY <1>1
  <2>5. a[i] = f[1 .. i] /\ a[i - 1] = f[1 .. i - 1]  BY <2>1
  <2> HIDE DEF a, w
  <2> QED  BY <2>2, <2>3, <2>4, <2>5
<1>8. a \in [0 .. n -> Nat]
  <2>1. \A i \in 0 .. n : f[1 .. i] \in Nat  BY <1>4, <1>5
  <2> QED  BY <2>1
<1> HIDE DEF a
<1>9. Totals(n, d, scores, lowest, a)
  BY <1>6, <1>7, <1>8 DEF Totals
<1> QED  BY <1>9

(* What the fold over the ranking computes.                                *)
LEMMA PrefixWeighs ==
  ASSUME NEW n \in Nat \ {0}, NEW scores \in [1 .. n -> Nat], NEW d, Warm(d),
         NEW lowest \in Nat,
         NEW a, Totals(n, d, scores, lowest, a), NEW m \in 0 .. n
  PROVE  WeightOf(d, scores, lowest, m) = a[m]
<1> DEFINE r == Ranked(scores)
           seq == SubSeq(r, 1, m)
           w == [i \in 1 .. m |-> Weight(d, scores, lowest, r[i])]
           c == MaxChoice(m)
           Rec(f) == f = [s \in SUBSET DOMAIN seq |->
                            IF s = {} THEN 0
                            ELSE f[s \ {Max(s)}] + Weight(d, scores, lowest, seq[Max(s)])]
           f == CHOOSE g : Rec(g)
<1>1. m \in Nat /\ \A i \in 1 .. m : i \in 1 .. n
  OBVIOUS
<1>2. seq = [i \in 1 .. m |-> r[i]]
  <2>1. r \in Seq(1 .. n) /\ Len(r) = n  BY RankedTyped
  <2> HIDE DEF r
  <2> QED  BY <2>1
<1>3. DOMAIN seq = 1 .. m /\ \A i \in 1 .. m : seq[i] = r[i]
  <2> HIDE DEF r, seq
  <2> QED  BY <1>2
<1>4. WeightOf(d, scores, lowest, m) = f[DOMAIN seq]
  BY DEF WeightOf, FoldLeft, MapThenFoldSet
<1>5. w \in [1 .. m -> Nat]
  BY <1>1, RankedTyped, WeightTyped
<1>6. IsFiniteSet(1 .. m) /\ Chooses(1 .. m, c)
  BY <1>1, FiniteRange, MaxChooses
<1>7. ASSUME NEW s \in SUBSET (1 .. m), s # {}
      PROVE  /\ c[s] = Max(s) /\ c[s] \in s
             /\ w[c[s]] = Weight(d, scores, lowest, seq[Max(s)])
  <2>1. c[s] = Max(s)  BY DEF MaxChoice
  <2>2. c[s] \in s  BY <1>6, <1>7 DEF Chooses
  <2>3. Max(s) \in 1 .. m /\ seq[Max(s)] = r[Max(s)]  BY <1>3, <2>1, <2>2
  <2> HIDE DEF c, r, seq
  <2> QED  BY <2>1, <2>2, <2>3
<1>8. \E g : Rec(g)
  <2>1. PICK g : IsSum(1 .. m, w, c, g)
    <3> HIDE DEF w, c
    <3> QED  BY <1>6, SumExists
  <2>2. SumsUp(1 .. m, w, c, g)
    <3> HIDE DEF w, c
    <3> QED  BY <2>1, IsSumSumsUp
  <2>3. ASSUME NEW s \in SUBSET (1 .. m)  PROVE g[s] \in Nat
    <3> DEFINE T == 1 .. m
    <3>1. IsFiniteSet(T) /\ w \in [T -> Nat] /\ Chooses(T, c) /\ SumsUp(T, w, c, g)
          /\ s \in SUBSET T
      BY <1>5, <1>6, <2>2
    <3> HIDE DEF T, w, c
    <3> QED  BY <3>1, SumTyped
  <2>4. g = [s \in SUBSET (1 .. m) |-> IF s = {} THEN 0 ELSE w[c[s]] + g[s \ {c[s]}]]
    BY <2>1 DEF IsSum
  <2>5. ASSUME NEW s \in SUBSET (1 .. m), s # {}
        PROVE  g[s] = g[s \ {Max(s)}] + Weight(d, scores, lowest, seq[Max(s)])
    <3>1. g[s] = w[c[s]] + g[s \ {c[s]}]  BY <2>4, <2>5
    <3>2. s \ {c[s]} \in SUBSET (1 .. m)  OBVIOUS
    <3>3. g[s \ {c[s]}] \in Nat  BY <2>3, <3>2
    <3>4. w[c[s]] \in Nat
      <4>1. c[s] \in 1 .. m  BY <1>7, <2>5
      <4> HIDE DEF w, c
      <4> QED  BY <1>5, <4>1
    <3>5. g[s] = g[s \ {c[s]}] + w[c[s]]
      <4> HIDE DEF w, c
      <4> QED  BY <3>1, <3>3, <3>4
    <3> HIDE DEF w, c, seq
    <3> QED  BY <1>7, <2>5, <3>5
  <2>6. g = [s \in SUBSET (1 .. m) |->
               IF s = {} THEN 0 ELSE g[s \ {Max(s)}] + Weight(d, scores, lowest, seq[Max(s)])]
    <3> HIDE DEF w, c, seq
    <3> QED  BY <2>4, <2>5
  <2>7. Rec(g)
    <3> HIDE DEF seq
    <3> QED  BY <1>3, <2>6
  <2> HIDE DEF Rec
  <2> QED  BY <2>7
<1>9. Rec(f)
  <2> HIDE DEF Rec
  <2> QED  BY <1>8
<1> HIDE DEF f
<1>10. SumsUp(1 .. m, w, c, f)
  <2> SUFFICES ASSUME NEW s \in SUBSET (1 .. m)
               PROVE  IF s = {} THEN f[s] = 0
                      ELSE f[s] \in {w[c[s]] + f[s \ {c[s]}], f[s \ {c[s]}] + w[c[s]]}
    BY DEF SumsUp
  <2>1. f[s] = IF s = {} THEN 0 ELSE f[s \ {Max(s)}] + Weight(d, scores, lowest, seq[Max(s)])
    <3> HIDE DEF seq
    <3> QED  BY <1>3, <1>9
  <2> HIDE DEF w, c, seq
  <2> QED  BY <1>7, <2>1
<1>11. f[{i : i \in 1 .. m}] = a[m]
  <2> DEFINE T == 1 .. m
             e == [i \in 1 .. m |-> i]
  <2>1. \A i \in 1 .. m : e[i] \in T /\ e[i] = i
    OBVIOUS
  <2>2. \A i, j \in 1 .. m : e[i] = e[j] => i = j
    OBVIOUS
  <2>3. a[0] = 0 /\ \A i \in 1 .. m : a[i] = a[i - 1] + w[e[i]]
    <3>1. \A i \in 1 .. m : w[e[i]] = Weight(d, scores, lowest, Ranked(scores)[i])  OBVIOUS
    <3> HIDE DEF w
    <3> QED  BY <1>1, <3>1 DEF Totals
  <2>4. {e[j] : j \in 1 .. m} = {i : i \in 1 .. m}
    BY <2>1
  <2>5. IsFiniteSet(T) /\ w \in [T -> Nat] /\ Chooses(T, c) /\ SumsUp(T, w, c, f)
    BY <1>5, <1>6, <1>10
  <2>6. f[FirstOf(m, e)] = a[m]
    <3>1. \A i \in 1 .. m : e[i] \in T  BY <2>1
    <3> HIDE DEF T, w, c, e
    <3>2. AddsUp(T, w, m, e, a)  BY <2>2, <2>3, <3>1 DEF AddsUp
    <3> QED  BY <1>1, <2>5, <3>2, SumsAgree
  <2> QED  BY <2>4, <2>6 DEF FirstOf
<1>12. {i : i \in 1 .. m} = DOMAIN seq
  <2> HIDE DEF seq
  <2> QED  BY <1>3
<1> QED  BY <1>4, <1>11, <1>12

(* What the fold over the set of tokens computes.                          *)
LEMMA LowestIs ==
  ASSUME NEW n \in Nat \ {0}, NEW scores \in [1 .. n -> Nat], NEW k \in 1 .. n
  PROVE  LET weighed == FirstOf(k, Ranked(scores))
         IN  (CHOOSE x \in {scores[t] : t \in weighed} : \A t \in weighed : x <= scores[t])
               = ScoreAt(scores, k)
<1> DEFINE r == Ranked(scores)
           weighed == FirstOf(k, r)
           low == scores[r[k]]
<1>1. n \in Nat /\ k \in 1 .. k /\ \A i \in 1 .. k : i \in 1 .. n /\ i <= k  OBVIOUS
<1>2. \A i \in 1 .. n : r[i] \in 1 .. n  BY RankedTyped
<1>3. \A i, j \in 1 .. n : i <= j => scores[r[j]] <= scores[r[i]]
  <2>1. IsRanking(n, scores, r)  BY <1>1, RankedIs
  <2> QED  BY <1>1, <2>1, Ranks
<1> HIDE DEF r
<1>4. \A t \in weighed : t \in 1 .. n /\ low <= scores[t]
  BY <1>1, <1>2, <1>3 DEF FirstOf
<1>5. r[k] \in weighed /\ low \in Nat  BY <1>1, <1>2 DEF FirstOf
<1> HIDE DEF weighed
<1>6. \A x \in {scores[t] : t \in weighed} :
        (\A t \in weighed : x <= scores[t]) => x = low
  BY <1>4, <1>5
<1>7. low \in {scores[t] : t \in weighed}  BY <1>5
<1>8. (CHOOSE x \in {scores[t] : t \in weighed} : \A t \in weighed : x <= scores[t]) = low
  <2> HIDE DEF low
  <2> QED  BY <1>4, <1>6, <1>7
<1> QED  BY <1>8 DEF ScoreAt, r, weighed

LEMMA SetWeighs ==
  ASSUME NEW n \in Nat \ {0}, NEW scores \in [1 .. n -> Nat], NEW d, Warm(d),
         NEW k \in 1 .. n, NEW lowest, lowest = ScoreAt(scores, k), lowest \in Nat,
         NEW a, Totals(n, d, scores, lowest, a), NEW m \in 0 .. n
  PROVE  SumOfWeights(d, scores, FirstOf(k, Ranked(scores)), FirstOf(m, Ranked(scores))) = a[m]
<1> DEFINE r == Ranked(scores)
           S == FirstOf(m, r)
           weighed == FirstOf(k, r)
           low == CHOOSE x \in {scores[t] : t \in weighed} : \A t \in weighed : x <= scores[t]
           W(t) == Weight(d, scores, low, t)
           w == [t \in S |-> Weight(d, scores, lowest, t)]
           c == [s \in SUBSET S |-> CHOOSE x \in s : TRUE]
           Rec(f) == f = [s \in SUBSET S |->
                            IF s = {} THEN 0
                            ELSE W(CHOOSE x \in s : TRUE)
                                 + f[s \ {CHOOSE x \in s : TRUE}]]
           f == CHOOSE g : Rec(g)
<1>1. m \in Nat /\ \A i \in 1 .. m : i \in 1 .. n
  OBVIOUS
<1>2. S \in SUBSET (1 .. n)
  <2>1. \A i \in 1 .. m : r[i] \in 1 .. n  BY <1>1, RankedTyped
  <2> HIDE DEF r
  <2> QED  BY <2>1 DEF FirstOf
<1>3. \A t \in 1 .. n : W(t) = Weight(d, scores, lowest, t)
  <2>1. low = lowest  BY LowestIs
  <2> QED  BY <2>1
<1>4. SumOfWeights(d, scores, weighed, S) = f[S]
  BY DEF SumOfWeights, MapThenSumSet, MapThenFoldSet
<1>5. w \in [S -> Nat]
  <2>1. \A t \in S : Weight(d, scores, lowest, t) \in Nat
    <3> HIDE DEF S
    <3> QED  BY <1>2, WeightTyped
  <2> HIDE DEF S
  <2> QED  BY <2>1
<1>6. IsFiniteSet(S) /\ Chooses(S, c)
  <2>1. n \in Nat  OBVIOUS
  <2>2. IsFiniteSet(1 .. n)  BY <2>1, FiniteRange
  <2> HIDE DEF S
  <2>3. IsFiniteSet(S)  BY <1>2, <2>2, FS_Subset
  <2>4. Chooses(S, c)  BY DEF Chooses
  <2> QED  BY <2>3, <2>4
<1>7. ASSUME NEW s \in SUBSET S, s # {}
      PROVE  /\ c[s] = CHOOSE x \in s : TRUE
             /\ c[s] \in s /\ w[c[s]] = W(CHOOSE x \in s : TRUE)
  <2>1. c[s] = CHOOSE x \in s : TRUE
    <3> HIDE DEF S
    <3> QED  OBVIOUS
  <2>2. c[s] \in s  BY <1>7, <2>1
  <2>3. c[s] \in S /\ c[s] \in 1 .. n
    <3> HIDE DEF S, c
    <3> QED  BY <1>2, <2>2
  <2>4. w[c[s]] = Weight(d, scores, lowest, c[s])
    <3> HIDE DEF S, c
    <3> QED  BY <2>3
  <2>5. W(c[s]) = Weight(d, scores, lowest, c[s])
    <3> HIDE DEF W, c
    <3> QED  BY <1>3, <2>3
  <2> HIDE DEF W, w, c, S
  <2> QED  BY <2>1, <2>2, <2>4, <2>5
<1> HIDE DEF S, w, c
<1>8. \E g : Rec(g)
  <2>1. PICK g : IsSum(S, w, c, g)
    BY <1>6, SumExists
  <2>2. SumsUp(S, w, c, g)
    BY <2>1, IsSumSumsUp
  <2>3. g = [s \in SUBSET S |-> IF s = {} THEN 0 ELSE w[c[s]] + g[s \ {c[s]}]]
    BY <2>1 DEF IsSum
  <2> HIDE DEF W
  <2>4. g = [s \in SUBSET S |->
               IF s = {} THEN 0
               ELSE W(CHOOSE x \in s : TRUE) + g[s \ {CHOOSE x \in s : TRUE}]]
    <3>1. \A s \in SUBSET S : s # {} =>
            w[c[s]] + g[s \ {c[s]}]
              = W(CHOOSE x \in s : TRUE) + g[s \ {CHOOSE x \in s : TRUE}]
      BY <1>7
    <3> QED  BY <2>3, <3>1
  <2>5. Rec(g)
    BY <2>4
  <2> HIDE DEF Rec
  <2> QED  BY <2>5
<1>9. Rec(f)
  <2> HIDE DEF Rec
  <2> QED  BY <1>8
<1> HIDE DEF f
<1>10. SumsUp(S, w, c, f)
  <2> SUFFICES ASSUME NEW s \in SUBSET S
               PROVE  IF s = {} THEN f[s] = 0
                      ELSE f[s] \in {w[c[s]] + f[s \ {c[s]}], f[s \ {c[s]}] + w[c[s]]}
    BY DEF SumsUp
  <2> HIDE DEF W
  <2>1. f[s] = IF s = {} THEN 0
               ELSE W(CHOOSE x \in s : TRUE) + f[s \ {CHOOSE x \in s : TRUE}]
    BY <1>9
  <2>2. s # {} => f[s] = w[c[s]] + f[s \ {c[s]}]
    BY <1>7, <2>1
  <2> QED  BY <2>1, <2>2
<1>11. f[FirstOf(m, r)] = a[m]
  <2>1. \A i \in 1 .. m : r[i] \in S /\ r[i] \in 1 .. n /\ w[r[i]] = Weight(d, scores, lowest, r[i])
    <3>1. \A i \in 1 .. m : r[i] \in S  BY DEF S, FirstOf
    <3>2. \A t \in S : w[t] = Weight(d, scores, lowest, t)  BY DEF w
    <3> HIDE DEF r
    <3> QED  BY <1>2, <3>1, <3>2
  <2>2. \A i, j \in 1 .. m : r[i] = r[j] => i = j
    <3>1. n \in Nat  OBVIOUS
    <3>2. IsRanking(n, scores, r)  BY <3>1, RankedIs
    <3>3. \A i, j \in 1 .. n : r[i] = r[j] => i = j
      <4> HIDE DEF r
      <4> QED  BY <3>1, <3>2, Ranks
    <3> HIDE DEF r
    <3> QED  BY <1>1, <3>3
  <2>3. a[0] = 0 /\ \A i \in 1 .. m : a[i] = a[i - 1] + Weight(d, scores, lowest, r[i])
    BY <1>1 DEF Totals
  <2> HIDE DEF r
  <2>4. AddsUp(S, w, m, r, a)
    BY <2>1, <2>2, <2>3 DEF AddsUp
  <2> QED  BY <1>1, <1>5, <1>6, <1>10, <2>4, SumsAgree
<1> QED  BY <1>4, <1>11 DEF S, weighed

-----------------------------------------------------------------------------
(* Which tokens are drawn from.                                            *)
LEMMA TotalsGrow ==
  ASSUME NEW n \in Nat \ {0}, NEW scores \in [1 .. n -> Nat], NEW d, Warm(d),
         NEW lowest \in Nat,
         NEW a, Totals(n, d, scores, lowest, a), NEW i \in 0 .. n, NEW j \in 0 .. n, i <= j
  PROVE  a[i] <= a[j]
<1> DEFINE S == {k \in Nat : i + k <= n => a[i] <= a[i + k]}
<1>1. 0 \in S
  <2>1. a[i] \in Nat /\ i + 0 = i  BY DEF Totals
  <2> QED  BY <2>1
<1>2. ASSUME NEW k \in S  PROVE k + 1 \in S
  <2>1. k \in Nat /\ (i + k <= n => a[i] <= a[i + k])  OBVIOUS
  <2>2. SUFFICES ASSUME i + (k + 1) <= n  PROVE a[i] <= a[i + (k + 1)]
    BY <2>1
  <2> DEFINE z == i + (k + 1)
  <2>3. z \in 1 .. n /\ z - 1 = i + k /\ i + k <= n /\ i + k \in 0 .. n
    BY <2>1, <2>2
  <2>4. a[i] <= a[i + k]  BY <2>1, <2>3
  <2>5. Ranked(scores)[z] \in 1 .. n
    <3> HIDE DEF z
    <3> QED  BY <2>3, RankedTyped
  <2>6. a[z] = a[i + k] + Weight(d, scores, lowest, Ranked(scores)[z])
    <3> HIDE DEF z
    <3> QED  BY <2>3 DEF Totals
  <2>7. Weight(d, scores, lowest, Ranked(scores)[z]) \in Nat  BY <2>5, WeightTyped
  <2>8. a[i + k] \in Nat /\ a[i] \in Nat  BY <2>3 DEF Totals
  <2> HIDE DEF z
  <2>9. a[i] <= a[z]  BY <2>4, <2>6, <2>7, <2>8
  <2> QED  BY <2>9 DEF z
<1>3. S = Nat
  <2> HIDE DEF S
  <2>1. S \in SUBSET Nat  BY DEF S
  <2> QED  BY <1>1, <1>2, <2>1, SetInduction
<1>4. j - i \in Nat /\ i + (j - i) = j /\ j <= n  OBVIOUS
<1>5. j - i \in S  BY <1>3, <1>4
<1> QED  BY <1>4, <1>5

(* Rounding up, and saturating.                                            *)
RoundedUp(x) == Saturated(x + 999) \div 1000

PerMille == 1 .. 1000

LEMMA Saturates ==
  ASSUME NEW x \in Nat
  PROVE  /\ Saturation \in Nat /\ Saturated(x) \in Nat /\ Saturated(x) <= x
         /\ \A y \in Nat : y <= Saturated(x) <=> y <= x /\ y <= Saturation
<1>1. Saturation \in Nat  BY DecoderAssumption
<1>2. CASE x > Saturation  BY <1>1, <1>2 DEF Saturated
<1>3. CASE ~(x > Saturation)  BY <1>1, <1>3 DEF Saturated
<1> QED  BY <1>2, <1>3, <1>1

LEMMA ShareFits == \A w \in Nat, p \in PerMille : RoundedUp(w * p) <= w
<1> TAKE w \in Nat, p \in PerMille
<1>1. w * p \in Nat /\ w * (1000 - p) \in Nat  BY DEF PerMille
<1>2. w * (1000 - p) = w * 1000 - w * p  BY DEF PerMille
<1> DEFINE x == w * p
<1>3. x \in Nat /\ x <= w * 1000  BY <1>1, <1>2
<1> HIDE DEF x
<1>4. RoundedUp(x) <= w
  <2>1. Saturated(x + 999) \in Nat /\ Saturated(x + 999) <= x + 999
    BY <1>3, Saturates
  <2> DEFINE y == Saturated(x + 999)
  <2>2. y \in Nat /\ y <= w * 1000 + 999  BY <1>3, <2>1
  <2> HIDE DEF y
  <2>3. y \div 1000 <= w  BY <2>2
  <2> QED  BY <2>3 DEF RoundedUp, y
<1> QED  BY <1>4 DEF x

LEMMA RoundsUp ==
  ASSUME NEW x \in Nat, NEW b \in Nat
  PROVE  /\ RoundedUp(x) \in Nat
         /\ b < RoundedUp(x) <=> 1000 * b < x /\ 1000 * b + 999 < Saturation
<1> DEFINE y == Saturated(x + 999)
<1>1. /\ y \in Nat
      /\ 1000 * b + 1000 <= y <=> 1000 * b < x /\ 1000 * b + 999 < Saturation
  <2>1. x + 999 \in Nat /\ 1000 * b + 1000 \in Nat  OBVIOUS
  <2>2. y \in Nat /\ Saturation \in Nat  BY <2>1, Saturates
  <2>3. 1000 * b + 1000 <= y <=> 1000 * b + 1000 <= x + 999 /\ 1000 * b + 1000 <= Saturation
    BY <2>1, Saturates
  <2> HIDE DEF y
  <2> QED  BY <2>2, <2>3
<1> HIDE DEF y
<1>2. y \div 1000 \in Nat /\ (b < y \div 1000 <=> 1000 * b + 1000 <= y)
  BY <1>1
<1> QED  BY <1>1, <1>2 DEF RoundedUp, y

Clamped(d) ==
  d \in DecoderState /\ d.topK > 0 /\ d.temperature > 0 /\ d.topP \in 1 .. 1000

LEMMA ClampedWarm == \A d : Clamped(d) => Warm(d)
BY DEF Clamped, Warm

Threshold(n, d, a) == RoundedUp(a[n] * d.topP)

LEMMA NucleusIs ==
  ASSUME NEW n \in Nat \ {0}, NEW scores \in [1 .. n -> Nat], NEW d, Clamped(d),
         NEW lowest, lowest = ScoreAt(scores, n), lowest \in Nat,
         NEW a, Totals(n, d, scores, lowest, a)
  PROVE  /\ Nucleus(d, scores) \in 1 .. n
         /\ a[Nucleus(d, scores)] >= Threshold(n, d, a)
         /\ Nucleus(d, scores) > 1 => a[Nucleus(d, scores) - 1] < Threshold(n, d, a)
<1> DEFINE th == Threshold(n, d, a)
           Q(k) == a[k] >= th /\ (k > 1 => a[k - 1] < th)
           total == WeightOf(d, scores, lowest, n)
           P(k) == /\ WeightOf(d, scores, lowest, k) >= Saturated(total * d.topP + 999) \div 1000
                   /\ k > 1 => WeightOf(d, scores, lowest, k - 1)
                                 < Saturated(total * d.topP + 999) \div 1000
<1>1. Warm(d) /\ n \in 0 .. n /\ n \in 1 .. n /\ n \in Nat
  BY ClampedWarm
<1>2. \A k \in 0 .. n : WeightOf(d, scores, lowest, k) = a[k] /\ a[k] \in Nat
  <2> SUFFICES ASSUME NEW k \in 0 .. n  PROVE WeightOf(d, scores, lowest, k) = a[k] /\ a[k] \in Nat
    OBVIOUS
  <2>1. WeightOf(d, scores, lowest, k) = a[k]  BY <1>1, PrefixWeighs
  <2>2. a[k] \in Nat  BY DEF Totals
  <2> QED  BY <2>1, <2>2
<1>3. \A k \in 1 .. n : k \in 0 .. n /\ k - 1 \in 0 .. n
  OBVIOUS
<1>4. \A k \in 1 .. n : P(k) <=> Q(k)
  BY <1>1, <1>2, <1>3 DEF Threshold, RoundedUp
<1>5. th \in Nat /\ th <= a[n]
  <2> DEFINE w == a[n]
             p == d.topP
  <2>1. w \in Nat /\ p \in 1 .. 1000  BY <1>1, <1>2 DEF Clamped
  <2>2. th = RoundedUp(w * p)  BY DEF Threshold
  <2> HIDE DEF w, p, th
  <2>3. w * p \in Nat /\ RoundedUp(w * p) <= w
    <3>1. w * p \in Nat  BY <2>1, SMTT(30)
    <3>2. p \in PerMille  BY <2>1 DEF PerMille
    <3>3. RoundedUp(w * p) <= w  BY <2>1, <3>2, ShareFits, Zenon
    <3> QED  BY <3>1, <3>3
  <2>4. RoundedUp(w * p) \in Nat
    <3> DEFINE x == w * p
    <3>1. x \in Nat  BY <2>3
    <3> HIDE DEF x
    <3>2. RoundedUp(x) \in Nat  BY <3>1, RoundsUp
    <3> QED  BY <3>2 DEF x
  <2> QED  BY <2>2, <2>3, <2>4 DEF w
<1> HIDE DEF th
<1>6. \E k \in 1 .. n : Q(k)
  <2> DEFINE S == {k \in Nat : k \in 1 .. n /\ a[k] >= th}
  <2>1. n \in S  BY <1>1, <1>2, <1>5
  <2>2. PICK k \in S : \A z \in S : k <= z
    <3> HIDE DEF S
    <3>1. S \in SUBSET Nat  BY DEF S
    <3> QED  BY <2>1, <3>1, LeastNatural
  <2>3. ASSUME k > 1  PROVE a[k - 1] < th
    <3>1. k - 1 \in 1 .. n /\ k - 1 \in Nat /\ k - 1 \in 0 .. n /\ ~(k <= k - 1)  BY <2>2, <2>3
    <3>2. k - 1 \notin S  BY <2>2, <3>1
    <3>3. ~(a[k - 1] >= th) /\ a[k - 1] \in Nat  BY <1>2, <3>1, <3>2
    <3> QED  BY <1>5, <3>3
  <2> QED  BY <2>2, <2>3
<1>7. Len(scores) = n /\ DOMAIN scores = 1 .. n
  <2> DEFINE K == Nat
  <2>1. scores \in [1 .. n -> K] /\ n \in Nat  OBVIOUS
  <2> HIDE DEF K
  <2> QED  BY <2>1, FunctionsAreSequences
<1>8. Nucleus(d, scores) = CHOOSE k \in 1 .. n : P(k)
  BY <1>7 DEF Nucleus, Cut
<1>9. Nucleus(d, scores) \in 1 .. n /\ P(Nucleus(d, scores))
  <2>1. \E k \in 1 .. n : P(k)
    <3> HIDE DEF P, Q
    <3> QED  BY <1>4, <1>6
  <2> HIDE DEF P
  <2> QED  BY <1>8, <2>1
<1>10. Q(Nucleus(d, scores))
  <2> HIDE DEF P, Q
  <2> QED  BY <1>4, <1>9
<1> QED  BY <1>9, <1>10 DEF th

LEMMA InNucleus ==
  ASSUME NEW n \in Nat \ {0}, NEW scores \in [1 .. n -> Nat], NEW d, Clamped(d),
         NEW lowest, lowest = ScoreAt(scores, n), lowest \in Nat,
         NEW a, Totals(n, d, scores, lowest, a), NEW i \in 1 .. n
  PROVE  i <= Nucleus(d, scores) <=>
           i = 1 \/ (1000 * a[i - 1] < d.topP * a[n] /\ 1000 * a[i - 1] + 999 < Saturation)
<1> DEFINE k == Nucleus(d, scores)
           th == Threshold(n, d, a)
           w == a[n]
           p == d.topP
<1>1. Warm(d) /\ n \in 0 .. n /\ i - 1 \in 0 .. n
  BY ClampedWarm
<1>2. w \in Nat /\ a[i - 1] \in Nat /\ p \in 1 .. 1000
  <2>1. a \in [0 .. n -> Nat]  BY DEF Totals
  <2>2. w \in Nat /\ a[i - 1] \in Nat  BY <1>1, <2>1
  <2>3. p \in 1 .. 1000  BY DEF Clamped
  <2> QED  BY <2>2, <2>3
<1>3. k \in 1 .. n /\ a[k] >= th /\ (k > 1 => a[k - 1] < th)
  BY NucleusIs
<1>4. th = RoundedUp(w * p)  BY DEF Threshold
<1> HIDE DEF th, k, w, p
<1>5. w * p \in Nat /\ w * p = p * w  BY <1>2
<1>6. /\ th \in Nat
      /\ a[i - 1] < th <=> 1000 * a[i - 1] < p * w /\ 1000 * a[i - 1] + 999 < Saturation
  <2> DEFINE b == a[i - 1]
             x == w * p
  <2>1. x \in Nat /\ b \in Nat /\ x = p * w  BY <1>2, <1>5
  <2> HIDE DEF b, x
  <2>2. /\ RoundedUp(x) \in Nat
        /\ b < RoundedUp(x) <=> 1000 * b < x /\ 1000 * b + 999 < Saturation
    BY <2>1, RoundsUp, SMTT(30)
  <2> QED  BY <1>4, <2>1, <2>2 DEF b, x
<1>7. CASE i <= k
  <2>1. CASE i = 1  BY <1>7, <2>1 DEF k
  <2>2. CASE i # 1
    <3>1. k > 1 /\ k - 1 \in 0 .. n /\ i - 1 <= k - 1  BY <1>3, <1>7, <2>2
    <3>2. a[i - 1] <= a[k - 1]  BY <1>1, <3>1, TotalsGrow
    <3>3. a[k - 1] \in Nat  BY <3>1 DEF Totals
    <3>4. a[i - 1] < th  BY <1>2, <1>3, <1>6, <3>1, <3>2, <3>3
    <3> QED  BY <1>6, <1>7, <3>4 DEF k, p, w
  <2> QED  BY <2>1, <2>2
<1>8. CASE ~(i <= k)
  <2>1. k <= i - 1 /\ i # 1 /\ k \in 0 .. n  BY <1>3, <1>8
  <2>2. a[k] <= a[i - 1]  BY <1>1, <2>1, TotalsGrow
  <2>3. a[k] \in Nat  BY <2>1 DEF Totals
  <2>4. ~(a[i - 1] < th)  BY <1>2, <1>3, <1>6, <2>2, <2>3
  <2> QED  BY <1>6, <1>8, <2>1, <2>4 DEF k, p, w
<1> QED  BY <1>7, <1>8

LEMMA CountFirst ==
  ASSUME NEW n \in Nat, NEW r, \A i, j \in 1 .. n : r[i] = r[j] => i = j,
         NEW k \in 0 .. n
  PROVE  Cardinality(FirstOf(k, r)) = k
<1> DEFINE T == FirstOf(k, r)
           e == [j \in 1 .. k |-> r[j]]
<1>1. k \in Nat /\ \A j \in 1 .. k : j \in 1 .. n  OBVIOUS
<1>2. e \in Bijection(1 .. k, T)
  BY <1>1 DEF Bijection, Injection, Surjection, IsInjective, FirstOf
<1>3. ExistsBijection(1 .. k, T)  BY <1>2 DEF ExistsBijection
<1>4. IsFiniteSet(1 .. k) /\ Cardinality(1 .. k) = k  BY <1>1, FiniteRange
<1> QED  BY <1>3, <1>4, FS_Bijection

(* How many of the best are kept.                                          *)
KeptCount(how, d, scores) ==
  IF how = "greedy" \/ d.temperature <= 1 THEN 1
  ELSE IF how = "topp" THEN Nucleus(d, scores)
  ELSE IF d.topK < Len(scores) THEN d.topK ELSE Len(scores)

LEMMA ScoresListed ==
  ASSUME NEW n \in Nat \ {0}, NEW scores \in [1 .. n -> Nat]
  PROVE  /\ DOMAIN scores = 1 .. n /\ Len(scores) = n
         /\ \A k \in 1 .. n : ScoreAt(scores, k) \in Nat
         /\ FirstOf(n, Ranked(scores)) = 1 .. n
<1> DEFINE r == Ranked(scores)
<1>1. DOMAIN scores = 1 .. n /\ Len(scores) = n
  <2> DEFINE K == Nat
  <2>1. scores \in [1 .. n -> K] /\ n \in Nat  OBVIOUS
  <2> HIDE DEF K
  <2> QED  BY <2>1, FunctionsAreSequences
<1>2. \A i \in 1 .. n : r[i] \in 1 .. n  BY RankedTyped
<1>3. \A t \in 1 .. n : \E i \in 1 .. n : r[i] = t
  <2>1. n \in Nat  OBVIOUS
  <2>2. IsRanking(n, scores, r)  BY <2>1, RankedIs
  <2> HIDE DEF r
  <2>3. Onto(n, r)  BY <2>1, <2>2, Ranks
  <2> QED  BY <2>3 DEF Onto
<1>4. \A k \in 1 .. n : ScoreAt(scores, k) \in Nat
  <2> HIDE DEF r
  <2>1. \A k \in 1 .. n : scores[r[k]] \in Nat  BY <1>2
  <2> QED  BY <2>1 DEF ScoreAt, r
<1>5. FirstOf(n, r) = 1 .. n
  <2> HIDE DEF r
  <2>1. \A t \in FirstOf(n, r) : t \in 1 .. n  BY <1>2 DEF FirstOf
  <2>2. \A t \in 1 .. n : t \in FirstOf(n, r)  BY <1>3 DEF FirstOf
  <2> QED  BY <2>1, <2>2
<1> QED  BY <1>1, <1>4, <1>5

LEMMA KeptCounts ==
  ASSUME NEW n \in Nat \ {0}, NEW scores \in [1 .. n -> Nat], NEW d, Clamped(d),
         NEW how \in Hows
  PROVE  /\ KeptCount(how, d, scores) \in 1 .. n
         /\ how = "topk" /\ d.temperature > 1 =>
              \A i \in 1 .. n : i <= KeptCount(how, d, scores) <=> i - 1 < d.topK
<1>1. Len(scores) = n  BY ScoresListed
<1>2. Nucleus(d, scores) \in 1 .. n
  <2> DEFINE lowest == ScoreAt(scores, n)
  <2>1. Warm(d) /\ n \in 1 .. n  BY ClampedWarm
  <2>2. lowest \in Nat  BY <2>1, ScoresListed
  <2> HIDE DEF lowest
  <2>3. PICK a : Totals(n, d, scores, lowest, a)  BY <2>1, <2>2, TotalsExist
  <2>4. lowest = ScoreAt(scores, n)  BY DEF lowest
  <2> QED  BY <2>2, <2>3, <2>4, NucleusIs
<1>3. d.topK \in Nat \ {0} /\ d.temperature \in Nat
  BY DEF Clamped, DecoderState, Registers
<1>4. KeptCount(how, d, scores) \in 1 .. n
  BY <1>1, <1>2, <1>3 DEF KeptCount
<1>5. ASSUME how = "topk", d.temperature > 1, NEW i \in 1 .. n
      PROVE  i <= KeptCount(how, d, scores) <=> i - 1 < d.topK
  BY <1>1, <1>3, <1>5 DEF KeptCount
<1> QED  BY <1>4, <1>5

(* The list before the ticket is drawn.                                    *)
LEMMA ListedAre ==
  ASSUME NEW n \in Nat \ {0}, NEW scores \in [1 .. n -> Nat], NEW d, Clamped(d),
         NEW how \in Hows
  PROVE  Listed(how, d, scores) = FirstOf(KeptCount(how, d, scores), Ranked(scores))
<1> DEFINE r == Ranked(scores)
           k == KeptCount(how, d, scores)
           lowest == ScoreAt(scores, n)
           Sum(S) == SumOfWeights(d, scores, DOMAIN scores, S)
           E(t) == LET better == Better(scores, t)
                   IN  \/ better = {}
                       \/ d.temperature > 1 /\ how = "topk" /\ Cardinality(better) < d.topK
                       \/ d.temperature > 1 /\ how = "topp" /\
                            /\ 1000 * Sum(better) < d.topP * Sum(DOMAIN scores)
                            /\ 1000 * Sum(better) + 999 < Saturation
<1>1. /\ Warm(d) /\ n \in Nat /\ n \in 0 .. n /\ n \in 1 .. n /\ DOMAIN scores = 1 .. n
      /\ lowest \in Nat /\ FirstOf(n, r) = 1 .. n
  BY ClampedWarm, ScoresListed
<1>0. lowest = ScoreAt(scores, n)  OBVIOUS
<1> HIDE DEF lowest
<1>2. PICK a : Totals(n, d, scores, lowest, a)
  BY <1>1, TotalsExist
<1>10. \A j \in 1 .. n :
        j <= Nucleus(d, scores) <=>
          j = 1 \/ (1000 * a[j - 1] < d.topP * a[n] /\ 1000 * a[j - 1] + 999 < Saturation)
  <2> HIDE DEF k, r, Sum, E
  <2>1. lowest = ScoreAt(scores, n) /\ lowest \in Nat /\ Totals(n, d, scores, lowest, a)
    BY <1>0, <1>1, <1>2
  <2> QED  BY <2>1, InNucleus
<1>3. k \in 1 .. n
  BY KeptCounts
<1>4. IsRanking(n, scores, r)
  BY <1>1, RankedIs
<1>5. /\ r \in [1 .. n -> 1 .. n]
      /\ \A i, j \in 1 .. n : r[i] = r[j] => i = j
      /\ \A t \in 1 .. n : \E i \in 1 .. n : r[i] = t
      /\ \A i \in 1 .. n : Better(scores, r[i]) = FirstOf(i - 1, r)
  <2> HIDE DEF r
  <2>1. r \in [1 .. n -> 1 .. n]  BY <1>4 DEF IsRanking
  <2>2. \A i, j \in 1 .. n : r[i] = r[j] => i = j  BY <1>1, <1>4, Ranks
  <2>3. \A t \in 1 .. n : \E i \in 1 .. n : r[i] = t
    <3>1. Onto(n, r)  BY <1>1, <1>4, Ranks
    <3> QED  BY <3>1 DEF Onto
  <2>4. \A i \in 1 .. n : Better(scores, r[i]) = FirstOf(i - 1, r)  BY <1>1, <1>4, Ranks
  <2> QED  BY <2>1, <2>2, <2>3, <2>4
<1>6. ASSUME NEW m \in 0 .. n  PROVE Sum(FirstOf(m, r)) = a[m]
  <2>1. SumOfWeights(d, scores, FirstOf(n, r), FirstOf(m, r)) = a[m]
    BY <1>0, <1>1, <1>2, SetWeighs
  <2> QED  BY <1>1, <2>1
<1>7. ASSUME NEW i \in 1 .. n  PROVE i <= k <=> E(r[i])
  <2> DEFINE better == Better(scores, r[i])
             p == i - 1
  <2>1. p \in 0 .. n /\ p \in Nat  OBVIOUS
  <2>2. better = FirstOf(p, r)
    <3> HIDE DEF r
    <3> QED  BY <1>5
  <2>3. better = {} <=> i = 1
    <3>1. i = 1 => 1 .. p = {}  OBVIOUS
    <3>2. i # 1 => 1 \in 1 .. p  OBVIOUS
    <3> HIDE DEF better, r, p
    <3> QED  BY <2>2, <3>1, <3>2 DEF FirstOf
  <2>4. Cardinality(better) = p
    <3> HIDE DEF r, better, p
    <3> QED  BY <1>1, <1>5, <2>1, <2>2, CountFirst
  <2>5. Sum(better) = a[p] /\ Sum(DOMAIN scores) = a[n]
    <3> HIDE DEF better, r, p, Sum
    <3>1. Sum(FirstOf(p, r)) = a[p] /\ Sum(FirstOf(n, r)) = a[n]
      BY <1>1, <1>6, <2>1
    <3> QED  BY <1>1, <2>2, <3>1
  <2>6. E(r[i]) <=> \/ i = 1
                    \/ d.temperature > 1 /\ how = "topk" /\ p < d.topK
                    \/ d.temperature > 1 /\ how = "topp" /\
                         /\ 1000 * a[p] < d.topP * a[n]
                         /\ 1000 * a[p] + 999 < Saturation
    <3> HIDE DEF r, p, Sum
    <3> QED  BY <2>3, <2>4, <2>5
  <2>7. d.temperature \in Nat
    BY <1>1 DEF Warm, DecoderState, Registers
  <2> HIDE DEF E
  <2>8. CASE how = "greedy" \/ d.temperature <= 1
    <3>1. k = 1  BY <2>8 DEF KeptCount
    <3>2. ~(d.temperature > 1 /\ how # "greedy")  BY <2>7, <2>8
    <3>3. E(r[i]) <=> i = 1  BY <2>6, <3>2
    <3> HIDE DEF k, r
    <3> QED  BY <3>1, <3>3
  <2>9. CASE d.temperature > 1 /\ how = "topk"
    <3>1. i <= k <=> p < d.topK  BY <2>9, KeptCounts
    <3>2. i = 1 => i <= k  BY <1>3
    <3> HIDE DEF k, r, p
    <3> QED  BY <2>6, <2>9, <3>1, <3>2
  <2>10. CASE d.temperature > 1 /\ how = "topp"
    <3> DEFINE short == 1000 * a[p] < d.topP * a[n] /\ 1000 * a[p] + 999 < Saturation
    <3>1. k = Nucleus(d, scores)  BY <2>7, <2>10 DEF KeptCount
    <3>2. i <= Nucleus(d, scores) <=> i = 1 \/ short
      BY <1>10
    <3>3. E(r[i]) <=> \/ i = 1
                      \/ d.temperature > 1 /\ how = "topk" /\ p < d.topK
                      \/ d.temperature > 1 /\ how = "topp" /\ short
      BY <2>6
    <3> HIDE DEF k, r, p, short
    <3>4. E(r[i]) <=> i = 1 \/ short  BY <2>10, <3>3
    <3> QED  BY <3>1, <3>2, <3>4
  <2>11. d.temperature > 1 \/ d.temperature <= 1  BY <2>7
  <2> QED  BY <2>8, <2>9, <2>10, <2>11 DEF Hows
<1>8. Listed(how, d, scores) = {t \in 1 .. n : E(t)}
  BY <1>1 DEF Listed
<1>9. FirstOf(k, r) = {t \in 1 .. n : E(t)}
  <2> HIDE DEF E, r, k
  <2>1. \A j \in 1 .. k : j \in 1 .. n /\ j <= k  BY <1>3
  <2>2. \A j \in 1 .. n : j <= k => j \in 1 .. k  BY <1>3
  <2>3. ASSUME NEW t \in FirstOf(k, r)  PROVE t \in 1 .. n /\ E(t)
    <3>1. PICK i \in 1 .. k : t = r[i]  BY <2>3 DEF FirstOf
    <3>2. i \in 1 .. n /\ i <= k  BY <2>1
    <3>3. r[i] \in 1 .. n  BY <1>5, <3>2
    <3>4. E(r[i])  BY <1>7, <3>2
    <3> QED  BY <3>1, <3>3, <3>4
  <2>4. ASSUME NEW t \in 1 .. n, E(t)  PROVE t \in FirstOf(k, r)
    <3>1. PICK i \in 1 .. n : r[i] = t  BY <1>5
    <3>2. i <= k  BY <1>7, <2>4, <3>1
    <3> QED  BY <2>2, <3>1, <3>2 DEF FirstOf
  <2> QED  BY <2>3, <2>4
<1> QED  BY <1>8, <1>9

(* And those of the list that a ticket reaches.                            *)
LEMMA KeptIsEligible ==
  ASSUME NEW n \in Nat \ {0}, NEW scores \in [1 .. n -> Nat], NEW d, Clamped(d),
         NEW how \in Hows
  PROVE  Kept(how, d, scores) = Eligible(how, d, scores)
<1> DEFINE r == Ranked(scores)
           k == KeptCount(how, d, scores)
           base == IF how = "topk" THEN k ELSE n
           lowest == ScoreAt(scores, base)
           listed == Listed(how, d, scores)
           weighed == IF how = "topk" THEN listed ELSE DOMAIN scores
           Sum(t) == SumOfWeights(d, scores, weighed, Better(scores, t))
           Below(j) == WeightOf(d, scores, lowest, j - 1) < Tickets
<1>1. /\ Warm(d) /\ n \in Nat /\ n \in 1 .. n /\ DOMAIN scores = 1 .. n /\ Len(scores) = n
      /\ FirstOf(n, r) = 1 .. n
  BY ClampedWarm, ScoresListed
<1>2. k \in 1 .. n /\ base \in 1 .. n
  BY <1>1, KeptCounts
<1>3. lowest \in Nat  BY <1>2, ScoresListed
<1>4. listed = FirstOf(k, r)  BY ListedAre
<1>5. weighed = FirstOf(base, r)  BY <1>1, <1>4
<1>6. Kept(how, d, scores) = {r[i] : i \in {j \in 1 .. k : Below(j)}}
  BY <1>1 DEF Kept, KeptCount
<1>7. Eligible(how, d, scores) = {t \in listed : Sum(t) < Tickets}
  BY DEF Eligible
<1>8. ASSUME NEW i \in 1 .. k  PROVE Below(i) <=> Sum(r[i]) < Tickets
  <2> DEFINE p == i - 1
             low == lowest
  <2>1. i \in 1 .. n /\ p \in 0 .. n  BY <1>2
  <2>2. low = ScoreAt(scores, base) /\ low \in Nat  BY <1>3
  <2> HIDE DEF low
  <2>3. PICK a : Totals(n, d, scores, low, a)  BY <1>1, <2>2, TotalsExist
  <2>4. WeightOf(d, scores, low, p) = a[p]
    <3> HIDE DEF p
    <3> QED  BY <1>1, <2>1, <2>2, <2>3, PrefixWeighs
  <2>5. Better(scores, r[i]) = FirstOf(p, r)
    <3>1. IsRanking(n, scores, r)  BY <1>1, RankedIs
    <3> HIDE DEF r
    <3> QED  BY <1>1, <2>1, <3>1, Ranks
  <2>6. SumOfWeights(d, scores, FirstOf(base, r), FirstOf(p, r)) = a[p]
    <3> HIDE DEF p, base
    <3> QED  BY <1>1, <1>2, <2>1, <2>2, <2>3, SetWeighs
  <2>7. Sum(r[i]) = a[p]
    <3> HIDE DEF p, base, r, weighed
    <3> QED  BY <1>5, <2>5, <2>6
  <2> HIDE DEF Sum, r
  <2> QED  BY <2>4, <2>7 DEF low
<1> HIDE DEF Below, Sum, listed, r, k
<1>9. {r[i] : i \in {j \in 1 .. k : Below(j)}} = {t \in listed : Sum(t) < Tickets}
  BY <1>4, <1>8 DEF FirstOf
<1> QED  BY <1>6, <1>7, <1>9

LEMMA ListOfScores ==
  ASSUME NEW scores \in ScoreLists
  PROVE  \E n \in Nat \ {0} : n <= Vocabulary /\ scores \in [1 .. n -> Nat]
<1>1. PICK n \in Tokens : scores \in [1 .. n -> Scores]  BY DEF ScoreLists
<1>2. n \in Nat \ {0} /\ n <= Vocabulary
  <2>1. Vocabulary \in Nat  BY DecoderAssumption
  <2>2. n \in 1 .. Vocabulary  BY <1>1 DEF Tokens
  <2> QED  BY <2>1, <2>2
<1>3. scores \in [1 .. n -> Nat]  BY <1>1, DecoderAssumption
<1> QED  BY <1>2, <1>3

LEMMA KeptAreTokens ==
  ASSUME NEW scores \in ScoreLists, NEW d, Clamped(d), NEW how \in Hows
  PROVE  Kept(how, d, scores) \in SUBSET Tokens
<1>1. PICK n \in Nat \ {0} : n <= Vocabulary /\ scores \in [1 .. n -> Nat]
  BY ListOfScores
<1>2. Kept(how, d, scores) = Eligible(how, d, scores)
  BY <1>1, KeptIsEligible
<1>3. Eligible(how, d, scores) \in SUBSET DOMAIN scores
  BY DEF Eligible, Listed
<1>4. DOMAIN scores = 1 .. n /\ 1 .. n \in SUBSET Tokens
  <2>1. Vocabulary \in Nat /\ n \in Nat /\ n <= Vocabulary  BY <1>1, DecoderAssumption
  <2>2. \A t \in 1 .. n : t \in 1 .. Vocabulary  BY <2>1
  <2>3. DOMAIN scores = 1 .. n  BY <1>1
  <2> QED  BY <2>2, <2>3 DEF Tokens
<1> QED  BY <1>2, <1>3, <1>4

-----------------------------------------------------------------------------
(* The registers are clamped as they are stored to, whatever is stored;    *)
(* the keyboard of somebody else, and a driver nobody runs, stay as they   *)
(* were.                                                                   *)
IdleDriver ==
  [ready |-> FALSE, handler |-> "out", claimed |-> NoSource, owed |-> 0, seen |-> 0, keys |-> {}]
RestInv ==
  /\ user # "keys" => input = NewInput
  /\ user \notin {"disk", "keys"} => driver = IdleDriver
  /\ Clamped(decoder)

LEMMA Largest ==
  /\ LargestWord \in Nat /\ 1000 <= LargestWord
  /\ Words \in SUBSET Nat /\ Vocabulary \in Nat \ {0}
<1>1. 256 * 256 = 65536  OBVIOUS
<1>2. LargestWord = 65535  BY <1>1 DEF LargestWord
<1>3. Words \in SUBSET (0 .. LargestWord)  BY DecoderAssumption DEF LargestWord
<1>4. Vocabulary \in Nat \ {0}  BY DecoderAssumption
<1>5. LargestWord \in Nat /\ 1000 <= LargestWord  BY <1>2
<1>6. Words \in SUBSET Nat
  <2>1. \A x \in 0 .. LargestWord : x \in Nat  BY <1>5
  <2> QED  BY <1>3, <2>1
<1> QED  BY <1>4, <1>5, <1>6

LEMMA BytewiseClamps ==
  ASSUME NEW most \in {LargestWord, 1000}, NEW old \in Registers, NEW word \in Words
  PROVE  Bytewise(most, old, word) \in 1 .. most
<1> DEFINE low == Limited(most, (old \div 256) * 256 + (word % 256))
           x == (word \div 256) * 256 + (low % 256)
<1>1. most \in Nat /\ 1 <= most /\ old \in Nat /\ word \in Nat
  BY Largest DEF Registers
<1>2. (old \div 256) * 256 + (word % 256) \in Int
  BY <1>1
<1>3. low \in Int
  BY <1>1, <1>2 DEF Limited
<1>4. x \in Int
  <2> HIDE DEF low
  <2> QED  BY <1>1, <1>3
<1>5. Bytewise(most, old, word) = Limited(most, x)
  BY DEF Bytewise
<1> HIDE DEF x
<1> QED  BY <1>1, <1>4, <1>5 DEF Limited

LEMMA StoresClamp ==
  ASSUME NEW d, Clamped(d), NEW word \in Words
  PROVE  /\ Clamped(StoreTopK(d, word)) /\ Clamped(StoreTemperature(d, word))
         /\ Clamped(StoreTopP(d, word))
<1>1. /\ d \in DecoderState /\ d.topK > 0 /\ d.temperature > 0 /\ d.topP \in 1 .. 1000
      /\ d.topK \in Registers /\ d.temperature \in Registers /\ d.topP \in Registers
  BY DEF Clamped, DecoderState
<1> DEFINE k == Bytewise(LargestWord, d.topK, word)
           t == Bytewise(LargestWord, d.temperature, word)
           p == Bytewise(1000, d.topP, word)
<1>2. k \in 1 .. LargestWord /\ t \in 1 .. LargestWord /\ p \in 1 .. 1000
  BY <1>1, BytewiseClamps
<1>3. \A x \in 1 .. LargestWord : x \in Registers /\ x > 0
  BY Largest DEF Registers
<1>4. \A x \in 1 .. 1000 : x \in Registers
  BY Largest DEF Registers
<1>5. /\ StoreTopK(d, word) = [d EXCEPT !.topK = k]
      /\ StoreTemperature(d, word) = [d EXCEPT !.temperature = t]
      /\ StoreTopP(d, word) = [d EXCEPT !.topP = p]
  BY DEF StoreTopK, StoreTemperature, StoreTopP
<1> HIDE DEF k, t, p
<1>6. Clamped([d EXCEPT !.topK = k])
  BY <1>1, <1>2, <1>3 DEF Clamped, DecoderState
<1>7. Clamped([d EXCEPT !.temperature = t])
  BY <1>1, <1>2, <1>3 DEF Clamped, DecoderState
<1>8. Clamped([d EXCEPT !.topP = p])
  BY <1>1, <1>2, <1>4 DEF Clamped, DecoderState
<1> QED  BY <1>5, <1>6, <1>7, <1>8

LEMMA RestInit == Init => RestInv
<1>1. 1 \in Tokens  BY Largest DEF Tokens
<1>2. 1 \in Registers /\ 1000 \in Registers /\ 900 \in Registers
  BY Largest DEF Registers
<1>3. Clamped(NewDecoder)
  BY <1>1, <1>2 DEF Clamped, NewDecoder, DecoderState
<1> QED  BY <1>3 DEF Init, RestInv, IdleDriver

LEMMA RestStep == RestInv /\ [Next]_vars => RestInv'
<1> SUFFICES ASSUME RestInv, [Next]_vars PROVE RestInv'
  OBVIOUS
<1>1. ASSUME OfEngine \/ UNCHANGED vars  PROVE RestInv'
  BY <1>1 DEF RestInv, OfEngine, vars
<1>2. ASSUME OfDisk  PROVE RestInv'
  BY <1>2 DEF RestInv, OfDisk
<1>3. ASSUME OfKeys  PROVE RestInv'
  BY <1>3 DEF RestInv, OfKeys
<1>4. ASSUME NEW word \in Words, StoreDecodeRegister(word)  PROVE RestInv'
  BY <1>4, StoresClamp DEF RestInv, StoreDecodeRegister, OfDecoder
<1>5. ASSUME NEW how \in Hows, NEW scores \in ScoreLists, Decode(how, scores)
      PROVE  RestInv'
  <2>1. PICK token \in Kept(how, decoder, scores) :
          decoder' = [decoder EXCEPT !.result = token]
    BY <1>5 DEF Decode
  <2>2. token \in Tokens  BY KeptAreTokens DEF RestInv
  <2>3. Clamped(decoder')  BY <2>1, <2>2 DEF RestInv, Clamped, DecoderState
  <2> QED  BY <1>5, <2>3 DEF RestInv, Decode, OfDecoder
<1> QED
  BY <1>1, <1>2, <1>3, <1>4, <1>5
  DEF Next, NotifyEngine, Doorbell, EngineControl, EngineStatus, DoorbellStatus, Custom0,
      SetUpDisk, Publish, Clock, StrayStore, NotifyDisk, DiskHandler, ClaimInterrupt, AckDisk,
      TakeUsed, LastLook, CompleteInterrupt, PressOrRelease, ReleaseAll, EnableKeys, AckKeys, LookAtKeys

(* For vocabularies of any size, any scores, and any number of tickets up  *)
(* to where sums saturate: the tokens drawn from are exactly those that    *)
(* may be, however equals are ranked, shares rounded and sums cut off      *)
(* (sample_from_candidates(), sample_from_nucleus_candidates()).           *)
THEOREM EligibleAreDrawn == Spec => []DrawsFromEligible
<1>1. RestInv => DrawsFromEligible
  <2> SUFFICES ASSUME RestInv, NEW how \in Hows, NEW scores \in ScoreLists
               PROVE  Kept(how, decoder, scores) = Eligible(how, decoder, scores)
    BY DEF DrawsFromEligible
  <2>1. PICK n \in Nat \ {0} : n <= Vocabulary /\ scores \in [1 .. n -> Nat]
    BY ListOfScores
  <2> QED  BY <2>1, KeptIsEligible DEF RestInv
<1> QED  BY <1>1, RestInit, RestStep, PTL DEF Spec

(* Whatever its user does, each device keeps its types: counters and       *)
(* indices wrap in time, and no command, request or store leaves a status, *)
(* a ring or a register that is none.                                      *)
THEOREM DevicesTypeCorrect == Spec => []TypeOK
<1>1. EngineInv /\ KeysInv /\ DiskInv /\ RestInv => TypeOK
  <2> SUFFICES ASSUME EngineInv, KeysInv, DiskInv, RestInv  PROVE TypeOK
    OBVIOUS
  <2>1. disk \in DiskState /\ queue \in QueueState /\ plic \in PlicState
    <3>3. NewPlic \in PlicState
      BY PlicAssumption DEF NewPlic, PlicState
    <3>1. NewDisk \in DiskState
      BY SomeIndices DEF NewDisk, DiskState, Places
    <3>2. NewQueue \in QueueState
      BY SomeIndices DEF NewQueue, QueueState, Requests
    <3> QED  BY <3>1, <3>2, <3>3 DEF DiskInv, DiskTyped
  <2>2. input \in InputState
    <3>1. NewInput \in InputState  BY DEF NewInput, InputState
    <3> QED  BY <3>1 DEF KeysInv, RestInv
  <2>3. driver \in Driver
    <3>1. IdleDriver \in Driver
      <4>1. 0 \in 0 .. QueueNum  BY VirtioAssumption
      <4> QED  BY <4>1, SomeIndices DEF IdleDriver, Driver
    <3> QED  BY <3>1 DEF DiskInv, DiskTyped, KeysInv, RestInv
  <2>4. decoder \in DecoderState
    BY DEF RestInv, Clamped
  <2> QED  BY <2>1, <2>2, <2>3, <2>4 DEF TypeOK, EngineInv
<1>2. EngineInv /\ [Next]_vars => EngineInv'
  BY EngineNext DEF EngineSteps
<1> QED
  BY <1>1, <1>2, EngineInit, KeysInit, KeysStep, DiskInit, DiskStep, RestInit, RestStep,
     PTL
  DEF Spec
=============================================================================
