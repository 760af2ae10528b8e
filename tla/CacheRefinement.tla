--------------------------- MODULE CacheRefinement ---------------------------
(***************************************************************************)
(* Cache.tla implements FlatMemory.tla: what the cores see through a cache *)
(* is one array of bytes, whatever is filled, evicted, flushed or refused. *)
(***************************************************************************)
EXTENDS CacheProofs

(* Nothing reaches memory around the cache.                                *)
Transparent == SoundPolicies /\ AllWritable /\ Bypassed = {}

-----------------------------------------------------------------------------
(* The bytes of an access that stays in one line.                          *)

LEMMA Division ==
  ASSUME NEW x \in Nat, NEW m \in Nat \ {0}
  PROVE  /\ x = (x \div m) * m + (x % m)
         /\ x % m \in 0 .. m - 1 /\ x \div m \in Nat
BY SMTT(30)

LEMMA SlicesUnique ==
  ASSUME NEW b \in Nat, NEW q \in Nat, NEW r \in Offsets, b = q * LineSize + r
  PROVE  LineOf(b) = q /\ OffsetOf(b) = r
<1>1. LineSize \in Nat \ {0}
  BY CacheAssumption
<1>2. r \in Nat /\ r < LineSize
  BY <1>1 DEF Offsets
<1>3. b = (b \div LineSize) * LineSize + (b % LineSize)
      /\ b % LineSize \in 0 .. LineSize - 1 /\ b \div LineSize \in Nat
  BY <1>1, Division
<1>4. ASSUME NEW x \in Nat, NEW y \in Nat, x > y
      PROVE  x * LineSize >= y * LineSize + LineSize
  BY <1>1, <1>4, SMTT(30)
<1>5. b \div LineSize = q
  BY <1>1, <1>2, <1>3, <1>4
<1> QED
  BY <1>1, <1>2, <1>3, <1>5 DEF LineOf, OffsetOf

LEMMA BytesInLine ==
  ASSUME NEW a \in Addrs, NEW n \in Widths, ~Straddles(a, n),
         NEW b \in Flat!Bytes(a, n)
  PROVE  /\ b \in Addrs /\ LineOf(b) = LineOf(a)
         /\ OffsetOf(b) = OffsetOf(a) + (b - a)
<1>0. LineSize \in Nat \ {0} /\ LineCount \in Nat \ {0} /\ a \in Nat /\ n \in Nat \ {0}
  BY CacheAssumption, WidthBounds DEF Addrs
<1>1. b \in Nat /\ a <= b /\ b < a + n
  BY <1>0 DEF Flat!Bytes
<1>2. /\ LineOf(a) \in Nat /\ LineOf(a) < LineCount /\ OffsetOf(a) \in Nat
      /\ a = LineOf(a) * LineSize + OffsetOf(a) /\ OffsetOf(a) + n <= LineSize
  BY <1>0, AddressSlices DEF Lines, Offsets, Straddles
<1> DEFINE q == LineOf(a)
           r == OffsetOf(a) + (b - a)
<1>3. r \in Nat /\ r < LineSize /\ r \in Offsets
  BY <1>0, <1>1, <1>2 DEF Offsets
<1>4. q * LineSize \in Nat
  BY <1>0, <1>2
<1>5. b = q * LineSize + r
  BY <1>0, <1>1, <1>2, <1>4
<1>6. (q + 1) * LineSize <= LineCount * LineSize /\ (q + 1) * LineSize = q * LineSize + LineSize
  BY <1>0, <1>2, SMTT(30)
<1> HIDE DEF q, r
<1>7. LineOf(b) = q /\ OffsetOf(b) = r
  BY <1>1, <1>2, <1>3, <1>5, SlicesUnique DEF q
<1>8. b < LineCount * LineSize
  BY <1>0, <1>3, <1>4, <1>5, <1>6
<1>9. LineCount * LineSize \in Nat
  BY <1>0
<1> QED
  BY <1>1, <1>7, <1>8, <1>9 DEF Addrs, q, r

(* ... and no byte of that line is missed.                                 *)
LEMMA BytesOfLine ==
  ASSUME NEW a \in Addrs, NEW n \in Widths, ~Straddles(a, n),
         NEW b \in Addrs, LineOf(b) = LineOf(a)
  PROVE  b \in Flat!Bytes(a, n) <=> OffsetOf(b) \in OffsetOf(a) .. (OffsetOf(a) + n - 1)
<1>1. /\ b = LineOf(b) * LineSize + OffsetOf(b) /\ OffsetOf(b) \in Nat
      /\ a = LineOf(a) * LineSize + OffsetOf(a) /\ OffsetOf(a) \in Nat
      /\ LineOf(a) * LineSize \in Nat /\ n \in Nat
  BY AddressSlices, WidthBounds, CacheAssumption DEF Offsets, Lines
<1> DEFINE base == LineOf(a) * LineSize
<1>2. b = base + OffsetOf(b) /\ a = base + OffsetOf(a) /\ base \in Nat
  BY <1>1
<1> HIDE DEF base
<1> QED
  BY <1>1, <1>2 DEF Flat!Bytes

LEMMA BytesMapped ==
  ASSUME NEW a \in Addrs, NEW n \in Widths, ~Straddles(a, n)
  PROVE  Flat!Bytes(a, n) \subseteq Mapped <=> Readable(LineOf(a))
<1>1. a \in Flat!Bytes(a, n)
  BY WidthBounds DEF Flat!Bytes, Addrs
<1> QED
  BY <1>1, BytesInLine DEF Mapped

-----------------------------------------------------------------------------
(* Steps.                                                                  *)

ViewsKept == \A k \in Lines : View(k)' = View(k)
ViewsChangedAt(l, data) ==
  View(l)' = data /\ \A k \in Lines : k # l => View(k)' = View(k)

LEMMA KeptContents ==
  ASSUME ViewsKept
  PROVE  UNCHANGED Contents
BY AddressSlices DEF ViewsKept, Contents

LEMMA LoadStep ==
  ASSUME NEW a \in Addrs, NEW n \in Widths, ~Straddles(a, n), ViewsKept,
         Readable(LineOf(a)),
         out' = Loaded(Slice(View(LineOf(a)), OffsetOf(a), n))
  PROVE  Flat!Load(a, n)
<1>1. ASSUME NEW i \in 1..n
      PROVE  View(LineOf(a))[OffsetOf(a) + i - 1] = Contents[a + i - 1]
  <2>0. a \in Nat /\ n \in Nat /\ OffsetOf(a) \in Nat
    BY WidthBounds, AddressSlices DEF Addrs, Offsets
  <2>1. a + i - 1 \in Flat!Bytes(a, n)
    BY <2>0 DEF Flat!Bytes
  <2>2. /\ a + i - 1 \in Addrs /\ LineOf(a + i - 1) = LineOf(a)
        /\ OffsetOf(a + i - 1) = OffsetOf(a) + ((a + i - 1) - a)
    BY <2>1, BytesInLine
  <2>3. OffsetOf(a + i - 1) = OffsetOf(a) + i - 1
    BY <2>0, <2>2
  <2> QED
    BY <2>2, <2>3 DEF Contents
<1>2. Slice(View(LineOf(a)), OffsetOf(a), n) = [i \in 1..n |-> Contents[a + i - 1]]
  BY <1>1 DEF Slice
<1> QED
  BY <1>2, BytesMapped, KeptContents DEF Flat!Load, Flat!Loaded, Loaded

LEMMA StoreStep ==
  ASSUME NEW a \in Addrs, NEW n \in Widths, NEW v \in [1..n -> Values],
         ~Straddles(a, n), Readable(LineOf(a)), out' = Done,
         ViewsChangedAt(LineOf(a), Patch(View(LineOf(a)), OffsetOf(a), n, v))
  PROVE  Flat!Store(a, n, v)
<1>1. ASSUME NEW b \in Addrs
      PROVE  Contents'[b] = IF b \in Flat!Bytes(a, n) THEN v[b - a + 1] ELSE Contents[b]
  <2>0. /\ LineOf(b) \in Lines /\ OffsetOf(b) \in Offsets /\ OffsetOf(a) \in Nat
        /\ a \in Nat /\ b \in Nat
        /\ Contents[b] = View(LineOf(b))[OffsetOf(b)]
        /\ Contents'[b] = View(LineOf(b))'[OffsetOf(b)]
    BY AddressSlices DEF Contents, Addrs, Offsets
  <2>1. CASE LineOf(b) # LineOf(a)
    BY <2>0, <2>1, BytesInLine DEF ViewsChangedAt
  <2>2. CASE LineOf(b) = LineOf(a)
    <3>1. Contents'[b] = IF b \in Flat!Bytes(a, n)
                         THEN v[OffsetOf(b) - OffsetOf(a) + 1]
                         ELSE View(LineOf(b))[OffsetOf(b)]
      BY <2>0, <2>2, BytesOfLine DEF ViewsChangedAt, Patch
    <3>2. b \in Flat!Bytes(a, n) => OffsetOf(b) - OffsetOf(a) + 1 = b - a + 1
      BY <2>0, BytesInLine
    <3> QED
      BY <2>0, <3>1, <3>2
  <2> QED
    BY <2>1, <2>2
<1>2. Contents' = [b \in Addrs |-> Contents'[b]]
  BY DEF Contents
<1> QED
  BY <1>1, <1>2, BytesMapped DEF Flat!Store, Flat!Done, Done

LEMMA RefuseStep ==
  ASSUME NEW a \in Addrs, NEW n \in Widths, ~Straddles(a, n), ViewsKept,
         ~Readable(LineOf(a)), out' = Refused
  PROVE  Flat!Refuse(a, n)
BY BytesMapped, KeptContents DEF Flat!Refuse, Flat!Refused, Refused

LEMMA MaintainStep ==
  ASSUME ViewsKept, out' = Done
  PROVE  Flat!Maintain
BY KeptContents DEF Flat!Maintain, Flat!Done, Done

(* Retiring or installing lines changes views as the steps above say.      *)
LEMMA RetireViews ==
  ASSUME CoherenceInv, UniqueInv', Bypassed = {}, Retires
  PROVE  ViewsKept
BY RetireView DEF ViewsKept

LEMMA InstallViews ==
  ASSUME CoherenceInv, UniqueInv', Bypassed = {}, NEW l \in Lines,
         NEW data \in LineData, Installed(l, data)
  PROVE  ViewsChangedAt(l, data)
BY InstallView DEF Installed, ViewsChangedAt

LEMMA SameViews ==
  ASSUME UNCHANGED <<sets, mem>>
  PROVE  ViewsKept
BY DEF ViewsKept, View, HitWays

(* A fill that fails does so because nothing answers at the line.          *)
LEMMA FailedFillUnmapped ==
  ASSUME CoherenceInv, AllWritable, NEW l \in Lines, NEW w \in WayIds, FillFails(l, w)
  PROVE  ~Readable(l)
<1>1. SetOf(l) \in SetIds
  BY LineSlices DEF Lines
<1> QED
  BY <1>1, NothingFails DEF FillFails

LEMMA AccessStep ==
  ASSUME CoherenceInv, UniqueInv', Transparent, UNCHANGED config, Access
  PROVE  Flat!Next
<1> USE DEF Transparent
<1> PICK a \in Addrs, n \in Widths :
         \/ ReadHit(a, n) \/ ReadMiss(a, n) \/ ReadStraddling(a, n)
         \/ \E v \in [1..n -> Values] :
              \/ WriteHit(a, n, v) \/ WriteMissAllocate(a, n, v)
              \/ WriteMissAround(a, n, v) \/ WriteStraddling(a, n, v)
  BY DEF Access
<1> DEFINE l == LineOf(a)
           o == OffsetOf(a)
<1>0. l \in Lines /\ View(l) \in LineData /\ SetOf(l) \in SetIds /\ o \in Nat
  BY AddressSlices, LineSlices, ViewType DEF CoherenceInv, Lines, Offsets
<1>1. ~MayStraddle(a, n)
  BY <1>0 DEF MayStraddle
<1>2. CASE ReadHit(a, n)
  <2>1. PICK w \in WayIds : /\ Hit(l, w)
                            /\ out' = Loaded(Slice(sets[SetOf(l)][w].data, o, n))
    BY <1>2 DEF ReadHit
  <2>2. View(l) = sets[SetOf(l)][w].data /\ Readable(l)
    BY <1>0, <2>1, ViewCached, HitReadable DEF Hit, CoherenceInv, UniqueInv
  <2>3. ViewsKept /\ ~Straddles(a, n)
    BY <1>2, SameViews DEF ReadHit
  <2>4. Flat!Load(a, n)
    BY <2>1, <2>2, <2>3, LoadStep
  <2> QED
    BY <2>4 DEF Flat!Next
<1>3. CASE ReadMiss(a, n)
  <2>1. ~Straddles(a, n)
    BY <1>3 DEF ReadMiss
  <2>2. CASE Retires /\ out' = Refused /\ \E w \in WayIds : FillFails(l, w)
    BY <1>0, <2>1, <2>2, FailedFillUnmapped, RetireViews, RefuseStep DEF Flat!Next
  <2>3. CASE /\ Installed(l, View(l)) /\ Readable(l)
             /\ out' = Loaded(Slice(View(l), o, n))
    <3>1. ViewsChangedAt(l, View(l))
      BY <1>0, <2>3, InstallViews
    <3>2. ViewsKept
      BY <3>1 DEF ViewsChangedAt, ViewsKept
    <3>3. Flat!Load(a, n)
      BY <2>1, <2>3, <3>2, LoadStep
    <3> QED
      BY <3>3 DEF Flat!Next
  <2> QED
    BY <1>3, <2>2, <2>3, LoadMissInstalls
<1>4. ASSUME NEW v \in [1..n -> Values], WriteHit(a, n, v) \/ WriteMissAllocate(a, n, v)
      PROVE  Flat!Next
  <2> DEFINE data == Patch(View(l), o, n, v)
  <2>1. ~Straddles(a, n)
    BY <1>4 DEF WriteHit, WriteMissAllocate
  <2>2. CASE Retires /\ out' = Refused /\ \E w \in WayIds : FillFails(l, w)
    BY <1>0, <2>1, <2>2, FailedFillUnmapped, RetireViews, RefuseStep DEF Flat!Next
  <2>3. CASE Installed(l, data) /\ Readable(l) /\ out' = Done
    <3>1. data \in LineData
      BY <1>0, WidthBounds, PatchType
    <3>2. ViewsChangedAt(l, data)
      <4> HIDE DEF data
      <4> QED
        BY <1>0, <2>3, <3>1, InstallViews
    <3>3. Flat!Store(a, n, v)
      BY <2>1, <2>3, <3>2, StoreStep
    <3> QED
      BY <3>3 DEF Flat!Next
  <2> QED
    BY <1>4, <2>2, <2>3, StoreHitInstalls, StoreMissInstalls
<1>5. ASSUME NEW v \in [1..n -> Values], WriteMissAround(a, n, v)
      PROVE  Flat!Next
  <2>1. ~Straddles(a, n) /\ Miss(l) /\ UNCHANGED sets
    BY <1>5 DEF WriteMissAround
  <2>2. CASE ~Readable(l)
    <3>1. out' = Refused /\ ViewsKept
      BY <1>5, <2>2, SameViews DEF WriteMissAround, Readable, Writable
    <3> QED
      BY <2>1, <2>2, <3>1, RefuseStep DEF Flat!Next
  <2>3. CASE Readable(l)
    <3>1. Writable(l)
      BY <1>0, <2>3 DEF AllWritable
    <3>2. out' = Done /\ mem' = [mem EXCEPT ![l] = Patch(mem[l], o, n, v)]
      BY <1>5, <3>1 DEF WriteMissAround, BusPatched
    <3>3. mem'[l] = Patch(mem[l], o, n, v) /\ \A k \in Lines : k # l => mem'[k] = mem[k]
      BY <1>0, <3>2 DEF CoherenceInv, UniqueInv, TypeOK
    <3>4. \A k \in Lines : HitWays(k)' = HitWays(k)
      BY <2>1 DEF HitWays
    <3>5. ViewsChangedAt(l, Patch(View(l), o, n, v))
      <4>1. View(l) = mem[l] /\ View(l)' = mem'[l]
        BY <1>0, <2>1, <3>4 DEF View, Miss
      <4>2. ASSUME NEW k \in Lines, k # l
            PROVE  View(k)' = View(k)
        <5>1. CASE HitWays(k) = {}
          BY <3>3, <3>4, <4>2, <5>1 DEF View
        <5>2. CASE HitWays(k) # {}
          <6>1. PICK w \in WayIds : w \in HitWays(k)
            BY <5>2 DEF HitWays
          <6>2. (w \in HitWays(k))' /\ View(k) = sets[SetOf(k)][w].data
            BY <3>4, <6>1, ViewCached DEF CoherenceInv
          <6>3. View(k)' = sets'[SetOf(k)][w].data
            BY <6>1, <6>2, ViewCopiedNext DEF ViewsAreCopies
          <6> QED
            BY <2>1, <6>2, <6>3
        <5> QED
          BY <5>1, <5>2
      <4> QED
        BY <3>3, <4>1, <4>2 DEF ViewsChangedAt
    <3>6. Flat!Store(a, n, v)
      BY <2>1, <2>3, <3>2, <3>5, StoreStep
    <3> QED
      BY <3>6 DEF Flat!Next
  <2> QED
    BY <2>2, <2>3
<1> QED
  BY <1>1, <1>2, <1>3, <1>4, <1>5 DEF ReadStraddling, WriteStraddling

LEMMA CpuStep ==
  ASSUME CoherenceInv, Transparent, [CpuNext]_vars
  PROVE  [Flat!Next]_(Flat!vars)
<1> USE DEF Transparent
<1>0. UniqueInv'
  BY NextUnique DEF Next, CoherenceInv
<1>1. CASE Access /\ UNCHANGED config
  BY <1>0, <1>1, AccessStep
<1>2. CASE (FlushAllWithBus \/ PipelineReset) /\ UNCHANGED config
  <2>1. ViewsKept
    BY <1>0, <1>2, MaintenanceRetires, RetireViews
  <2>2. out' = Done
    BY <1>2, NothingFails DEF FlushAllWithBus, PipelineReset, FlushOk
  <2> QED
    BY <2>1, <2>2, MaintainStep DEF Flat!Next
<1>3. ASSUME NEW a \in Addrs, InvalidateWithBus(a), UNCHANGED config
      PROVE  Flat!Next
  <2>1. ViewsKept
    BY <1>0, <1>3, InvalidateRetires, RetireViews
  <2>2. SetOf(LineOf(a)) \in SetIds
    BY AddressSlices, LineSlices DEF Lines
  <2>3. out' = Done
    BY <1>3, <2>2, NothingFails DEF InvalidateWithBus
  <2> QED
    BY <2>1, <2>3, MaintainStep DEF Flat!Next
<1>4. CASE UNCHANGED vars
  <2>1. ViewsKept /\ UNCHANGED out
    BY <1>4, SameViews DEF vars
  <2> QED
    BY <2>1, KeptContents DEF Flat!vars
<1> QED
  BY <1>1, <1>2, <1>3, <1>4 DEF CpuNext

LEMMA InitStep == Init => Flat!Init
<1> SUFFICES ASSUME Init PROVE Flat!Init
  OBVIOUS
<1>1. UniqueInv
  BY InitUnique
<1>2. ASSUME NEW b \in Addrs
      PROVE  View(LineOf(b))[OffsetOf(b)] \in Values
  BY <1>1, AddressSlices, ViewType DEF LineData
<1>3. Contents \in [Addrs -> Values]
  BY <1>2 DEF Contents
<1> QED
  BY <1>3 DEF Init, Flat!Init, Flat!Done, Done

(* A cache whose policies are sound, over memory nobody else writes, is    *)
(* invisible: every load, store, refusal, eviction, flush and reset is a   *)
(* step of the flat memory, for every geometry and every memory map.       *)
THEOREM CacheIsInvisible == Transparent => (CpuSpec => RefinesFlatMemory)
<1> SUFFICES ASSUME Transparent
             PROVE  CpuSpec => RefinesFlatMemory
  OBVIOUS
<1>1. Init => CoherenceInv
  BY InitUnique, EmptyClean
     DEF Init, CoherenceInv, DirtyOnlyInWriteBack, CleanMatchesMemory
<1>2. CoherenceInv /\ [CpuNext]_vars => CoherenceInv'
  BY NextCoherent DEF Next, Transparent
<1>3. CoherenceInv /\ [CpuNext]_vars => [Flat!Next]_(Flat!vars)
  BY CpuStep
<1> QED
  BY <1>1, <1>2, <1>3, InitStep, PTL DEF CpuSpec, Flat!Spec, RefinesFlatMemory
=============================================================================
