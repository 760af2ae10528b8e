----------------------------- MODULE CacheProofs -----------------------------
(***************************************************************************)
(* Proofs about Cache.tla, for every geometry, memory map and value set:   *)
(* types, uniqueness, coherence, and what is kept where the bus refuses.   *)
(***************************************************************************)
EXTENDS Cache, TLAPS

-----------------------------------------------------------------------------
(* Address slicing: set and tag name a line, and nothing else.             *)

LEMMA LineSlices ==
  ASSUME NEW l \in Nat
  PROVE  /\ SetOf(l) \in SetIds /\ TagOf(l) \in Nat
         /\ LineNo(SetOf(l), TagOf(l)) = l
BY CacheAssumption, SMTT(30) DEF SetOf, TagOf, SetIds, LineNo

LEMMA LineNoInverse ==
  ASSUME NEW s \in SetIds, NEW t \in Nat
  PROVE  LineNo(s, t) \in Nat /\ SetOf(LineNo(s, t)) = s /\ TagOf(LineNo(s, t)) = t
BY CacheAssumption, SMTT(30) DEF SetOf, TagOf, SetIds, LineNo

LEMMA AddressSlices ==
  ASSUME NEW a \in Addrs
  PROVE  /\ LineOf(a) \in Lines /\ OffsetOf(a) \in Offsets
         /\ a = LineOf(a) * LineSize + OffsetOf(a)
<1>1. a \in Nat /\ LineSize \in Nat \ {0} /\ LineCount \in Nat \ {0}
  BY CacheAssumption DEF Addrs
<1>2. a = (a \div LineSize) * LineSize + (a % LineSize)
      /\ a % LineSize \in 0 .. LineSize - 1 /\ a \div LineSize \in Nat
  BY <1>1, SMTT(30)
<1>3. a < LineCount * LineSize
  BY <1>1 DEF Addrs
<1>4. ASSUME NEW q \in Nat, q >= LineCount
      PROVE  q * LineSize >= LineCount * LineSize
  BY <1>1, <1>4, SMTT(30)
<1>5. a \div LineSize < LineCount
  BY <1>1, <1>2, <1>3, <1>4
<1> QED
  BY <1>1, <1>2, <1>5 DEF LineOf, OffsetOf, Lines, Offsets

LEMMA WidthBounds ==
  ASSUME NEW n \in Widths
  PROVE  n \in Nat \ {0} /\ n <= LineSize
BY CacheAssumption

-----------------------------------------------------------------------------
(* Type correctness.                                                       *)

LEMMA PatchType ==
  ASSUME NEW d \in LineData, NEW o \in Nat, NEW n \in Nat,
         NEW v \in [1..n -> Values]
  PROVE  Patch(d, o, n, v) \in LineData
<1>1. ASSUME NEW i \in Offsets, i \in o .. (o + n - 1)
      PROVE  v[i - o + 1] \in Values
  <2>1. i - o + 1 \in 1..n
    BY <1>1 DEF Offsets
  <2> QED
    BY <2>1
<1> QED
  BY <1>1 DEF Patch, LineData

LEMMA OutcomeType ==
  /\ Done.ok \in BOOLEAN /\ Refused.ok \in BOOLEAN
  /\ \A v : Loaded(v).ok \in BOOLEAN
BY Zenon DEF Done, Refused, Loaded

LEMMA EmptyType == EmptyLine \in CacheLine
BY CacheAssumption DEF EmptyLine, CacheLine, LineData, Tags

LEMMA AdvancedType ==
  ASSUME TypeOK, NEW s \in SetIds
  PROVE  Advanced(s) \in [SetIds -> WayIds]
<1>1. (nextVictim[s] + 1) % Ways \in WayIds
  BY CacheAssumption, SMTT(30) DEF TypeOK, WayIds
<1> QED
  BY <1>1 DEF Advanced, TypeOK

LEMMA WrittenBackType ==
  ASSUME TypeOK, NEW s \in SetIds, NEW w \in WayIds
  PROVE  MemWrittenBack(s, w) \in [Lines -> LineData]
BY DEF MemWrittenBack, TypeOK, CacheLine

LEMMA PutType ==
  ASSUME TypeOK, NEW s \in SetIds, NEW w \in WayIds, NEW line \in CacheLine
  PROVE  PutLine(s, w, line) \in [SetIds -> [WayIds -> CacheLine]]
BY DEF PutLine, TypeOK

LEMMA HoldingType ==
  ASSUME TypeOK, NEW l \in Lines, NEW w \in WayIds, NEW d \in BOOLEAN,
         NEW data \in LineData
  PROVE  Holding(l, w, d, data) \in [SetIds -> [WayIds -> CacheLine]]
<1>1. l \in Nat
  BY DEF Lines
<1>2. [valid |-> TRUE, dirty |-> d, tag |-> TagOf(l), data |-> data] \in CacheLine
  BY <1>1, LineSlices DEF CacheLine, Tags
<1> QED
  BY <1>1, <1>2, LineSlices, PutType DEF Holding

LEMMA FillFailsType ==
  ASSUME TypeOK, NEW l \in Lines, NEW w \in WayIds, FillFails(l, w)
  PROVE  /\ sets' \in [SetIds -> [WayIds -> CacheLine]]
         /\ nextVictim' \in [SetIds -> WayIds]
         /\ mem' \in [Lines -> LineData]
         /\ out'.ok \in BOOLEAN
<1>1. SetOf(l) \in SetIds
  BY LineSlices DEF Lines
<1>2. nextVictim' \in [SetIds -> WayIds]
  BY <1>1, AdvancedType DEF FillFails
<1>3. out'.ok \in BOOLEAN
  BY OutcomeType DEF FillFails
<1>4. mem' \in [Lines -> LineData]
  BY <1>1, WrittenBackType DEF FillFails, TypeOK
<1>5. Cleaned(SetOf(l), w) \in CacheLine
  BY <1>1 DEF Cleaned, TypeOK, CacheLine
<1>6. sets' \in [SetIds -> [WayIds -> CacheLine]]
  <2>1. PutLine(SetOf(l), w, Cleaned(SetOf(l), w)) \in [SetIds -> [WayIds -> CacheLine]]
    BY <1>1, <1>5, PutType
  <2>2. \/ sets' = sets
        \/ sets' = PutLine(SetOf(l), w, Cleaned(SetOf(l), w))
    BY DEF FillFails
  <2> QED
    BY <2>1, <2>2 DEF TypeOK
<1> QED
  BY <1>2, <1>3, <1>4, <1>6

LEMMA FlushType ==
  ASSUME TypeOK
  PROVE  MemFlushed \in [Lines -> LineData]
<1>1. ASSUME NEW l \in Lines, FlushedFrom(l) # {}
      PROVE  sets[SetOf(l)][CHOOSE w \in FlushedFrom(l) : TRUE].data \in LineData
  <2>1. SetOf(l) \in SetIds
    BY LineSlices DEF Lines
  <2>2. (CHOOSE w \in FlushedFrom(l) : TRUE) \in WayIds
    BY <1>1 DEF FlushedFrom
  <2> QED
    BY <2>1, <2>2 DEF TypeOK, CacheLine
<1> QED
  BY <1>1 DEF MemFlushed, TypeOK

LEMMA AccessType ==
  ASSUME TypeOK, Access, UNCHANGED config
  PROVE  TypeOK'
<1> USE DEF TypeOK
<1> SUFFICES ASSUME NEW a \in Addrs, NEW n \in Widths,
                    \/ ReadHit(a, n)
                    \/ ReadMiss(a, n)
                    \/ ReadStraddling(a, n)
                    \/ \E v \in [1..n -> Values] :
                         \/ WriteHit(a, n, v)
                         \/ WriteMissAllocate(a, n, v)
                         \/ WriteMissAround(a, n, v)
                         \/ WriteStraddling(a, n, v)
             PROVE  TypeOK'
  BY DEF Access
<1> DEFINE l == LineOf(a)
           s == SetOf(l)
           o == OffsetOf(a)
<1>a. l \in Lines /\ s \in SetIds /\ o \in Offsets /\ o \in Nat /\ n \in Nat
  BY AddressSlices, LineSlices, WidthBounds DEF Lines, Offsets
<1> HIDE DEF l, s, o
<1>1. CASE ReadHit(a, n)
  BY <1>1, OutcomeType DEF ReadHit
<1>2. CASE ReadMiss(a, n)
  <2>1. PICK w \in WayIds :
          \/ FillFails(l, w)
          \/ LET data == MemWrittenBack(s, w)[l] IN
             /\ CanFill(l, w)
             /\ sets' = Holding(l, w, FALSE, data)
             /\ mem' = MemWrittenBack(s, w)
             /\ nextVictim' = Advanced(s)
             /\ out' = Loaded(Slice(data, OffsetOf(a), n))
    BY <1>2 DEF ReadMiss, l, s
  <2>2. CASE FillFails(l, w)
    BY <1>a, <2>2, FillFailsType
  <2>3. CASE ~FillFails(l, w)
    <3>1. MemWrittenBack(s, w) \in [Lines -> LineData]
      BY <1>a, WrittenBackType
    <3>2. sets' \in [SetIds -> [WayIds -> CacheLine]]
      <4> DEFINE data == MemWrittenBack(s, w)[l]
      <4>1. data \in LineData
        BY <1>a, <3>1
      <4> HIDE DEF data
      <4>2. Holding(l, w, FALSE, data) \in [SetIds -> [WayIds -> CacheLine]]
        BY <1>a, <4>1, HoldingType, Zenon
      <4> QED
        BY <2>1, <2>3, <4>2 DEF data
    <3>3. nextVictim' \in [SetIds -> WayIds] /\ mem' \in [Lines -> LineData]
      BY <1>a, <2>1, <2>3, <3>1, AdvancedType
    <3>4. out'.ok \in BOOLEAN
      BY <2>1, <2>3, OutcomeType
    <3> QED
      BY <3>2, <3>3, <3>4
  <2> QED
    BY <2>2, <2>3
<1>3. CASE ReadStraddling(a, n)
  BY <1>3, OutcomeType DEF ReadStraddling
<1>4. ASSUME NEW v \in [1..n -> Values], WriteHit(a, n, v)
      PROVE  TypeOK'
  <2>1. PICK w \in WayIds :
          sets' = Holding(l, w, sets[s][w].dirty \/ DirtyOnWrite,
                          Patch(sets[s][w].data, o, n, v))
    BY <1>4 DEF WriteHit, l, s, o
  <2>2. Patch(sets[s][w].data, o, n, v) \in LineData
    BY <1>a, PatchType DEF CacheLine
  <2>3. (sets[s][w].dirty \/ DirtyOnWrite) \in BOOLEAN
    OBVIOUS
  <2>4. sets' \in [SetIds -> [WayIds -> CacheLine]]
    BY <1>a, <2>1, <2>2, <2>3, HoldingType
  <2>5. Patch(mem[l], o, n, v) \in LineData
    BY <1>a, PatchType
  <2>6. mem' \in [Lines -> LineData] /\ out'.ok \in BOOLEAN /\ nextVictim' = nextVictim
    BY <1>a, <1>4, <2>5, OutcomeType DEF WriteHit, BusPatched, l, o
  <2> QED
    BY <2>4, <2>6
<1>5. ASSUME NEW v \in [1..n -> Values], WriteMissAllocate(a, n, v)
      PROVE  TypeOK'
  <2>1. PICK w \in WayIds :
          \/ FillFails(l, w)
          \/ LET written == MemWrittenBack(s, w)
                 data    == Patch(written[l], o, n, v)
             IN
             /\ CanFill(l, w)
             /\ sets' = Holding(l, w, DirtyOnWrite, data)
             /\ nextVictim' = Advanced(s)
             /\ IF config.back
                THEN mem' = written /\ out' = Done
                ELSE IF Writable(l)
                     THEN mem' = [written EXCEPT ![l] = data] /\ out' = Done
                     ELSE mem' = written /\ out' = Refused
    BY <1>5 DEF WriteMissAllocate, l, s, o
  <2>2. CASE FillFails(l, w)
    BY <1>a, <2>2, FillFailsType
  <2>3. CASE ~FillFails(l, w)
    <3>1. MemWrittenBack(s, w) \in [Lines -> LineData]
      BY <1>a, WrittenBackType
    <3>2. Patch(MemWrittenBack(s, w)[l], o, n, v) \in LineData
      BY <1>a, <3>1, PatchType
    <3>3. DirtyOnWrite \in BOOLEAN
      BY DEF DirtyOnWrite
    <3>4. sets' \in [SetIds -> [WayIds -> CacheLine]] /\ nextVictim' \in [SetIds -> WayIds]
      BY <1>a, <2>1, <2>3, <3>2, <3>3, HoldingType, AdvancedType
    <3>5. mem' \in [Lines -> LineData] /\ out'.ok \in BOOLEAN
      BY <1>a, <2>1, <2>3, <3>1, <3>2, OutcomeType
    <3> QED
      BY <3>4, <3>5
  <2> QED
    BY <2>2, <2>3
<1>6. ASSUME NEW v \in [1..n -> Values], WriteMissAround(a, n, v)
      PROVE  TypeOK'
  <2>1. Patch(mem[l], o, n, v) \in LineData
    BY <1>a, PatchType
  <2> QED
    BY <1>a, <1>6, <2>1, OutcomeType DEF WriteMissAround, BusPatched, l, o
<1>7. ASSUME NEW v \in [1..n -> Values], WriteStraddling(a, n, v)
      PROVE  TypeOK'
  <2> DEFINE low  == LineSize - o
             mem1 == BusPatched(l, o, low, v)
             tail == [i \in 1 .. (n - low) |-> v[low + i]]
  <2>1. low \in 1..n /\ n - low \in Nat
    <3>1. LineSize \in Nat \ {0} /\ o < LineSize /\ o + n > LineSize
      BY CacheAssumption, <1>a, <1>7 DEF WriteStraddling, MayStraddle, Straddles, Offsets, o
    <3> QED
      BY <1>a, <3>1
  <2>2. Patch(mem[l], o, low, v) \in LineData
    <3>1. ASSUME NEW i \in Offsets, i \in o .. (o + low - 1)
          PROVE  v[i - o + 1] \in Values
      <4>1. i - o + 1 \in 1..n
        BY <1>a, <2>1, <3>1 DEF Offsets
      <4> QED
        BY <4>1
    <3> QED
      BY <1>a, <3>1 DEF Patch, LineData
  <2>3. mem1 \in [Lines -> LineData]
    BY <2>2 DEF BusPatched
  <2>4. tail \in [1 .. (n - low) -> Values]
    <3>1. ASSUME NEW i \in 1 .. (n - low)
          PROVE  v[low + i] \in Values
      <4>1. low + i \in 1..n
        BY <1>a, <2>1
      <4> QED
        BY <4>1
    <3> QED
      BY <3>1
  <2>5. l + 1 \in Lines => Patch(mem1[l + 1], 0, n - low, tail) \in LineData
    <3> HIDE DEF mem1, tail, low
    <3> QED
      BY <2>1, <2>3, <2>4, PatchType
  <2>6. \/ mem' = mem \/ mem' = mem1
        \/ mem' = [mem1 EXCEPT ![l + 1] = Patch(mem1[l + 1], 0, n - low, tail)]
    BY <1>7 DEF WriteStraddling, l, o
  <2>7. mem' \in [Lines -> LineData]
    <3> HIDE DEF mem1, tail, low
    <3> QED
      BY <2>3, <2>5, <2>6
  <2>8. out'.ok \in BOOLEAN /\ UNCHANGED <<sets, nextVictim>>
    BY <1>7, OutcomeType DEF WriteStraddling
  <2> QED
    BY <2>7, <2>8
<1> QED
  BY <1>1, <1>2, <1>3, <1>4, <1>5, <1>6, <1>7

LEMMA NextType ==
  ASSUME TypeOK, [Next]_vars
  PROVE  TypeOK'
<1> USE DEF TypeOK
<1>0. SetsEmpty \in [SetIds -> [WayIds -> CacheLine]]
  BY EmptyType DEF SetsEmpty
<1>0a. [s \in SetIds |-> 0] \in [SetIds -> WayIds]
  BY CacheAssumption DEF WayIds
<1>1. CASE Access /\ UNCHANGED config
  BY <1>1, AccessType
<1>2. CASE FlushAllWithBus /\ UNCHANGED config
  <2>1. [s \in SetIds |-> [w \in WayIds |->
            IF Reached(s, w) THEN EmptyLine ELSE sets[s][w]]]
          \in [SetIds -> [WayIds -> CacheLine]]
    BY EmptyType
  <2> QED
    BY <1>2, <2>1, FlushType, OutcomeType DEF FlushAllWithBus
<1>3. CASE PipelineReset /\ UNCHANGED config
  BY <1>0, <1>0a, <1>3, FlushType, OutcomeType DEF PipelineReset
<1>4. ASSUME NEW a \in Addrs, InvalidateWithBus(a), UNCHANGED config
      PROVE  TypeOK'
  <2>1. SetOf(LineOf(a)) \in SetIds
    BY AddressSlices, LineSlices DEF Lines
  <2>2. \/ UNCHANGED <<sets, mem>>
        \/ \E w \in WayIds : /\ mem' = MemWrittenBack(SetOf(LineOf(a)), w)
                             /\ sets' = PutLine(SetOf(LineOf(a)), w, EmptyLine)
    BY <1>4 DEF InvalidateWithBus
  <2>3. /\ sets' \in [SetIds -> [WayIds -> CacheLine]]
        /\ mem' \in [Lines -> LineData]
    BY <2>1, <2>2, EmptyType, PutType, WrittenBackType
  <2>4. UNCHANGED nextVictim /\ out'.ok \in BOOLEAN
    BY <1>4, OutcomeType DEF InvalidateWithBus
  <2> QED
    BY <1>4, <2>3, <2>4
<1>5. CASE FlushAll /\ UNCHANGED config
  BY <1>0, <1>5, OutcomeType DEF FlushAll
<1>6. CASE Reset /\ UNCHANGED config
  BY <1>0, <1>0a, <1>6, OutcomeType DEF Reset
<1>7. ASSUME NEW a \in Addrs, Invalidate(a), UNCHANGED config
      PROVE  TypeOK'
  <2>1. SetOf(LineOf(a)) \in SetIds
    BY AddressSlices, LineSlices DEF Lines
  <2>2. \/ UNCHANGED sets
        \/ \E w \in WayIds : sets' = PutLine(SetOf(LineOf(a)), w, EmptyLine)
    BY <1>7 DEF Invalidate
  <2>3. sets' \in [SetIds -> [WayIds -> CacheLine]]
    BY <2>1, <2>2, EmptyType, PutType
  <2> QED
    BY <1>7, <2>3, OutcomeType DEF Invalidate
<1>8. ASSUME NEW l \in Bypassed, NEW d \in LineData, BusMasterWrite(l, d),
             UNCHANGED config
      PROVE  TypeOK'
  BY <1>8, OutcomeType DEF BusMasterWrite
<1>9. CASE UNCHANGED vars
  BY <1>9 DEF vars
<1> QED
  BY <1>1, <1>2, <1>3, <1>4, <1>5, <1>6, <1>7, <1>8, <1>9 DEF Next, CpuNext, Other

LEMMA InitType == Init => TypeOK
<1> SUFFICES ASSUME Init PROVE TypeOK
  OBVIOUS
<1>1. sets \in [SetIds -> [WayIds -> CacheLine]]
  BY EmptyType DEF Init
<1>2. nextVictim \in [SetIds -> WayIds]
  BY CacheAssumption DEF Init, WayIds
<1>3. mem \in [Lines -> LineData]
  BY CacheAssumption DEF Init, LineData
<1> QED
  BY <1>1, <1>2, <1>3, OutcomeType DEF Init, TypeOK

(* The type invariant: in particular a replacement pointer never leaves the*)
(* ways of its set, whatever fills fail on the way.                        *)
THEOREM TypeCorrect == Spec => []TypeOK
<1> QED
  BY InitType, NextType, PTL DEF Spec
-----------------------------------------------------------------------------
(* Which lines a step may put where.  A step either keeps or empties every *)
(* way, or it makes one way hold a readable line that was in no way before *)
(* or in that very way.                                                    *)

KeptOrEmptied ==
  \A s \in SetIds, w \in WayIds :
    \/ ~sets'[s][w].valid
    \/ sets'[s][w].valid = sets[s][w].valid /\ sets'[s][w].tag = sets[s][w].tag

Installs(l, w) ==
  /\ \E d \in BOOLEAN, data \in LineData : sets' = Holding(l, w, d, data)
  /\ Readable(l)
  /\ \A v \in WayIds : v \in HitWays(l) => v = w

LEMMA EmptyInvalid == EmptyLine.valid = FALSE
BY DEF EmptyLine

LEMMA PutAccess ==
  ASSUME TypeOK, NEW s \in SetIds, NEW w \in WayIds, NEW line,
         NEW t \in SetIds, NEW v \in WayIds
  PROVE  PutLine(s, w, line)[t][v] = IF t = s /\ v = w THEN line ELSE sets[t][v]
BY DEF PutLine, TypeOK

LEMMA EmptyingKeeps ==
  ASSUME TypeOK, NEW s \in SetIds, NEW w \in WayIds,
         sets' = PutLine(s, w, EmptyLine)
  PROVE  KeptOrEmptied
BY PutAccess, EmptyInvalid DEF KeptOrEmptied

LEMMA CleaningKeeps ==
  ASSUME TypeOK, NEW s \in SetIds, NEW w \in WayIds, NeedsWriteBack(s, w),
         sets' = PutLine(s, w, Cleaned(s, w))
  PROVE  KeptOrEmptied
<1>1. Cleaned(s, w).valid = sets[s][w].valid /\ Cleaned(s, w).tag = sets[s][w].tag
  BY DEF Cleaned, NeedsWriteBack, TypeOK, CacheLine
<1> QED
  BY <1>1, PutAccess DEF KeptOrEmptied

LEMMA FailedFillKeeps ==
  ASSUME TypeOK, NEW l \in Lines, NEW w \in WayIds, FillFails(l, w)
  PROVE  KeptOrEmptied
<1>1. SetOf(l) \in SetIds
  BY LineSlices DEF Lines
<1>2. CASE UNCHANGED sets
  BY <1>2 DEF KeptOrEmptied
<1>3. CASE ~UNCHANGED sets
  BY <1>1, <1>3, CleaningKeeps DEF FillFails
<1> QED
  BY <1>2, <1>3

(* A lookup that found way w found it alone.                               *)
LEMMA HitAlone ==
  ASSUME UniqueTag, NEW l \in Lines, NEW w \in WayIds, Hit(l, w)
  PROVE  \A v \in WayIds : v \in HitWays(l) => v = w
<1>1. SetOf(l) \in SetIds
  BY LineSlices DEF Lines
<1> QED
  BY <1>1 DEF UniqueTag, Hit, HitWays

LEMMA HitReadable ==
  ASSUME TypeOK, CachedLinesExist, NEW l \in Lines, NEW w \in WayIds, w \in HitWays(l)
  PROVE  Readable(l) /\ HomeOf(SetOf(l), w) = l
<1>1. SetOf(l) \in SetIds /\ LineNo(SetOf(l), TagOf(l)) = l
  BY LineSlices DEF Lines
<1> QED
  BY <1>1 DEF HitWays, CachedLinesExist, HomeOf

LEMMA AccessShape ==
  ASSUME TypeOK, UniqueTag, CachedLinesExist, Access, UNCHANGED config
  PROVE  KeptOrEmptied \/ \E l \in Lines, w \in WayIds : Installs(l, w)
<1> USE DEF TypeOK
<1> SUFFICES ASSUME NEW a \in Addrs, NEW n \in Widths,
                    \/ ReadHit(a, n)
                    \/ ReadMiss(a, n)
                    \/ ReadStraddling(a, n)
                    \/ \E v \in [1..n -> Values] :
                         \/ WriteHit(a, n, v)
                         \/ WriteMissAllocate(a, n, v)
                         \/ WriteMissAround(a, n, v)
                         \/ WriteStraddling(a, n, v)
             PROVE  KeptOrEmptied \/ \E l \in Lines, w \in WayIds : Installs(l, w)
  BY DEF Access
<1> DEFINE l == LineOf(a)
           s == SetOf(l)
           o == OffsetOf(a)
<1>a. l \in Lines /\ s \in SetIds /\ o \in Offsets /\ o \in Nat /\ n \in Nat
  BY AddressSlices, LineSlices, WidthBounds DEF Lines, Offsets
<1> HIDE DEF l, s, o
<1>1. CASE UNCHANGED sets
  BY <1>1 DEF KeptOrEmptied
<1>2. CASE ReadMiss(a, n)
  <2>1. PICK w \in WayIds :
          \/ FillFails(l, w)
          \/ CanFill(l, w) /\ sets' = Holding(l, w, FALSE, MemWrittenBack(s, w)[l])
    BY <1>2 DEF ReadMiss, l, s
  <2>2. CASE FillFails(l, w)
    BY <1>a, <2>2, FailedFillKeeps
  <2>3. CASE CanFill(l, w) /\ sets' = Holding(l, w, FALSE, MemWrittenBack(s, w)[l])
    <3>1. MemWrittenBack(s, w)[l] \in LineData
      BY <1>a, WrittenBackType
    <3>2. HitWays(l) = {}
      BY <1>2 DEF ReadMiss, Miss, l
    <3>3. Installs(l, w)
      BY <2>3, <3>1, <3>2, Zenon DEF Installs, CanFill
    <3> QED
      BY <1>a, <3>3
  <2> QED
    BY <2>1, <2>2, <2>3
<1>3. ASSUME NEW v \in [1..n -> Values], WriteHit(a, n, v)
      PROVE  \E w \in WayIds : Installs(l, w)
  <2>1. PICK w \in WayIds :
          /\ Hit(l, w)
          /\ sets' = Holding(l, w, sets[s][w].dirty \/ DirtyOnWrite,
                             Patch(sets[s][w].data, o, n, v))
    BY <1>3 DEF WriteHit, l, s, o
  <2>2. Patch(sets[s][w].data, o, n, v) \in LineData
    BY <1>a, PatchType DEF CacheLine
  <2>3. (sets[s][w].dirty \/ DirtyOnWrite) \in BOOLEAN
    OBVIOUS
  <2>4. Readable(l) /\ \A u \in WayIds : u \in HitWays(l) => u = w
    BY <1>a, <2>1, HitAlone, HitReadable DEF Hit
  <2> QED
    BY <2>1, <2>2, <2>3, <2>4, Zenon DEF Installs
<1>4. ASSUME NEW v \in [1..n -> Values], WriteMissAllocate(a, n, v)
      PROVE  KeptOrEmptied \/ \E w \in WayIds : Installs(l, w)
  <2>1. PICK w \in WayIds :
          \/ FillFails(l, w)
          \/ /\ CanFill(l, w)
             /\ sets' = Holding(l, w, DirtyOnWrite,
                                Patch(MemWrittenBack(s, w)[l], o, n, v))
    BY <1>4 DEF WriteMissAllocate, l, s, o
  <2>2. CASE FillFails(l, w)
    BY <1>a, <2>2, FailedFillKeeps
  <2>3. CASE ~FillFails(l, w)
    <3>1. Patch(MemWrittenBack(s, w)[l], o, n, v) \in LineData
      BY <1>a, WrittenBackType, PatchType
    <3>2. HitWays(l) = {}
      BY <1>4 DEF WriteMissAllocate, Miss, l
    <3>3. DirtyOnWrite \in BOOLEAN
      BY DEF DirtyOnWrite
    <3>4. Installs(l, w)
      BY <2>1, <2>3, <3>1, <3>2, <3>3, Zenon DEF Installs, CanFill
    <3> QED
      BY <3>4
  <2> QED
    BY <2>2, <2>3
<1> QED
  BY <1>a, <1>1, <1>2, <1>3, <1>4
     DEF ReadHit, ReadStraddling, WriteMissAround, WriteStraddling

LEMMA StepShape ==
  ASSUME TypeOK, UniqueTag, CachedLinesExist, [Next]_vars
  PROVE  KeptOrEmptied \/ \E l \in Lines, w \in WayIds : Installs(l, w)
<1>1. CASE Access /\ UNCHANGED config
  BY <1>1, AccessShape
<1>2. CASE FlushAllWithBus
  BY <1>2, EmptyInvalid DEF FlushAllWithBus, KeptOrEmptied
<1>3. CASE sets' = SetsEmpty
  BY <1>3, EmptyInvalid DEF SetsEmpty, KeptOrEmptied
<1>4. UNCHANGED sets => KeptOrEmptied
  BY DEF KeptOrEmptied
<1>5. ASSUME NEW a \in Addrs, InvalidateWithBus(a) \/ Invalidate(a)
      PROVE  KeptOrEmptied
  <2>1. SetOf(LineOf(a)) \in SetIds
    BY AddressSlices, LineSlices DEF Lines
  <2>2. \/ UNCHANGED sets
        \/ \E w \in WayIds : sets' = PutLine(SetOf(LineOf(a)), w, EmptyLine)
    BY <1>5 DEF InvalidateWithBus, Invalidate
  <2> QED
    BY <1>4, <2>1, <2>2, EmptyingKeeps
<1> QED
  BY <1>1, <1>2, <1>3, <1>4, <1>5
     DEF Next, CpuNext, Other, PipelineReset, FlushAll, Reset, BusMasterWrite, vars

LEMMA ShapeKeepsUnique ==
  ASSUME TypeOK, UniqueTag, CachedLinesExist,
         KeptOrEmptied \/ \E l \in Lines, w \in WayIds : Installs(l, w)
  PROVE  UniqueTag' /\ CachedLinesExist'
<1>1. CASE KeptOrEmptied
  BY <1>1 DEF KeptOrEmptied, UniqueTag, CachedLinesExist, HomeOf
<1>2. ASSUME NEW l \in Lines, NEW w \in WayIds, Installs(l, w)
      PROVE  UniqueTag' /\ CachedLinesExist'
  <2>1. SetOf(l) \in SetIds /\ TagOf(l) \in Nat /\ LineNo(SetOf(l), TagOf(l)) = l
    BY LineSlices DEF Lines
  <2>2. PICK d \in BOOLEAN, data \in LineData : sets' = Holding(l, w, d, data)
    BY <1>2 DEF Installs
  <2>3. ASSUME NEW t \in SetIds, NEW v \in WayIds
        PROVE  IF t = SetOf(l) /\ v = w
               THEN sets'[t][v].valid /\ sets'[t][v].tag = TagOf(l)
               ELSE sets'[t][v] = sets[t][v]
    BY <2>1, <2>2, PutAccess DEF Holding
  <2>4. \A v \in WayIds : v \in HitWays(l) => v = w
    BY <1>2 DEF Installs
  <2>5. UniqueTag'
    <3> SUFFICES ASSUME NEW t \in SetIds, NEW u \in WayIds, NEW v \in WayIds,
                        sets'[t][u].valid, sets'[t][v].valid,
                        sets'[t][u].tag = sets'[t][v].tag
                 PROVE  u = v
      BY DEF UniqueTag
    <3>1. CASE t # SetOf(l) \/ (u # w /\ v # w)
      BY <2>3, <3>1 DEF UniqueTag
    <3>2. CASE t = SetOf(l) /\ u = w /\ v # w
      <4>1. v \in HitWays(l)
        BY <2>1, <2>3, <3>2 DEF HitWays
      <4> QED
        BY <2>4, <3>2, <4>1
    <3>3. CASE t = SetOf(l) /\ v = w /\ u # w
      <4>1. u \in HitWays(l)
        BY <2>1, <2>3, <3>3 DEF HitWays
      <4> QED
        BY <2>4, <3>3, <4>1
    <3> QED
      BY <3>1, <3>2, <3>3
  <2>6. CachedLinesExist'
    BY <1>2, <2>1, <2>3 DEF CachedLinesExist, HomeOf, Installs
  <2> QED
    BY <2>5, <2>6
<1> QED
  BY <1>1, <1>2

UniqueInv == TypeOK /\ UniqueTag /\ CachedLinesExist

LEMMA InitUnique == Init => UniqueInv
BY InitType, EmptyInvalid DEF Init, UniqueInv, UniqueTag, CachedLinesExist

LEMMA NextUnique == UniqueInv /\ [Next]_vars => UniqueInv'
BY NextType, StepShape, ShapeKeepsUnique DEF UniqueInv

(* At most one way holds a given line, in every geometry and under every   *)
(* policy, bus errors included.  CachedLinesExist is the strengthening: a  *)
(* store that hits re-installs the line it found, which must be that line. *)
THEOREM LinesCachedOnce == Spec => []UniqueTag
<1>1. UniqueInv => UniqueTag
  BY DEF UniqueInv
<1> QED
  BY <1>1, InitUnique, NextUnique, PTL DEF Spec
-----------------------------------------------------------------------------
(* Clean lines match memory.  This needs policies that never leave a store *)
(* in a line they neither mark dirty nor write through, and memory that    *)
(* takes what is written to it.                                            *)

SoundPolicies == \A c \in Configs : c.back => c.data
AllWritable   == \A l \in Lines : Readable(l) => Writable(l)

DirtyOnlyInWriteBack ==
  \A s \in SetIds, w \in WayIds : sets[s][w].dirty => DirtyOnWrite

CoherenceInv == UniqueInv /\ DirtyOnlyInWriteBack /\ CleanMatchesMemory

(* A valid way holds exactly its home line.                                *)
LEMMA Home ==
  ASSUME UniqueInv, NEW s \in SetIds, NEW w \in WayIds, sets[s][w].valid
  PROVE  /\ HomeOf(s, w) \in Lines /\ SetOf(HomeOf(s, w)) = s
         /\ TagOf(HomeOf(s, w)) = sets[s][w].tag
         /\ w \in HitWays(HomeOf(s, w))
<1>1. sets[s][w].tag \in Nat
  BY DEF UniqueInv, TypeOK, CacheLine, Tags
<1>2. HomeOf(s, w) \in Lines
  BY DEF UniqueInv, CachedLinesExist, Readable
<1> QED
  BY <1>1, <1>2, LineNoInverse DEF HomeOf, HitWays

LEMMA HitHome ==
  ASSUME NEW l \in Lines, NEW w \in WayIds, w \in HitWays(l)
  PROVE  HomeOf(SetOf(l), w) = l /\ sets[SetOf(l)][w].valid /\ SetOf(l) \in SetIds
BY LineSlices DEF HitWays, HomeOf, Lines

LEMMA ViewCached ==
  ASSUME UniqueInv, NEW l \in Lines, NEW w \in WayIds, w \in HitWays(l)
  PROVE  View(l) = sets[SetOf(l)][w].data
<1>1. SetOf(l) \in SetIds
  BY LineSlices DEF Lines
<1>2. \A u \in HitWays(l) : u = w
  BY <1>1 DEF UniqueInv, UniqueTag, HitWays
<1>3. HitWays(l) = {w}
  BY <1>2
<1>4. (CHOOSE u \in HitWays(l) : \A v \in HitWays(l) : u <= v) = w
  BY <1>3 DEF WayIds
<1> QED
  BY <1>3, <1>4 DEF View

(* The same of the state after a step.                                     *)
ViewsAreCopies ==
  \A l \in Lines, w \in WayIds : w \in HitWays(l) => View(l) = sets[SetOf(l)][w].data

LEMMA ViewCopied == UniqueInv => ViewsAreCopies
BY ViewCached DEF ViewsAreCopies

LEMMA ViewCopiedNext == UniqueInv' => ViewsAreCopies'
BY ViewCopied, PTL

LEMMA ViewUncached ==
  ASSUME NEW l, HitWays(l) = {}
  PROVE  View(l) = mem[l]
BY DEF View

(* A clean copy may be read from memory as well.                           *)
LEMMA ViewClean ==
  ASSUME CoherenceInv, NEW l \in Lines \ Bypassed,
         \A w \in HitWays(l) : ~sets[SetOf(l)][w].dirty
  PROVE  View(l) = mem[l]
<1>1. CASE HitWays(l) = {}
  BY <1>1, ViewUncached
<1>2. CASE HitWays(l) # {}
  <2>1. PICK w \in WayIds : w \in HitWays(l)
    BY <1>2 DEF HitWays
  <2>2. sets[SetOf(l)][w].data = mem[l]
    BY <2>1, HitHome DEF CoherenceInv, CleanMatchesMemory
  <2> QED
    BY <2>1, <2>2, ViewCached DEF CoherenceInv
<1> QED
  BY <1>1, <1>2
(* What MemWrittenBack does to each line.                                  *)
LEMMA WrittenBackAt ==
  ASSUME CoherenceInv, NEW s \in SetIds, NEW w \in WayIds, NEW k \in Lines
  PROVE  MemWrittenBack(s, w)[k] =
           IF NeedsWriteBack(s, w) /\ HomeOf(s, w) = k THEN sets[s][w].data ELSE mem[k]
BY DEF MemWrittenBack, CoherenceInv, UniqueInv, TypeOK

LEMMA DirtyNeedsWriteBack ==
  ASSUME CoherenceInv, NEW s \in SetIds, NEW w \in WayIds, sets[s][w].valid
  PROVE  NeedsWriteBack(s, w) <=> sets[s][w].dirty
BY DEF NeedsWriteBack, CoherenceInv, DirtyOnlyInWriteBack

(* Whatever a way holds, memory after its write-back shows it.             *)
LEMMA WrittenBackShows ==
  ASSUME CoherenceInv, NEW s \in SetIds, NEW w \in WayIds, sets[s][w].valid,
         HomeOf(s, w) \notin Bypassed
  PROVE  MemWrittenBack(s, w)[HomeOf(s, w)] = sets[s][w].data
<1>1. HomeOf(s, w) \in Lines
  BY Home DEF CoherenceInv
<1>2. CASE sets[s][w].dirty
  BY <1>1, <1>2, WrittenBackAt, DirtyNeedsWriteBack
<1>3. CASE ~sets[s][w].dirty
  <2>1. sets[s][w].data = mem[HomeOf(s, w)]
    BY <1>3 DEF CoherenceInv, CleanMatchesMemory
  <2> QED
    BY <1>1, <2>1, WrittenBackAt
<1> QED
  BY <1>2, <1>3

(* A step that makes way w hold line l, and writes memory only to put back *)
(* what w held or to store into l.                                         *)
InstallsFrom(l, w, d, data) ==
  /\ \A v \in WayIds : v \in HitWays(l) => v = w
  /\ sets' = Holding(l, w, d, data)
  /\ \A k \in Lines \ {l} : mem'[k] = MemWrittenBack(SetOf(l), w)[k]
  /\ ~d /\ l \notin Bypassed => data = mem'[l]
  /\ d => DirtyOnWrite
  /\ UNCHANGED config

LEMMA HoldingAt ==
  ASSUME TypeOK, NEW l \in Lines, NEW w \in WayIds, NEW d, NEW data,
         sets' = Holding(l, w, d, data),
         NEW t \in SetIds, NEW v \in WayIds
  PROVE  IF t = SetOf(l) /\ v = w
         THEN sets'[t][v] = [valid |-> TRUE, dirty |-> d, tag |-> TagOf(l), data |-> data]
         ELSE sets'[t][v] = sets[t][v]
BY LineSlices, PutAccess DEF Holding, Lines

LEMMA InstallKeepsCoherence ==
  ASSUME CoherenceInv, UniqueInv', NEW l \in Lines, NEW w \in WayIds,
         NEW d \in BOOLEAN, NEW data \in LineData, InstallsFrom(l, w, d, data)
  PROVE  CoherenceInv'
<1> USE DEF CoherenceInv
<1>0. SetOf(l) \in SetIds /\ LineNo(SetOf(l), TagOf(l)) = l /\ TagOf(l) \in Nat
  BY LineSlices DEF Lines
<1>1. ASSUME NEW t \in SetIds, NEW v \in WayIds
      PROVE  IF t = SetOf(l) /\ v = w
             THEN sets'[t][v] = [valid |-> TRUE, dirty |-> d, tag |-> TagOf(l), data |-> data]
             ELSE sets'[t][v] = sets[t][v]
  BY HoldingAt DEF InstallsFrom, UniqueInv
<1>2. DirtyOnlyInWriteBack'
  BY <1>1 DEF DirtyOnlyInWriteBack, InstallsFrom, DirtyOnWrite
<1>3. ASSUME NEW t \in SetIds, NEW v \in WayIds, sets'[t][v].valid, ~sets'[t][v].dirty,
             HomeOf(t, v)' \notin Bypassed
      PROVE  sets'[t][v].data = mem'[HomeOf(t, v)']
  <2>1. CASE t = SetOf(l) /\ v = w
    <3>1. HomeOf(t, v)' = l
      BY <1>0, <1>1, <2>1 DEF HomeOf
    <3> QED
      BY <1>1, <1>3, <2>1, <3>1 DEF InstallsFrom
  <2>2. CASE ~(t = SetOf(l) /\ v = w)
    <3> DEFINE k == HomeOf(t, v)
    <3>1. sets'[t][v] = sets[t][v] /\ HomeOf(t, v)' = k
      BY <1>1, <2>2 DEF HomeOf
    <3>2. k \in Lines /\ SetOf(k) = t /\ TagOf(k) = sets[t][v].tag /\ v \in HitWays(k)
      BY <1>3, <3>1, Home
    <3>3. k # l
      BY <2>2, <3>2 DEF InstallsFrom
    <3>4. mem'[k] = MemWrittenBack(SetOf(l), w)[k]
      BY <3>2, <3>3 DEF InstallsFrom
    <3>5. ~(NeedsWriteBack(SetOf(l), w) /\ HomeOf(SetOf(l), w) = k)
      <4> SUFFICES ASSUME NeedsWriteBack(SetOf(l), w), HomeOf(SetOf(l), w) = k
                   PROVE  FALSE
        OBVIOUS
      <4>1. sets[SetOf(l)][w].valid
        BY DEF NeedsWriteBack
      <4>2. SetOf(k) = SetOf(l) /\ TagOf(k) = sets[SetOf(l)][w].tag
        BY <1>0, <4>1, Home
      <4> QED
        BY <1>0, <1>3, <2>2, <3>1, <3>2, <4>1, <4>2 DEF UniqueInv, UniqueTag
    <3>6. mem'[k] = mem[k]
      BY <1>0, <3>2, <3>4, <3>5, WrittenBackAt
    <3> QED
      BY <1>3, <3>1, <3>6 DEF CleanMatchesMemory
  <2> QED
    BY <2>1, <2>2
<1>4. CleanMatchesMemory'
  BY <1>3 DEF CleanMatchesMemory
<1> QED
  BY <1>2, <1>4
(* ... and shows the program the new line l and every other line as before.*)
LEMMA InstallView ==
  ASSUME CoherenceInv, UniqueInv', NEW l \in Lines, NEW w \in WayIds,
         NEW d \in BOOLEAN, NEW data \in LineData, InstallsFrom(l, w, d, data)
  PROVE  /\ View(l)' = data
         /\ \A k \in Lines \ Bypassed : k # l => View(k)' = View(k)
<1> USE DEF CoherenceInv
<1>0. SetOf(l) \in SetIds
  BY LineSlices DEF Lines
<1>1. ASSUME NEW t \in SetIds, NEW v \in WayIds
      PROVE  IF t = SetOf(l) /\ v = w
             THEN sets'[t][v] = [valid |-> TRUE, dirty |-> d, tag |-> TagOf(l), data |-> data]
             ELSE sets'[t][v] = sets[t][v]
  BY HoldingAt DEF InstallsFrom, UniqueInv
<1>2. View(l)' = data
  <2>1. (w \in HitWays(l))'
    BY <1>0, <1>1 DEF HitWays
  <2>2. View(l)' = sets'[SetOf(l)][w].data
    BY <2>1, ViewCopiedNext DEF ViewsAreCopies
  <2> QED
    BY <1>0, <1>1, <2>2
<1>3. ASSUME NEW k \in Lines \ Bypassed, k # l
      PROVE  View(k)' = View(k)
  <2> DEFINE evicted == sets[SetOf(l)][w].valid /\ HomeOf(SetOf(l), w) = k
  <2>0. SetOf(k) \in SetIds /\ SetOf(l) \in SetIds
        /\ LineNo(SetOf(l), TagOf(l)) = l /\ LineNo(SetOf(k), TagOf(k)) = k
    BY LineSlices DEF Lines
  <2>1. ~(SetOf(k) = SetOf(l) /\ TagOf(k) = TagOf(l))
    BY <1>3, <2>0
  <2>2. mem'[k] = MemWrittenBack(SetOf(l), w)[k]
    BY <1>3 DEF InstallsFrom
  <2>3. CASE evicted
    <3>1. w \in HitWays(k) /\ SetOf(k) = SetOf(l)
      BY <2>0, <2>3, Home
    <3>2. View(k) = sets[SetOf(l)][w].data
      BY <3>1, ViewCached
    <3>3. mem'[k] = sets[SetOf(l)][w].data
      BY <1>3, <2>0, <2>2, <2>3, WrittenBackShows
    <3>4. HitWays(k)' = {}
      <4> SUFFICES ASSUME NEW v \in WayIds, sets'[SetOf(k)][v].valid,
                          sets'[SetOf(k)][v].tag = TagOf(k)
                   PROVE  FALSE
        BY DEF HitWays
      <4>1. v # w
        BY <1>1, <2>0, <2>1, <3>1
      <4>2. v \in HitWays(k)
        BY <1>1, <2>0, <3>1, <4>1 DEF HitWays
      <4> QED
        BY <2>0, <3>1, <4>1, <4>2 DEF UniqueInv, UniqueTag, HitWays
    <3>5. View(k)' = mem'[k]
      BY <3>4 DEF View
    <3> QED
      BY <3>2, <3>3, <3>5
  <2>4. CASE ~evicted
    <3>1. mem'[k] = mem[k]
      BY <2>0, <2>2, <2>4, WrittenBackAt DEF NeedsWriteBack
    <3>2. ASSUME NEW v \in WayIds
          PROVE  /\ (sets'[SetOf(k)][v].valid /\ sets'[SetOf(k)][v].tag = TagOf(k))
                    <=> (sets[SetOf(k)][v].valid /\ sets[SetOf(k)][v].tag = TagOf(k))
                 /\ sets[SetOf(k)][v].valid /\ sets[SetOf(k)][v].tag = TagOf(k)
                    => sets'[SetOf(k)][v] = sets[SetOf(k)][v]
      <4>1. CASE SetOf(k) = SetOf(l) /\ v = w
        <5>1. ~(sets[SetOf(k)][v].valid /\ sets[SetOf(k)][v].tag = TagOf(k))
          BY <2>0, <2>4, <4>1 DEF HomeOf
        <5> QED
          BY <1>1, <2>0, <2>1, <4>1, <5>1
      <4>2. CASE ~(SetOf(k) = SetOf(l) /\ v = w)
        BY <1>1, <2>0, <4>2
      <4> QED
        BY <4>1, <4>2
    <3>3. HitWays(k)' = HitWays(k)
      BY <3>2 DEF HitWays
    <3>4. \A v \in HitWays(k) : sets'[SetOf(k)][v] = sets[SetOf(k)][v]
      BY <3>2 DEF HitWays
    <3>5. CASE HitWays(k) = {}
      BY <3>1, <3>3, <3>5 DEF View
    <3>6. CASE HitWays(k) # {}
      <4>1. PICK v \in WayIds : v \in HitWays(k)
        BY <3>6 DEF HitWays
      <4>2. View(k) = sets[SetOf(k)][v].data
        BY <4>1, ViewCached
      <4>3. (v \in HitWays(k))'
        BY <3>3, <4>1
      <4>4. View(k)' = sets'[SetOf(k)][v].data
        BY <4>1, <4>3, ViewCopiedNext DEF ViewsAreCopies
      <4> QED
        BY <3>4, <4>1, <4>2, <4>4
    <3> QED
      BY <3>5, <3>6
  <2> QED
    BY <2>3, <2>4
<1> QED
  BY <1>2, <1>3
(* A step that empties or cleans ways after showing what they held to      *)
(* memory: flushes, invalidation with a bus, and the fill that fails after *)
(* its victim has been written back.                                       *)
Retires ==
  /\ \A s \in SetIds, w \in WayIds :
       \/ sets'[s][w] = sets[s][w]
       \/ ~sets'[s][w].valid /\ ~sets'[s][w].dirty
       \/ sets[s][w].valid /\ sets'[s][w] = Cleaned(s, w)
  /\ \A s \in SetIds, w \in WayIds :
       sets[s][w].valid /\ sets'[s][w] # sets[s][w] /\ HomeOf(s, w) \notin Bypassed
       => mem'[HomeOf(s, w)] = sets[s][w].data
  /\ \A k \in Lines :
       \/ mem'[k] = mem[k]
       \/ \E w \in HitWays(k) : mem'[k] = sets[SetOf(k)][w].data
  /\ UNCHANGED config

LEMMA RetiredWay ==
  ASSUME Retires, NEW s \in SetIds, NEW w \in WayIds
  PROVE  /\ sets'[s][w].valid => /\ sets[s][w].valid
                                 /\ sets'[s][w].tag = sets[s][w].tag
                                 /\ sets'[s][w].data = sets[s][w].data
         /\ sets'[s][w].dirty => sets[s][w].dirty
<1>1. CASE sets'[s][w] = sets[s][w]
  BY <1>1, Zenon
<1>2. CASE ~sets'[s][w].valid /\ ~sets'[s][w].dirty
  BY <1>2, Zenon
<1>3. CASE sets[s][w].valid /\ sets'[s][w] = Cleaned(s, w)
  <2>1. /\ sets'[s][w].tag = sets[s][w].tag
        /\ sets'[s][w].data = sets[s][w].data
        /\ sets'[s][w].dirty = FALSE
    BY <1>3 DEF Cleaned
  <2> QED
    BY <1>3, <2>1, Zenon
<1> QED
  BY <1>1, <1>2, <1>3, Zenon DEF Retires

LEMMA RetireKeepsCoherence ==
  ASSUME CoherenceInv, UniqueInv', Retires
  PROVE  CoherenceInv'
<1> USE DEF CoherenceInv
<1>1. DirtyOnlyInWriteBack'
  BY RetiredWay, Zenon DEF DirtyOnlyInWriteBack, Retires, DirtyOnWrite
<1>2. ASSUME NEW t \in SetIds, NEW v \in WayIds, sets'[t][v].valid, ~sets'[t][v].dirty,
             HomeOf(t, v)' \notin Bypassed
      PROVE  sets'[t][v].data = mem'[HomeOf(t, v)']
  <2> DEFINE k == HomeOf(t, v)
  <2>1. sets[t][v].valid /\ sets'[t][v].data = sets[t][v].data /\ HomeOf(t, v)' = k
    BY <1>2, RetiredWay DEF HomeOf
  <2>2. k \in Lines /\ SetOf(k) = t /\ v \in HitWays(k)
    BY <2>1, Home
  <2>3. CASE sets'[t][v] # sets[t][v]
    BY <1>2, <2>1, <2>3 DEF Retires
  <2>4. CASE sets'[t][v] = sets[t][v]
    <3>1. sets[t][v].data = mem[k]
      BY <1>2, <2>1, <2>4 DEF CleanMatchesMemory
    <3>2. \A w \in HitWays(k) : w = v
      BY <2>2 DEF UniqueInv, UniqueTag, HitWays
    <3> QED
      BY <2>1, <2>2, <3>1, <3>2 DEF Retires
  <2> QED
    BY <2>3, <2>4
<1>3. CleanMatchesMemory'
  BY <1>2 DEF CleanMatchesMemory
<1> QED
  BY <1>1, <1>3

LEMMA RetireView ==
  ASSUME CoherenceInv, UniqueInv', Retires, NEW k \in Lines \ Bypassed
  PROVE  View(k)' = View(k)
<1> USE DEF CoherenceInv
<1>0. SetOf(k) \in SetIds /\ LineNo(SetOf(k), TagOf(k)) = k
  BY LineSlices DEF Lines
<1>1. CASE HitWays(k) = {}
  <2>1. HitWays(k)' = {}
    BY <1>0, <1>1, RetiredWay DEF HitWays
  <2>2. mem'[k] = mem[k]
    BY <1>1 DEF Retires
  <2> QED
    BY <1>1, <2>1, <2>2 DEF View
<1>2. CASE HitWays(k) # {}
  <2>1. PICK w \in WayIds : w \in HitWays(k)
    BY <1>2 DEF HitWays
  <2>2. View(k) = sets[SetOf(k)][w].data /\ sets[SetOf(k)][w].valid
        /\ HomeOf(SetOf(k), w) = k
    BY <2>1, ViewCached, HitHome
  <2>3. CASE (w \in HitWays(k))'
    <3>1. View(k)' = sets'[SetOf(k)][w].data
      BY <2>1, <2>3, ViewCopiedNext DEF ViewsAreCopies
    <3>2. sets'[SetOf(k)][w].data = sets[SetOf(k)][w].data
      BY <1>0, <2>3, RetiredWay DEF HitWays
    <3> QED
      BY <2>2, <3>1, <3>2
  <2>4. CASE ~(w \in HitWays(k))'
    <3>1. sets'[SetOf(k)][w] # sets[SetOf(k)][w]
      BY <2>1, <2>4 DEF HitWays
    <3>2. mem'[k] = sets[SetOf(k)][w].data
      BY <1>0, <2>2, <3>1 DEF Retires
    <3>3. HitWays(k)' = {}
      <4> SUFFICES ASSUME NEW v \in WayIds, sets'[SetOf(k)][v].valid,
                          sets'[SetOf(k)][v].tag = TagOf(k)
                   PROVE  FALSE
        BY DEF HitWays
      <4>1. v \in HitWays(k)
        BY <1>0, RetiredWay DEF HitWays
      <4>2. v = w
        BY <1>0, <2>1, <4>1 DEF UniqueInv, UniqueTag, HitWays
      <4> QED
        BY <2>4, <4>2 DEF HitWays
    <3>4. View(k)' = mem'[k]
      BY <3>3 DEF View
    <3> QED
      BY <2>2, <3>2, <3>4
  <2> QED
    BY <2>3, <2>4
<1> QED
  BY <1>1, <1>2
-----------------------------------------------------------------------------
(* The operations, one by one, as steps of the three kinds above.          *)

(* A step around the cache: no line changes, and memory changes only at    *)
(* lines no way holds or that are shared with other bus masters.           *)
Around ==
  /\ UNCHANGED <<sets, config>>
  /\ \A k \in Lines : mem'[k] = mem[k] \/ k \in Bypassed \/ HitWays(k) = {}

(* A step that throws lines away.                                          *)
Drops ==
  /\ UNCHANGED <<mem, config>>
  /\ \A s \in SetIds, w \in WayIds :
       sets'[s][w] = sets[s][w] \/ (~sets'[s][w].valid /\ ~sets'[s][w].dirty)

LEMMA AroundKeepsCoherence ==
  ASSUME CoherenceInv, UniqueInv', Around
  PROVE  CoherenceInv'
<1> USE DEF CoherenceInv
<1>1. DirtyOnlyInWriteBack'
  BY DEF Around, DirtyOnlyInWriteBack, DirtyOnWrite
<1>2. ASSUME NEW s \in SetIds, NEW w \in WayIds, sets[s][w].valid, ~sets[s][w].dirty,
             HomeOf(s, w) \notin Bypassed
      PROVE  sets[s][w].data = mem'[HomeOf(s, w)]
  <2>1. HomeOf(s, w) \in Lines /\ HitWays(HomeOf(s, w)) # {}
    BY <1>2, Home
  <2> QED
    BY <1>2, <2>1 DEF Around, CleanMatchesMemory
<1>3. CleanMatchesMemory'
  BY <1>2 DEF CleanMatchesMemory, Around, HomeOf
<1> QED
  BY <1>1, <1>3

LEMMA DropKeepsCoherence ==
  ASSUME CoherenceInv, UniqueInv', Drops
  PROVE  CoherenceInv'
<1> USE DEF CoherenceInv
<1>1. DirtyOnlyInWriteBack'
  BY Zenon DEF Drops, DirtyOnlyInWriteBack, DirtyOnWrite
<1>2. CleanMatchesMemory'
  BY DEF CleanMatchesMemory, Drops, HomeOf
<1> QED
  BY <1>1, <1>2

LEMMA EmptyClean == EmptyLine.valid = FALSE /\ EmptyLine.dirty = FALSE
BY DEF EmptyLine

LEMMA FailedFillRetires ==
  ASSUME CoherenceInv, NEW l \in Lines, NEW w \in WayIds, FillFails(l, w),
         UNCHANGED config
  PROVE  Retires
<1> DEFINE s == SetOf(l)
<1> USE DEF CoherenceInv, UniqueInv
<1>0. s \in SetIds
  BY LineSlices DEF Lines
<1>1. CASE UNCHANGED <<sets, mem>>
  BY <1>1 DEF Retires
<1>2. CASE ~UNCHANGED <<sets, mem>>
  <2>1. /\ NeedsWriteBack(s, w)
        /\ mem' = MemWrittenBack(s, w)
        /\ sets' = PutLine(s, w, Cleaned(s, w))
    BY <1>2 DEF FillFails, MemWrittenBack
  <2>2. sets[s][w].valid
    BY <2>1 DEF NeedsWriteBack
  <2>3. \A t \in SetIds, v \in WayIds :
          sets'[t][v] = IF t = s /\ v = w THEN Cleaned(s, w) ELSE sets[t][v]
    BY <1>0, <2>1, PutAccess
  <2>4. HomeOf(s, w) \in Lines /\ w \in HitWays(HomeOf(s, w)) /\ SetOf(HomeOf(s, w)) = s
    BY <1>0, <2>2, Home
  <2>5. \A k \in Lines : mem'[k] = IF k = HomeOf(s, w) THEN sets[s][w].data ELSE mem[k]
    BY <1>0, <2>1, WrittenBackAt
  <2> QED
    BY <1>0, <2>2, <2>3, <2>4, <2>5 DEF Retires
<1> QED
  BY <1>1, <1>2

LEMMA InvalidateRetires ==
  ASSUME CoherenceInv, NEW a \in Addrs, InvalidateWithBus(a), UNCHANGED config
  PROVE  Retires
<1> DEFINE l == LineOf(a)
           s == SetOf(l)
<1> USE DEF CoherenceInv, UniqueInv
<1>0. l \in Lines /\ s \in SetIds
  BY AddressSlices, LineSlices DEF Lines
<1>1. CASE UNCHANGED <<sets, mem>>
  BY <1>1 DEF Retires
<1>2. CASE ~UNCHANGED <<sets, mem>>
  <2>1. PICK w \in WayIds : /\ Hit(l, w)
                            /\ mem' = MemWrittenBack(s, w)
                            /\ sets' = PutLine(s, w, EmptyLine)
    BY <1>2 DEF InvalidateWithBus
  <2>2. w \in HitWays(l) /\ HomeOf(s, w) = l /\ sets[s][w].valid
    BY <1>0, <2>1, HitHome DEF Hit
  <2>3. \A t \in SetIds, v \in WayIds :
          sets'[t][v] = IF t = s /\ v = w THEN EmptyLine ELSE sets[t][v]
    BY <1>0, <2>1, PutAccess
  <2>4. l \notin Bypassed => mem'[l] = sets[s][w].data
    BY <1>0, <2>1, <2>2, WrittenBackShows
  <2>5. \A k \in Lines : mem'[k] = mem[k] \/ (k = l /\ mem'[k] = sets[s][w].data)
    BY <1>0, <2>1, <2>2, WrittenBackAt
  <2>6. ASSUME NEW t \in SetIds, NEW v \in WayIds
        PROVE  sets'[t][v] = sets[t][v] \/ (~sets'[t][v].valid /\ ~sets'[t][v].dirty)
    <3>1. sets'[t][v] = EmptyLine \/ sets'[t][v] = sets[t][v]
      BY <2>3
    <3> QED
      BY <3>1, EmptyClean, Zenon
  <2>7. ASSUME NEW t \in SetIds, NEW v \in WayIds, sets'[t][v] # sets[t][v],
               HomeOf(t, v) \notin Bypassed
        PROVE  mem'[HomeOf(t, v)] = sets[t][v].data
    <3>1. t = s /\ v = w
      BY <2>3, <2>7
    <3> QED
      BY <2>2, <2>4, <2>7, <3>1
  <2> QED
    BY <1>0, <2>2, <2>5, <2>6, <2>7, Zenon DEF Retires
<1> QED
  BY <1>1, <1>2

LEMMA FlushedFromHits ==
  ASSUME NEW k \in Lines, NEW w \in FlushedFrom(k)
  PROVE  w \in HitWays(k) /\ NeedsWriteBack(SetOf(k), w)
BY DEF FlushedFrom, HitWays, NeedsWriteBack

(* Every way the flush reaches ends up in memory ...                       *)
LEMMA FlushShows ==
  ASSUME CoherenceInv, NEW s \in SetIds, NEW w \in WayIds, sets[s][w].valid,
         Reached(s, w), HomeOf(s, w) \notin Bypassed
  PROVE  MemFlushed[HomeOf(s, w)] = sets[s][w].data
<1> DEFINE k == HomeOf(s, w)
<1> USE DEF CoherenceInv
<1>1. k \in Lines /\ SetOf(k) = s /\ w \in HitWays(k) /\ TagOf(k) = sets[s][w].tag
  BY Home
<1>2. \A v \in FlushedFrom(k) : v = w
  BY <1>1, FlushedFromHits DEF UniqueInv, UniqueTag, HitWays
<1>3. CASE NeedsWriteBack(s, w)
  <2>1. w \in FlushedFrom(k)
    BY <1>1, <1>3 DEF FlushedFrom
  <2>2. (CHOOSE v \in FlushedFrom(k) : TRUE) = w
    BY <1>2, <2>1
  <2> QED
    BY <1>1, <2>1, <2>2 DEF MemFlushed
<1>4. CASE ~NeedsWriteBack(s, w)
  <2>1. FlushedFrom(k) = {}
    BY <1>1, <1>2, <1>4, FlushedFromHits
  <2>2. sets[s][w].data = mem[k]
    BY <1>4, DirtyNeedsWriteBack DEF CleanMatchesMemory
  <2> QED
    BY <1>1, <2>1, <2>2 DEF MemFlushed
<1> QED
  BY <1>3, <1>4

(* ... and memory changes nowhere else.                                    *)
LEMMA FlushOnlyShows ==
  ASSUME NEW k \in Lines
  PROVE  \/ MemFlushed[k] = mem[k]
         \/ \E w \in HitWays(k) : MemFlushed[k] = sets[SetOf(k)][w].data
<1>1. CASE FlushedFrom(k) = {}
  BY <1>1 DEF MemFlushed
<1>2. CASE FlushedFrom(k) # {}
  <2> DEFINE w == CHOOSE v \in FlushedFrom(k) : TRUE
  <2>1. w \in FlushedFrom(k)
    BY <1>2
  <2>2. MemFlushed[k] = sets[SetOf(k)][w].data
    BY <1>2 DEF MemFlushed
  <2> HIDE DEF w
  <2> QED
    BY <2>1, <2>2, FlushedFromHits
<1> QED
  BY <1>1, <1>2

LEMMA FlushRetires ==
  ASSUME CoherenceInv, UNCHANGED config, mem' = MemFlushed,
         \A s \in SetIds, w \in WayIds :
           \/ sets'[s][w] = sets[s][w]
           \/ Reached(s, w) /\ sets'[s][w] = EmptyLine
  PROVE  Retires
<1>1. ASSUME NEW s \in SetIds, NEW w \in WayIds
      PROVE  sets'[s][w] = sets[s][w] \/ (~sets'[s][w].valid /\ ~sets'[s][w].dirty)
  <2>1. sets'[s][w] = EmptyLine \/ sets'[s][w] = sets[s][w]
    OBVIOUS
  <2> QED
    BY <2>1, EmptyClean, Zenon
<1>2. ASSUME NEW s \in SetIds, NEW w \in WayIds, sets[s][w].valid,
             sets'[s][w] # sets[s][w], HomeOf(s, w) \notin Bypassed
      PROVE  mem'[HomeOf(s, w)] = sets[s][w].data
  BY <1>2, FlushShows
<1>3. ASSUME NEW k \in Lines
      PROVE  \/ mem'[k] = mem[k]
             \/ \E w \in HitWays(k) : mem'[k] = sets[SetOf(k)][w].data
  BY FlushOnlyShows
<1> QED
  BY <1>1, <1>2, <1>3, Zenon DEF Retires

LEMMA NothingFails ==
  ASSUME CoherenceInv, AllWritable, NEW s \in SetIds, NEW w \in WayIds
  PROVE  ~WriteBackFails(s, w) /\ Reached(s, w)
<1>1. \A t \in SetIds, v \in WayIds : sets[t][v].valid => Writable(HomeOf(t, v))
  BY Home DEF CoherenceInv, UniqueInv, CachedLinesExist, AllWritable
<1> QED
  BY <1>1 DEF WriteBackFails, NeedsWriteBack, Reached

LEMMA FlushingRetires ==
  ASSUME CoherenceInv, UNCHANGED config, FlushAllWithBus
  PROVE  Retires
<1>1. \A s \in SetIds, w \in WayIds :
        sets'[s][w] = IF Reached(s, w) THEN EmptyLine ELSE sets[s][w]
  BY DEF FlushAllWithBus
<1> QED
  BY <1>1, FlushRetires DEF FlushAllWithBus

LEMMA MaintenanceRetires ==
  ASSUME CoherenceInv, AllWritable, UNCHANGED config,
         FlushAllWithBus \/ PipelineReset
  PROVE  Retires
<1>1. CASE FlushAllWithBus
  BY <1>1, FlushingRetires
<1>2. CASE PipelineReset
  <2>1. \A s \in SetIds, w \in WayIds : sets'[s][w] = EmptyLine
    BY <1>2 DEF PipelineReset, SetsEmpty
  <2> QED
    BY <1>2, <2>1, NothingFails, FlushRetires DEF PipelineReset
<1> QED
  BY <1>1, <1>2

-----------------------------------------------------------------------------
(* The operations that install a line, with what they leave in it.         *)

Installed(l, data) ==
  \E w \in WayIds, d \in BOOLEAN : InstallsFrom(l, w, d, data)

(* A line that is in no way is not the victim's.                           *)
LEMMA MissedLine ==
  ASSUME CoherenceInv, NEW l \in Lines, Miss(l), NEW w \in WayIds
  PROVE  MemWrittenBack(SetOf(l), w)[l] = mem[l] /\ View(l) = mem[l]
<1>1. SetOf(l) \in SetIds
  BY LineSlices DEF Lines
<1>2. ~(NeedsWriteBack(SetOf(l), w) /\ HomeOf(SetOf(l), w) = l)
  BY <1>1, Home DEF NeedsWriteBack, CoherenceInv, Miss
<1> QED
  BY <1>1, <1>2, WrittenBackAt, ViewUncached DEF Miss

LEMMA LoadMissInstalls ==
  ASSUME CoherenceInv, NEW a \in Addrs, NEW n \in Widths, ReadMiss(a, n),
         UNCHANGED config
  PROVE  \/ /\ Retires /\ out' = Refused
            /\ \E w \in WayIds : FillFails(LineOf(a), w)
         \/ /\ Installed(LineOf(a), View(LineOf(a)))
            /\ Readable(LineOf(a))
            /\ out' = Loaded(Slice(View(LineOf(a)), OffsetOf(a), n))
<1> DEFINE l == LineOf(a)
           s == SetOf(l)
<1>0. l \in Lines /\ s \in SetIds
  BY AddressSlices, LineSlices DEF Lines
<1>1. PICK w \in WayIds :
        \/ FillFails(l, w)
        \/ /\ CanFill(l, w)
           /\ sets' = Holding(l, w, FALSE, MemWrittenBack(s, w)[l])
           /\ mem' = MemWrittenBack(s, w)
           /\ nextVictim' = Advanced(s)
           /\ out' = Loaded(Slice(MemWrittenBack(s, w)[l], OffsetOf(a), n))
  BY DEF ReadMiss
<1>2. CASE FillFails(l, w)
  BY <1>0, <1>2, FailedFillRetires DEF FillFails
<1>3. CASE ~FillFails(l, w)
  <2>1. Miss(l) /\ MemWrittenBack(s, w)[l] = mem[l] /\ View(l) = mem[l]
    BY <1>0, MissedLine DEF ReadMiss
  <2>2. InstallsFrom(l, w, FALSE, View(l))
    BY <1>0, <1>1, <1>3, <2>1 DEF InstallsFrom, Miss
  <2> QED
    BY <1>0, <1>1, <1>3, <2>1, <2>2 DEF Installed, CanFill
<1> QED
  BY <1>2, <1>3

LEMMA PolicyOf ==
  ASSUME CoherenceInv, SoundPolicies
  PROVE  /\ DirtyOnWrite <=> config.back
         /\ DirtyOnWrite \in BOOLEAN
         /\ \A s \in SetIds, w \in WayIds : sets[s][w].dirty \in BOOLEAN
BY CacheAssumption, Zenon
   DEF CoherenceInv, UniqueInv, TypeOK, SoundPolicies, DirtyOnWrite, CacheLine

LEMMA StoreHitInstalls ==
  ASSUME CoherenceInv, SoundPolicies, config.back \/ AllWritable,
         NEW a \in Addrs, NEW n \in Widths,
         NEW v \in [1..n -> Values], WriteHit(a, n, v), UNCHANGED config
  PROVE  /\ Installed(LineOf(a), Patch(View(LineOf(a)), OffsetOf(a), n, v))
         /\ Readable(LineOf(a)) /\ out' = Done
<1> DEFINE l == LineOf(a)
           s == SetOf(l)
           o == OffsetOf(a)
<1> USE DEF CoherenceInv, UniqueInv
<1>0. l \in Lines /\ s \in SetIds
  BY AddressSlices, LineSlices DEF Lines
<1>1. PICK w \in WayIds :
        /\ Hit(l, w)
        /\ sets' = Holding(l, w, sets[s][w].dirty \/ DirtyOnWrite,
                           Patch(sets[s][w].data, o, n, v))
  BY DEF WriteHit
<1> DEFINE d    == sets[s][w].dirty \/ DirtyOnWrite
           data == Patch(View(l), o, n, v)
<1>2. /\ w \in HitWays(l) /\ HomeOf(s, w) = l /\ sets[s][w].valid
      /\ View(l) = sets[s][w].data /\ Readable(l) /\ (config.back \/ Writable(l))
      /\ \A u \in WayIds : u \in HitWays(l) => u = w
  BY <1>0, <1>1, HitHome, ViewCached, HitAlone, HitReadable DEF Hit, AllWritable
<1>3. \A k \in Lines \ {l} : mem'[k] = mem[k] /\ mem'[k] = MemWrittenBack(s, w)[k]
  BY <1>0, <1>2, WrittenBackAt DEF WriteHit, BusPatched, TypeOK
<1>4. ASSUME ~d, l \notin Bypassed
      PROVE  data = mem'[l]
  <2>1. sets[s][w].data = mem[l]
    BY <1>0, <1>2, <1>4 DEF CleanMatchesMemory
  <2>2. ~config.back
    BY <1>4, PolicyOf
  <2>3. mem'[l] = Patch(mem[l], o, n, v)
    BY <1>0, <1>2, <2>2 DEF WriteHit, BusPatched, TypeOK
  <2> QED
    BY <1>2, <2>1, <2>3
<1>5. d \in BOOLEAN
  OBVIOUS
<1>6. d => DirtyOnWrite
  BY <1>0, Zenon DEF DirtyOnlyInWriteBack
<1>7. sets' = Holding(l, w, d, data)
  BY <1>1, <1>2
<1> HIDE DEF d, data
<1>8. InstallsFrom(l, w, d, data)
  BY <1>2, <1>3, <1>4, <1>6, <1>7 DEF InstallsFrom
<1>9. out' = Done
  BY <1>2 DEF WriteHit
<1> QED
  BY <1>2, <1>5, <1>8, <1>9 DEF Installed, data

LEMMA StoreMissInstalls ==
  ASSUME CoherenceInv, SoundPolicies, config.back \/ AllWritable,
         NEW a \in Addrs, NEW n \in Widths,
         NEW v \in [1..n -> Values], WriteMissAllocate(a, n, v), UNCHANGED config
  PROVE  \/ /\ Retires /\ out' = Refused
            /\ \E w \in WayIds : FillFails(LineOf(a), w)
         \/ /\ Installed(LineOf(a), Patch(View(LineOf(a)), OffsetOf(a), n, v))
            /\ Readable(LineOf(a)) /\ out' = Done
<1> DEFINE l == LineOf(a)
           s == SetOf(l)
           o == OffsetOf(a)
<1> USE DEF CoherenceInv, UniqueInv
<1>0. l \in Lines /\ s \in SetIds
  BY AddressSlices, LineSlices DEF Lines
<1>1. PICK w \in WayIds :
        \/ FillFails(l, w)
        \/ LET written == MemWrittenBack(s, w)
               data    == Patch(written[l], o, n, v)
           IN
           /\ CanFill(l, w)
           /\ sets' = Holding(l, w, DirtyOnWrite, data)
           /\ IF config.back
              THEN mem' = written /\ out' = Done
              ELSE IF Writable(l)
                   THEN mem' = [written EXCEPT ![l] = data] /\ out' = Done
                   ELSE mem' = written /\ out' = Refused
  BY DEF WriteMissAllocate
<1>2. CASE FillFails(l, w)
  BY <1>0, <1>2, FailedFillRetires DEF FillFails
<1>3. CASE ~FillFails(l, w)
  <2> DEFINE written == MemWrittenBack(s, w)
             data == Patch(View(l), o, n, v)
  <2>1. Miss(l) /\ written[l] = mem[l] /\ View(l) = mem[l]
    BY <1>0, MissedLine DEF WriteMissAllocate
  <2>2. written \in [Lines -> LineData]
    BY <1>0, WrittenBackType
  <2> HIDE DEF written
  <2>3. Readable(l) /\ (config.back \/ Writable(l))
    BY <1>0, <1>1, <1>3 DEF CanFill, AllWritable
  <2>4. /\ sets' = Holding(l, w, DirtyOnWrite, data)
        /\ IF config.back THEN mem' = written
           ELSE mem' = [written EXCEPT ![l] = data]
        /\ out' = Done
    BY <1>1, <1>3, <2>1, <2>3 DEF written
  <2>5. \A k \in Lines \ {l} : mem'[k] = written[k]
    BY <2>2, <2>4
  <2>6. ~DirtyOnWrite => data = mem'[l]
    <3> HIDE DEF data
    <3> QED
      BY <1>0, <2>2, <2>4, PolicyOf
  <2>7. InstallsFrom(l, w, DirtyOnWrite, data)
    BY <2>1, <2>4, <2>5, <2>6, Zenon DEF InstallsFrom, Miss, written
  <2> QED
    BY <2>3, <2>4, <2>7, PolicyOf DEF Installed
<1> QED
  BY <1>2, <1>3

LEMMA InstalledKeepsCoherence ==
  ASSUME CoherenceInv, UniqueInv', NEW l \in Lines, NEW data \in LineData,
         Installed(l, data)
  PROVE  CoherenceInv'
BY InstallKeepsCoherence DEF Installed

LEMMA ViewType ==
  ASSUME UniqueInv, NEW l \in Lines
  PROVE  View(l) \in LineData
<1>1. SetOf(l) \in SetIds
  BY LineSlices DEF Lines
<1>2. CASE HitWays(l) = {}
  BY <1>2 DEF View, UniqueInv, TypeOK
<1>3. CASE HitWays(l) # {}
  <2>1. PICK w \in WayIds : w \in HitWays(l)
    BY <1>3 DEF HitWays
  <2> QED
    BY <1>1, <2>1, ViewCached DEF UniqueInv, TypeOK, CacheLine
<1> QED
  BY <1>2, <1>3

LEMMA AroundSteps ==
  ASSUME CoherenceInv, UNCHANGED config,
         NEW a \in Addrs, NEW n \in Widths,
         \/ ReadHit(a, n)
         \/ ReadStraddling(a, n)
         \/ \E v \in [1..n -> Values] : WriteMissAround(a, n, v) \/ WriteStraddling(a, n, v)
  PROVE  Around
<1> USE DEF CoherenceInv, UniqueInv, TypeOK
<1>1. CASE ReadHit(a, n) \/ ReadStraddling(a, n)
  BY <1>1 DEF ReadHit, ReadStraddling, Around
<1>2. ASSUME NEW v \in [1..n -> Values], WriteMissAround(a, n, v)
      PROVE  Around
  BY <1>2 DEF WriteMissAround, BusPatched, Miss, Around
<1>3. ASSUME NEW v \in [1..n -> Values], WriteStraddling(a, n, v)
      PROVE  Around
  <2> DEFINE l == LineOf(a)
  <2>1. l \in Lines
    BY AddressSlices
  <2>2. {l, l + 1} \cap Lines \subseteq Bypassed
    BY <1>3 DEF WriteStraddling, MayStraddle
  <2>3. \A k \in Lines : k # l /\ k # l + 1 => mem'[k] = mem[k]
    BY <1>3, <2>1 DEF WriteStraddling, BusPatched
  <2>4. UNCHANGED sets
    BY <1>3 DEF WriteStraddling
  <2> QED
    BY <2>2, <2>3, <2>4 DEF Around
<1> QED
  BY <1>1, <1>2, <1>3

LEMMA DropSteps ==
  ASSUME TypeOK, UNCHANGED config,
         FlushAll \/ Reset \/ \E a \in Addrs : Invalidate(a)
  PROVE  Drops
<1>1. UNCHANGED mem
  BY DEF FlushAll, Reset, Invalidate
<1>2. ASSUME NEW s \in SetIds, NEW w \in WayIds
      PROVE  sets'[s][w] = EmptyLine \/ sets'[s][w] = sets[s][w]
  <2>1. CASE FlushAll \/ Reset
    BY <2>1 DEF FlushAll, Reset, SetsEmpty
  <2>2. ASSUME NEW a \in Addrs, Invalidate(a)
        PROVE  sets'[s][w] = EmptyLine \/ sets'[s][w] = sets[s][w]
    <3>1. SetOf(LineOf(a)) \in SetIds
      BY AddressSlices, LineSlices DEF Lines
    <3> QED
      BY <2>2, <3>1, PutAccess DEF Invalidate
  <2> QED
    BY <2>1, <2>2
<1>3. ASSUME NEW s \in SetIds, NEW w \in WayIds
      PROVE  sets'[s][w] = sets[s][w] \/ (~sets'[s][w].valid /\ ~sets'[s][w].dirty)
  BY <1>2, EmptyClean, Zenon
<1> QED
  BY <1>1, <1>3 DEF Drops

(* A cache with nothing in it is coherent with any memory.                 *)
LEMMA ResetCoherent ==
  ASSUME UniqueInv', PipelineReset
  PROVE  CoherenceInv'
<1>1. \A s \in SetIds, w \in WayIds :
        sets'[s][w].valid = FALSE /\ sets'[s][w].dirty = FALSE
  BY EmptyClean DEF PipelineReset, SetsEmpty
<1> QED
  BY <1>1 DEF CoherenceInv, DirtyOnlyInWriteBack, CleanMatchesMemory

LEMMA NextCoherent ==
  ASSUME CoherenceInv, SoundPolicies, config.back \/ AllWritable, [Next]_vars
  PROVE  CoherenceInv'
<1>0. UniqueInv'
  BY NextUnique DEF CoherenceInv
<1>1. ASSUME NEW a \in Addrs
      PROVE  LineOf(a) \in Lines /\ View(LineOf(a)) \in LineData
             /\ OffsetOf(a) \in Nat
  BY AddressSlices, ViewType DEF CoherenceInv, Offsets
<1>2. CASE UNCHANGED vars
  BY <1>0, <1>2, AroundKeepsCoherence DEF vars, Around
<1>3. CASE Access /\ UNCHANGED config
  <2> PICK a \in Addrs, n \in Widths :
           \/ ReadHit(a, n) \/ ReadMiss(a, n) \/ ReadStraddling(a, n)
           \/ \E v \in [1..n -> Values] :
                \/ WriteHit(a, n, v) \/ WriteMissAllocate(a, n, v)
                \/ WriteMissAround(a, n, v) \/ WriteStraddling(a, n, v)
    BY <1>3 DEF Access
  <2>1. CASE ReadMiss(a, n)
    BY <1>0, <1>1, <1>3, <2>1, LoadMissInstalls, InstalledKeepsCoherence,
       RetireKeepsCoherence
  <2>2. ASSUME NEW v \in [1..n -> Values], WriteHit(a, n, v) \/ WriteMissAllocate(a, n, v)
        PROVE  CoherenceInv'
    <3>1. Patch(View(LineOf(a)), OffsetOf(a), n, v) \in LineData
      BY <1>1, WidthBounds, PatchType
    <3> QED
      BY <1>0, <1>1, <1>3, <2>2, <3>1, StoreHitInstalls, StoreMissInstalls,
         InstalledKeepsCoherence, RetireKeepsCoherence
  <2> QED
    BY <1>0, <1>3, <2>1, <2>2, AroundSteps, AroundKeepsCoherence
<1>4. CASE FlushAllWithBus /\ UNCHANGED config
  BY <1>0, <1>4, FlushingRetires, RetireKeepsCoherence
<1>5. CASE PipelineReset /\ UNCHANGED config
  BY <1>0, <1>5, ResetCoherent
<1>6. CASE (\E a \in Addrs : InvalidateWithBus(a)) /\ UNCHANGED config
  BY <1>0, <1>6, InvalidateRetires, RetireKeepsCoherence
<1>7. CASE (FlushAll \/ Reset \/ \E a \in Addrs : Invalidate(a)) /\ UNCHANGED config
  BY <1>0, <1>7, DropSteps, DropKeepsCoherence DEF CoherenceInv, UniqueInv
<1>8. ASSUME NEW l \in Bypassed, NEW d \in LineData, BusMasterWrite(l, d), UNCHANGED config
      PROVE  CoherenceInv'
  <2>1. UNCHANGED sets /\ \A k \in Lines : mem'[k] = mem[k] \/ k \in Bypassed
    BY <1>8 DEF BusMasterWrite, CoherenceInv, UniqueInv, TypeOK
  <2> QED
    BY <1>0, <1>8, <2>1, AroundKeepsCoherence DEF Around
<1> QED
  BY <1>2, <1>3, <1>4, <1>5, <1>6, <1>7, <1>8 DEF Next, CpuNext, Other

(* Under policies that write through or mark dirty, and over memory that   *)
(* accepts stores, a clean line never differs from memory: evicting it     *)
(* without a write-back is sound, whatever has been evicted, flushed,      *)
(* invalidated, thrown away or left half done before.                      *)
THEOREM CleanLinesCurrent ==
  SoundPolicies /\ AllWritable => (Spec => []CleanMatchesMemory)
<1> SUFFICES ASSUME SoundPolicies, AllWritable
             PROVE  Spec => []CleanMatchesMemory
  OBVIOUS
<1>1. Init => CoherenceInv
  BY InitUnique, EmptyClean
     DEF Init, CoherenceInv, DirtyOnlyInWriteBack, CleanMatchesMemory
<1>2. CoherenceInv /\ [Next]_vars => CoherenceInv'
  BY NextCoherent
<1>3. CoherenceInv => CleanMatchesMemory
  BY DEF CoherenceInv
<1> QED
  BY <1>1, <1>2, <1>3, PTL DEF Spec
-----------------------------------------------------------------------------
(* What becomes of dirty data.  This needs no assumption on the policies   *)
(* or the memory: a line is dirty only in a cache that writes lines back.  *)

DirtyInv == UniqueInv /\ DirtyOnlyInWriteBack

(* No step makes a line dirty unless it is a store to a write-back cache.  *)
DirtyKept ==
  \A s \in SetIds, w \in WayIds :
    sets'[s][w].dirty => sets[s][w].dirty \/ DirtyOnWrite

(* What a dirty way held is in memory, or the way has newer data for it.   *)
WaySurvives(s, w) ==
  \/ mem'[HomeOf(s, w)] = sets[s][w].data
  \/ sets'[s][w].valid /\ sets'[s][w].dirty /\ sets'[s][w].tag = sets[s][w].tag
Survives ==
  \A s \in SetIds, w \in WayIds :
    sets[s][w].valid /\ sets[s][w].dirty => WaySurvives(s, w)

LEMMA DirtyNeedsHome ==
  ASSUME DirtyInv, NEW s \in SetIds, NEW w \in WayIds,
         sets[s][w].valid, sets[s][w].dirty
  PROVE  NeedsWriteBack(s, w)
BY DEF NeedsWriteBack, DirtyInv, DirtyOnlyInWriteBack

LEMMA HomeWrittenBack ==
  ASSUME UniqueInv, NEW s \in SetIds, NEW w \in WayIds, NeedsWriteBack(s, w)
  PROVE  MemWrittenBack(s, w)[HomeOf(s, w)] = sets[s][w].data
<1>1. HomeOf(s, w) \in Lines
  BY Home DEF NeedsWriteBack
<1> QED
  BY <1>1 DEF MemWrittenBack, UniqueInv, TypeOK

LEMMA SameLinesSurvive ==
  ASSUME UNCHANGED sets
  PROVE  DirtyKept /\ Survives
BY DEF DirtyKept, Survives, WaySurvives

(* A step that replaces one line.                                          *)
LEMMA PutSurvives ==
  ASSUME DirtyInv, NEW s \in SetIds, NEW w \in WayIds, NEW line,
         sets' = PutLine(s, w, line),
         line.dirty => sets[s][w].dirty \/ DirtyOnWrite,
         NeedsWriteBack(s, w) =>
           \/ mem'[HomeOf(s, w)] = sets[s][w].data
           \/ line.valid /\ line.dirty /\ line.tag = sets[s][w].tag
  PROVE  DirtyKept /\ Survives
<1>1. \A t \in SetIds, v \in WayIds :
        sets'[t][v] = IF t = s /\ v = w THEN line ELSE sets[t][v]
  BY PutAccess DEF DirtyInv, UniqueInv
<1>2. ASSUME NEW t \in SetIds, NEW v \in WayIds
      PROVE  /\ sets'[t][v].dirty => sets[t][v].dirty \/ DirtyOnWrite
             /\ sets[t][v].valid /\ sets[t][v].dirty => WaySurvives(t, v)
  <2>1. CASE t = s /\ v = w
    <3>1. sets'[t][v] = line
      BY <1>1, <2>1
    <3> QED
      BY <2>1, <3>1, DirtyNeedsHome DEF WaySurvives
  <2>2. CASE ~(t = s /\ v = w)
    <3>1. sets'[t][v] = sets[t][v]
      BY <1>1, <2>2
    <3> QED
      BY <3>1, Zenon DEF WaySurvives
  <2> QED
    BY <2>1, <2>2
<1> QED
  BY <1>2 DEF DirtyKept, Survives

LEMMA FailedFillSurvives ==
  ASSUME DirtyInv, NEW l \in Lines, NEW w \in WayIds, FillFails(l, w)
  PROVE  DirtyKept /\ Survives
<1> DEFINE s == SetOf(l)
<1>0. s \in SetIds
  BY LineSlices DEF Lines
<1>1. CASE UNCHANGED sets
  BY <1>1, SameLinesSurvive
<1>2. CASE ~UNCHANGED sets
  <2>1. /\ NeedsWriteBack(s, w)
        /\ mem' = MemWrittenBack(s, w)
        /\ sets' = PutLine(s, w, Cleaned(s, w))
    BY <1>2 DEF FillFails
  <2>2. mem'[HomeOf(s, w)] = sets[s][w].data
    BY <1>0, <2>1, HomeWrittenBack DEF DirtyInv
  <2>3. Cleaned(s, w).dirty = FALSE
    BY DEF Cleaned
  <2> HIDE DEF s
  <2> QED
    BY <1>0, <2>1, <2>2, <2>3, PutSurvives
<1> QED
  BY <1>1, <1>2

(* A fill that evicts way w: line l is in no way, so that what is stored   *)
(* to it does not touch what was written back.                             *)
LEMMA FillSurvives ==
  ASSUME DirtyInv, NEW l \in Lines, NEW w \in WayIds, Miss(l), NEW d, NEW data,
         sets' = Holding(l, w, d, data), d => DirtyOnWrite,
         \A k \in Lines \ {l} : mem'[k] = MemWrittenBack(SetOf(l), w)[k]
  PROVE  DirtyKept /\ Survives
<1> DEFINE s == SetOf(l)
           line == [valid |-> TRUE, dirty |-> d, tag |-> TagOf(l), data |-> data]
<1>0. s \in SetIds
  BY LineSlices DEF Lines
<1>1. sets' = PutLine(s, w, line) /\ line.dirty = d
  BY DEF Holding
<1>2. ASSUME NeedsWriteBack(s, w)
      PROVE  mem'[HomeOf(s, w)] = sets[s][w].data
  <2>1. HomeOf(s, w) \in Lines /\ w \in HitWays(HomeOf(s, w))
    BY <1>0, <1>2, Home DEF NeedsWriteBack, DirtyInv
  <2>2. HomeOf(s, w) # l
    BY <2>1 DEF Miss
  <2> QED
    BY <1>0, <1>2, <2>1, <2>2, HomeWrittenBack DEF DirtyInv
<1> HIDE DEF s, line
<1> QED
  BY <1>0, <1>1, <1>2, PutSurvives

LEMMA AccessSurvives ==
  ASSUME DirtyInv, Access
  PROVE  DirtyKept /\ Survives
<1> SUFFICES ASSUME NEW a \in Addrs, NEW n \in Widths,
                    \/ ReadHit(a, n)
                    \/ ReadMiss(a, n)
                    \/ ReadStraddling(a, n)
                    \/ \E v \in [1..n -> Values] :
                         \/ WriteHit(a, n, v)
                         \/ WriteMissAllocate(a, n, v)
                         \/ WriteMissAround(a, n, v)
                         \/ WriteStraddling(a, n, v)
             PROVE  DirtyKept /\ Survives
  BY DEF Access
<1> DEFINE l == LineOf(a)
           s == SetOf(l)
           o == OffsetOf(a)
<1>a. l \in Lines /\ s \in SetIds
  BY AddressSlices, LineSlices DEF Lines
<1> HIDE DEF l, s, o
<1>1. CASE UNCHANGED sets
  BY <1>1, SameLinesSurvive
<1>2. CASE ReadMiss(a, n)
  <2>1. PICK w \in WayIds :
          \/ FillFails(l, w)
          \/ /\ sets' = Holding(l, w, FALSE, MemWrittenBack(s, w)[l])
             /\ mem' = MemWrittenBack(s, w)
    BY <1>2 DEF ReadMiss, l, s
  <2>2. Miss(l)
    BY <1>2 DEF ReadMiss, l
  <2>3. CASE FillFails(l, w)
    BY <1>a, <2>3, FailedFillSurvives
  <2>4. CASE ~FillFails(l, w)
    BY <1>a, <2>1, <2>2, <2>4, FillSurvives DEF s
  <2> QED
    BY <2>3, <2>4
<1>3. ASSUME NEW v \in [1..n -> Values], WriteHit(a, n, v)
      PROVE  DirtyKept /\ Survives
  <2>1. PICK w \in WayIds :
          /\ Hit(l, w)
          /\ sets' = Holding(l, w, sets[s][w].dirty \/ DirtyOnWrite,
                             Patch(sets[s][w].data, o, n, v))
    BY <1>3 DEF WriteHit, l, s, o
  <2> DEFINE d == sets[s][w].dirty \/ DirtyOnWrite
             data == Patch(sets[s][w].data, o, n, v)
             line == [valid |-> TRUE, dirty |-> d, tag |-> TagOf(l), data |-> data]
  <2>2. /\ sets' = PutLine(s, w, line)
        /\ line.valid = TRUE /\ line.dirty = d /\ line.tag = TagOf(l)
    BY <2>1 DEF Holding, s
  <2>3. sets[s][w].tag = TagOf(l)
    BY <2>1 DEF Hit, HitWays, s
  <2>4. NeedsWriteBack(s, w) => d
    BY DEF NeedsWriteBack
  <2>5. d => sets[s][w].dirty \/ DirtyOnWrite
    OBVIOUS
  <2> HIDE DEF d, data, line
  <2> QED
    BY <1>a, <2>2, <2>3, <2>4, <2>5, PutSurvives
<1>4. ASSUME NEW v \in [1..n -> Values], WriteMissAllocate(a, n, v)
      PROVE  DirtyKept /\ Survives
  <2>1. PICK w \in WayIds :
          \/ FillFails(l, w)
          \/ LET written == MemWrittenBack(s, w)
                 data    == Patch(written[l], o, n, v)
             IN /\ sets' = Holding(l, w, DirtyOnWrite, data)
                /\ mem' = written \/ mem' = [written EXCEPT ![l] = data]
    BY <1>4 DEF WriteMissAllocate, l, s, o
  <2>2. Miss(l)
    BY <1>4 DEF WriteMissAllocate, l
  <2>3. CASE FillFails(l, w)
    BY <1>a, <2>3, FailedFillSurvives
  <2>4. CASE ~FillFails(l, w)
    <3> DEFINE written == MemWrittenBack(s, w)
               data    == Patch(written[l], o, n, v)
    <3>1. /\ sets' = Holding(l, w, DirtyOnWrite, data)
          /\ mem' = written \/ mem' = [written EXCEPT ![l] = data]
      BY <2>1, <2>4
    <3>2. written \in [Lines -> LineData]
      BY <1>a, WrittenBackType DEF DirtyInv, UniqueInv
    <3> HIDE DEF data, written
    <3>3. \A k \in Lines \ {l} : mem'[k] = written[k]
      BY <3>1, <3>2
    <3> QED
      BY <1>a, <2>2, <3>1, <3>3, FillSurvives DEF s, written
  <2> QED
    BY <2>3, <2>4
<1> QED
  BY <1>a, <1>1, <1>2, <1>3, <1>4
     DEF ReadHit, ReadStraddling, WriteMissAround, WriteStraddling

(* The flush writes back what it drops, up to the line that is refused.    *)
LEMMA FlushSurvives ==
  ASSUME DirtyInv, FlushAllWithBus
  PROVE  Survives
<1> SUFFICES ASSUME NEW s \in SetIds, NEW w \in WayIds,
                    sets[s][w].valid, sets[s][w].dirty
             PROVE  WaySurvives(s, w)
  BY DEF Survives
<1> DEFINE k == HomeOf(s, w)
<1>1. k \in Lines /\ SetOf(k) = s /\ w \in HitWays(k) /\ TagOf(k) = sets[s][w].tag
  BY Home DEF DirtyInv
<1>2. CASE ~Reached(s, w)
  <2>1. sets'[s][w] = sets[s][w]
    BY <1>2 DEF FlushAllWithBus
  <2> QED
    BY <2>1 DEF WaySurvives
<1>3. CASE Reached(s, w)
  <2>1. w \in FlushedFrom(k)
    BY <1>1, <1>3, DirtyNeedsHome DEF FlushedFrom
  <2>2. \A v \in FlushedFrom(k) : v = w
    BY <1>1, FlushedFromHits DEF DirtyInv, UniqueInv, UniqueTag, HitWays
  <2>3. (CHOOSE v \in FlushedFrom(k) : TRUE) = w
    BY <2>1, <2>2
  <2>4. mem'[k] = sets[s][w].data
    BY <1>1, <2>1, <2>3 DEF FlushAllWithBus, MemFlushed
  <2> QED
    BY <2>4 DEF WaySurvives
<1> QED
  BY <1>2, <1>3

LEMMA InvalidateSurvives ==
  ASSUME DirtyInv, NEW a \in Addrs, InvalidateWithBus(a)
  PROVE  DirtyKept /\ Survives
<1> DEFINE l == LineOf(a)
           s == SetOf(l)
<1>0. l \in Lines /\ s \in SetIds
  BY AddressSlices, LineSlices DEF Lines
<1>1. CASE UNCHANGED sets
  BY <1>1, SameLinesSurvive
<1>2. CASE ~UNCHANGED sets
  <2>1. PICK w \in WayIds : mem' = MemWrittenBack(s, w) /\ sets' = PutLine(s, w, EmptyLine)
    BY <1>2 DEF InvalidateWithBus
  <2>2. NeedsWriteBack(s, w) => mem'[HomeOf(s, w)] = sets[s][w].data
    BY <1>0, <2>1, HomeWrittenBack DEF DirtyInv
  <2> HIDE DEF s
  <2> QED
    BY <1>0, <2>1, <2>2, EmptyClean, PutSurvives
<1> QED
  BY <1>1, <1>2

(* The steps that only empty lines make none dirty.                        *)
LEMMA EmptyingDirtiesNone ==
  ASSUME DirtyInv,
         \A s \in SetIds, w \in WayIds :
           sets'[s][w] = sets[s][w] \/ sets'[s][w] = EmptyLine
  PROVE  DirtyKept
<1> SUFFICES ASSUME NEW s \in SetIds, NEW w \in WayIds
             PROVE  sets'[s][w].dirty => sets[s][w].dirty \/ DirtyOnWrite
  BY DEF DirtyKept
<1>1. CASE sets'[s][w] = sets[s][w]
  BY <1>1, Zenon
<1>2. CASE sets'[s][w] = EmptyLine
  BY <1>2, EmptyClean, Zenon
<1> QED
  BY <1>1, <1>2

LEMMA MaintenanceDirtiesNone ==
  ASSUME DirtyInv, FlushAllWithBus \/ Discards
  PROVE  DirtyKept
<1>1. ASSUME NEW s \in SetIds, NEW w \in WayIds
      PROVE  sets'[s][w] = sets[s][w] \/ sets'[s][w] = EmptyLine
  <2>1. CASE FlushAllWithBus \/ FlushAll \/ Reset \/ PipelineReset
    BY <2>1 DEF FlushAllWithBus, FlushAll, Reset, PipelineReset, SetsEmpty
  <2>2. ASSUME NEW a \in Addrs, Invalidate(a)
        PROVE  sets'[s][w] = sets[s][w] \/ sets'[s][w] = EmptyLine
    <3>1. SetOf(LineOf(a)) \in SetIds
      BY AddressSlices, LineSlices DEF Lines
    <3> QED
      BY <2>2, <3>1, PutAccess DEF Invalidate, DirtyInv, UniqueInv
  <2> QED
    BY <2>1, <2>2 DEF Discards
<1> QED
  BY <1>1, EmptyingDirtiesNone

LEMMA StepSurvives ==
  ASSUME DirtyInv, [Next]_vars
  PROVE  DirtyKept /\ (Discards \/ Survives)
<1>1. CASE Access
  BY <1>1, AccessSurvives
<1>2. CASE FlushAllWithBus
  BY <1>2, FlushSurvives, MaintenanceDirtiesNone
<1>3. CASE \E a \in Addrs : InvalidateWithBus(a)
  BY <1>3, InvalidateSurvives
<1>4. CASE Discards
  BY <1>4, MaintenanceDirtiesNone
<1>5. CASE UNCHANGED sets
  BY <1>5, SameLinesSurvive
<1> QED
  BY <1>1, <1>2, <1>3, <1>4, <1>5
     DEF Next, CpuNext, Other, Discards, BusMasterWrite, vars

LEMMA NextDirty ==
  ASSUME DirtyInv, [Next]_vars
  PROVE  DirtyInv'
<1>1. UniqueInv'
  BY NextUnique DEF DirtyInv
<1>2. UNCHANGED config
  BY DEF Next, CpuNext, Other, vars
<1>3. DirtyOnlyInWriteBack'
  BY <1>2, StepSurvives, Zenon
     DEF DirtyInv, DirtyOnlyInWriteBack, DirtyKept, DirtyOnWrite
<1> QED
  BY <1>1, <1>3 DEF DirtyInv

LEMMA InitDirty == Init => DirtyInv
BY InitUnique, EmptyClean DEF Init, DirtyInv, DirtyOnlyInWriteBack

(* Whatever the policies, the memory map and the other bus masters, what a *)
(* dirty line holds never just disappears: a step that takes it out of the *)
(* cache, even one that stops half way with an error, has put it into      *)
(* memory first (or is one of those that discard on purpose).              *)
THEOREM DirtyDataIsKept == Spec => DirtyDataSurvives
<1>1. DirtyInv /\ [Next]_vars =>
        [\A s \in SetIds, w \in WayIds :
           sets[s][w].valid /\ sets[s][w].dirty /\ ~Discards
           => \/ mem'[HomeOf(s, w)] = sets[s][w].data
              \/ sets'[s][w].valid /\ sets'[s][w].dirty
                 /\ sets'[s][w].tag = sets[s][w].tag]_vars
  BY StepSurvives DEF Survives, WaySurvives
<1> QED
  BY <1>1, InitDirty, NextDirty, PTL DEF Spec, DirtyDataSurvives
-----------------------------------------------------------------------------
(* A write-back cache over memory that may refuse: what holds although     *)
(* stores and write-backs fail.  A write-through store that the bus refuses*)
(* has changed the cached line already, so nothing of this is true there.  *)

WriteBackInv == UniqueInv /\ (config.back => CoherenceInv)

LEMMA InitWriteBack == Init => WriteBackInv
BY InitUnique, EmptyClean
   DEF Init, WriteBackInv, CoherenceInv, DirtyOnlyInWriteBack, CleanMatchesMemory

LEMMA NextWriteBack ==
  ASSUME WriteBackInv, SoundPolicies, [Next]_vars
  PROVE  WriteBackInv'
<1>1. UniqueInv'
  BY NextUnique DEF WriteBackInv
<1>2. UNCHANGED config
  BY DEF Next, CpuNext, Other, vars
<1>3. config.back => CoherenceInv'
  BY NextCoherent DEF WriteBackInv
<1> QED
  BY <1>1, <1>2, <1>3 DEF WriteBackInv

(* A step that changes no line, and memory only where it is shared.        *)
LEMMA QuietKeepsViews ==
  ASSUME UNCHANGED sets, NEW k \in Lines \ Bypassed, mem'[k] = mem[k]
  PROVE  View(k)' = View(k)
BY DEF View, HitWays

LEMMA FailedAccessKeepsViews ==
  ASSUME CoherenceInv, UniqueInv', SoundPolicies, config.back, UNCHANGED config,
         Access, ~out'.ok, NEW k \in Lines \ Bypassed
  PROVE  View(k)' = View(k)
<1> PICK a \in Addrs, n \in Widths :
         \/ ReadHit(a, n) \/ ReadMiss(a, n) \/ ReadStraddling(a, n)
         \/ \E v \in [1..n -> Values] :
              \/ WriteHit(a, n, v) \/ WriteMissAllocate(a, n, v)
              \/ WriteMissAround(a, n, v) \/ WriteStraddling(a, n, v)
  BY DEF Access
<1>1. LineOf(a) \in Lines
  BY AddressSlices
<1>2. ~(out' = Done) /\ \A u : ~(out' = Loaded(u))
  BY DEF Done, Loaded
<1>3. CASE ReadHit(a, n)
  BY <1>2, <1>3 DEF ReadHit
<1>4. CASE ReadMiss(a, n)
  <2>1. Retires
    BY <1>2, <1>4, LoadMissInstalls
  <2> QED
    BY <2>1, RetireView
<1>5. CASE ReadStraddling(a, n)
  BY <1>5, QuietKeepsViews DEF ReadStraddling
<1>6. ASSUME NEW v \in [1..n -> Values], WriteHit(a, n, v)
      PROVE  FALSE
  BY <1>2, <1>6 DEF WriteHit
<1>7. ASSUME NEW v \in [1..n -> Values], WriteMissAllocate(a, n, v)
      PROVE  View(k)' = View(k)
  <2>1. Retires
    BY <1>2, <1>7, StoreMissInstalls
  <2> QED
    BY <2>1, RetireView
<1>8. ASSUME NEW v \in [1..n -> Values], WriteMissAround(a, n, v)
      PROVE  View(k)' = View(k)
  BY <1>2, <1>8, QuietKeepsViews DEF WriteMissAround
<1>9. ASSUME NEW v \in [1..n -> Values], WriteStraddling(a, n, v)
      PROVE  View(k)' = View(k)
  <2>1. LineOf(a) \in Bypassed
    BY <1>1, <1>9 DEF WriteStraddling, MayStraddle
  <2>2. mem'[k] = mem[k]
    BY <1>1, <1>2, <1>9, <2>1
       DEF WriteStraddling, BusPatched, CoherenceInv, UniqueInv, TypeOK
  <2> QED
    BY <1>9, <2>2, QuietKeepsViews DEF WriteStraddling
<1> QED
  BY <1>3, <1>4, <1>5, <1>6, <1>7, <1>8, <1>9

LEMMA FailedStepKeepsViews ==
  ASSUME CoherenceInv, UniqueInv', SoundPolicies, config.back, Next, ~out'.ok,
         NEW k \in Lines \ Bypassed
  PROVE  View(k)' = View(k)
<1>0. ~(out' = Done)
  BY DEF Done
<1>1. CASE Access /\ UNCHANGED config
  BY <1>1, FailedAccessKeepsViews
<1>2. CASE FlushAllWithBus /\ UNCHANGED config
  BY <1>2, FlushingRetires, RetireView
<1>3. CASE (\E a \in Addrs : InvalidateWithBus(a)) /\ UNCHANGED config
  BY <1>3, InvalidateRetires, RetireView
<1> QED
  BY <1>0, <1>1, <1>2, <1>3
     DEF Next, CpuNext, Other, PipelineReset, FlushAll, Reset, Invalidate, BusMasterWrite

(* Whatever fails, and however far it got, the program does not see it: no *)
(* refused fill, write-back, invalidation or flush of a write-back cache   *)
(* changes what a load of any line would return.                           *)
THEOREM FailuresAreInvisible == SoundPolicies => (Spec => FailureKeepsView)
<1> SUFFICES ASSUME SoundPolicies
             PROVE  Spec => FailureKeepsView
  OBVIOUS
<1>1. WriteBackInv /\ [Next]_vars => WriteBackInv'
  BY NextWriteBack
<1>2. WriteBackInv /\ WriteBackInv' /\ [Next]_vars =>
        [config.back /\ ~out'.ok => \A l \in Lines \ Bypassed : View(l)' = View(l)]_vars
  BY FailedStepKeepsViews DEF WriteBackInv
<1> QED
  BY <1>1, <1>2, InitWriteBack, PTL DEF Spec, FailureKeepsView

LEMMA FlushEmpties ==
  ASSUME CoherenceInv, UniqueInv', config.back, UNCHANGED config,
         FlushAllWithBus, out'.ok, NEW l \in Lines
  PROVE  HitWays(l)' = {} /\ (l \notin Bypassed => mem'[l] = View(l))
<1>1. FlushOk
  BY DEF FlushAllWithBus, Refused
<1>2. \A s \in SetIds, w \in WayIds : sets'[s][w] = EmptyLine
  BY <1>1 DEF FlushAllWithBus, FlushOk, Reached
<1>3. HitWays(l)' = {}
  <2>1. SetOf(l) \in SetIds
    BY LineSlices DEF Lines
  <2> QED
    BY <1>2, <2>1, EmptyClean DEF HitWays
<1>4. View(l)' = mem'[l]
  BY <1>3 DEF View
<1>5. l \notin Bypassed => View(l)' = View(l)
  BY FlushingRetires, RetireView
<1> QED
  BY <1>3, <1>4, <1>5

(* After a flush that reports success a write-back cache is empty and      *)
(* memory holds what the program saw, for any geometry, memory map and     *)
(* history of failures before it.                                          *)
THEOREM FlushesReachMemory == SoundPolicies => (Spec => FlushMakesMemoryCurrent)
<1> SUFFICES ASSUME SoundPolicies
             PROVE  Spec => FlushMakesMemoryCurrent
  OBVIOUS
<1>1. WriteBackInv /\ [Next]_vars => WriteBackInv'
  BY NextWriteBack
<1>2. WriteBackInv /\ WriteBackInv' /\ [Next]_vars =>
        [config.back /\ FlushAllWithBus /\ out'.ok =>
           \A l \in Lines : /\ HitWays(l)' = {}
                            /\ l \notin Bypassed => mem'[l] = View(l)]_vars
  <2>1. Next => UNCHANGED config
    BY DEF Next, CpuNext, Other
  <2> QED
    BY <2>1, FlushEmpties DEF WriteBackInv
<1> QED
  BY <1>1, <1>2, InitWriteBack, PTL DEF Spec, FlushMakesMemoryCurrent
=============================================================================
