------------------------------- MODULE Cache -------------------------------
(***************************************************************************)
(* One set-associative cache of src/src/cpu/cache.rs and the bus memory    *)
(* behind it: fill, eviction, write-back, the direct-to-bus path of an     *)
(* access that straddles two lines, invalidation, flush and reset, with    *)
(* every `?` at which a bus error leaves an operation half done.           *)
(* Statistics counters are left out.                                       *)
(***************************************************************************)
EXTENDS Integers

CONSTANTS
  SetCount, Ways, LineSize,  \* geometry; LineSize in bytes
  LineCount,                 \* lines of physical memory
  Kind,                      \* Kind[l]: "rw" RAM, "ro" ROM, "none" no device
  Widths, Values, Zero,      \* access widths, byte values, the reset value
  Configs,                   \* the CacheConfigs a cache may be built with
  Bypassed                   \* lines also accessed around the cache: written by
                             \* another bus master, or by straddling accesses

Lines   == 0 .. LineCount - 1
SetIds  == 0 .. SetCount - 1
WayIds  == 0 .. Ways - 1
Offsets == 0 .. LineSize - 1
Tags    == Nat
Addrs   == 0 .. LineCount * LineSize - 1

ASSUME CacheAssumption ==
  /\ SetCount \in Nat \ {0} /\ Ways \in Nat \ {0}
  /\ LineSize \in Nat \ {0} /\ LineCount \in Nat \ {0}
  /\ Kind \in [Lines -> {"rw", "ro", "none"}]
  /\ Widths \subseteq 1 .. LineSize
  /\ Zero \in Values
  /\ Configs \subseteq [data : BOOLEAN, back : BOOLEAN, allocate : BOOLEAN]
  /\ Bypassed \subseteq Lines

VARIABLES
  config,      \* CacheType::Data?  WriteBack?  WriteAllocate?  (never changes)
  sets,        \* sets[s][w]: the cache line in way w of set s
  nextVictim,  \* round-robin pointer of each set
  mem,         \* bus memory, by line
  out          \* what the last operation returned

vars == <<config, sets, nextVictim, mem, out>>

-----------------------------------------------------------------------------
(* Address slicing.                                                        *)
LineOf(a)       == a \div LineSize
OffsetOf(a)     == a % LineSize
SetOf(l)        == l % SetCount
TagOf(l)        == l \div SetCount
LineNo(s, t)    == t * SetCount + s
Straddles(a, n) == OffsetOf(a) + n > LineSize

(* A straddling access, made only to lines the model lets be bypassed.     *)
MayStraddle(a, n) ==
  Straddles(a, n) /\ {LineOf(a), LineOf(a) + 1} \cap Lines \subseteq Bypassed

LineData == [Offsets -> Values]
CacheLine == [valid : BOOLEAN, dirty : BOOLEAN, tag : Tags, data : LineData]
EmptyLine == [valid |-> FALSE, dirty |-> FALSE, tag |-> 0,
              data |-> [o \in Offsets |-> Zero]]

PutLine(s, w, line) == [sets EXCEPT ![s][w] = line]

Slice(d, o, n)    == [i \in 1..n |-> d[o + i - 1]]
Patch(d, o, n, v) == [i \in Offsets |->
                        IF i \in o .. (o + n - 1) THEN v[i - o + 1] ELSE d[i]]

Done      == [ok |-> TRUE,  val |-> <<>>]
Refused   == [ok |-> FALSE, val |-> <<>>]
Loaded(v) == [ok |-> TRUE,  val |-> v]

(* What a bus access to line l may do; past the end there is no device.    *)
Readable(l) == l \in Lines /\ Kind[l] # "none"
Writable(l) == l \in Lines /\ Kind[l] = "rw"

-----------------------------------------------------------------------------
(* Lookup and replacement.                                                 *)
(* Definitions named Wrong... are plausible bugs; no action uses them.     *)
WrongHitWays(l) == {w \in {0} : sets[SetOf(l)][w].valid
                                /\ sets[SetOf(l)][w].tag = TagOf(l)}
HitWays(l) == {w \in WayIds : sets[SetOf(l)][w].valid
                              /\ sets[SetOf(l)][w].tag = TagOf(l)}
Hit(l, w)  == w \in HitWays(l) /\ \A v \in HitWays(l) : w <= v
Miss(l)    == HitWays(l) = {}

Full(s) == \A w \in WayIds : sets[s][w].valid
IsVictim(s, w) ==
  IF Full(s) THEN w = nextVictim[s]
  ELSE ~sets[s][w].valid /\ \A v \in WayIds : v < w => sets[s][v].valid
WrongAdvanced(s) == IF Full(s) THEN [nextVictim EXCEPT ![s] = @ + 1] ELSE nextVictim
Advanced(s) == IF Full(s) THEN [nextVictim EXCEPT ![s] = (@ + 1) % Ways]
               ELSE nextVictim

-----------------------------------------------------------------------------
(* Write-back of one way.                                                  *)
WrongDirtyOnWrite == FALSE
DirtyOnWrite == config.data /\ config.back
NeedsWriteBack(s, w) == sets[s][w].valid /\ sets[s][w].dirty /\ DirtyOnWrite
HomeOf(s, w) == LineNo(s, sets[s][w].tag)
WriteBackFails(s, w) == NeedsWriteBack(s, w) /\ ~Writable(HomeOf(s, w))
WrongMemWrittenBack(s, w) == mem
MemWrittenBack(s, w) ==
  IF NeedsWriteBack(s, w) THEN [mem EXCEPT ![HomeOf(s, w)] = sets[s][w].data]
  ELSE mem
Cleaned(s, w) == [valid |-> TRUE, dirty |-> FALSE,
                  tag |-> sets[s][w].tag, data |-> sets[s][w].data]

WrongFillFails(l, w) ==
  /\ nextVictim' = Advanced(SetOf(l))
  /\ out' = Refused
  /\ WriteBackFails(SetOf(l), w) \/ ~Readable(l)
  /\ sets' = PutLine(SetOf(l), w, EmptyLine)
  /\ UNCHANGED mem

(* fill_line into way w, and its two error exits: the write-back is refused*)
(* with only the pointer moved, or the line cannot be read after the victim*)
(* has been written back (the victim stays cached, now clean).             *)
FillFails(l, w) ==
  LET s == SetOf(l) IN
  /\ nextVictim' = Advanced(s)
  /\ out' = Refused
  /\ \/ WriteBackFails(s, w) /\ UNCHANGED <<sets, mem>>
     \/ /\ ~WriteBackFails(s, w) /\ ~Readable(l)
        /\ mem' = MemWrittenBack(s, w)
        /\ sets' = IF NeedsWriteBack(s, w) THEN PutLine(s, w, Cleaned(s, w)) ELSE sets

CanFill(l, w) == ~WriteBackFails(SetOf(l), w) /\ Readable(l)

(* Way w comes to hold line l.                                             *)
Holding(l, w, dirty, data) ==
  PutLine(SetOf(l), w,
          [valid |-> TRUE, dirty |-> dirty, tag |-> TagOf(l), data |-> data])
-----------------------------------------------------------------------------
Init ==
  /\ config \in Configs
  /\ sets = [s \in SetIds |-> [w \in WayIds |-> EmptyLine]]
  /\ nextVictim = [s \in SetIds |-> 0]
  /\ mem = [l \in Lines |-> [o \in Offsets |-> Zero]]
  /\ out = Done

ReadHit(a, n) ==
  LET l == LineOf(a) IN
  /\ ~Straddles(a, n)
  /\ \E w \in WayIds :
       /\ Hit(l, w)
       /\ out' = Loaded(Slice(sets[SetOf(l)][w].data, OffsetOf(a), n))
  /\ UNCHANGED <<sets, nextVictim, mem>>

ReadMiss(a, n) ==
  LET l == LineOf(a)
      s == SetOf(l)
  IN
  /\ ~Straddles(a, n)
  /\ Miss(l)
  /\ \E w \in WayIds :
       /\ IsVictim(s, w)
       /\ \/ FillFails(l, w)
          \/ LET data == MemWrittenBack(s, w)[l] IN
             /\ CanFill(l, w)
             /\ sets' = Holding(l, w, FALSE, data)
             /\ mem' = MemWrittenBack(s, w)
             /\ nextVictim' = Advanced(s)
             /\ out' = Loaded(Slice(data, OffsetOf(a), n))

(* A load that straddles two lines reads the bus and looks at no line.     *)
ReadStraddling(a, n) ==
  LET byte(b) == mem[LineOf(b)][OffsetOf(b)] IN
  /\ MayStraddle(a, n)
  /\ out' = IF Readable(LineOf(a)) /\ Readable(LineOf(a) + 1)
            THEN Loaded([i \in 1..n |-> byte(a + i - 1)])
            ELSE Refused
  /\ UNCHANGED <<sets, nextVictim, mem>>

(* Bytes v stored from address a on reach the bus line l.                  *)
BusPatched(l, o, n, v) == [mem EXCEPT ![l] = Patch(@, o, n, v)]

(* A write-through store the bus refuses has already changed the line.     *)
WriteHit(a, n, v) ==
  LET l == LineOf(a)
      s == SetOf(l)
      o == OffsetOf(a)
  IN
  /\ ~Straddles(a, n)
  /\ \E w \in WayIds :
       /\ Hit(l, w)
       /\ sets' = Holding(l, w, sets[s][w].dirty \/ DirtyOnWrite,
                           Patch(sets[s][w].data, o, n, v))
  /\ IF config.back
     THEN mem' = mem /\ out' = Done
     ELSE IF Writable(l)
          THEN mem' = BusPatched(l, o, n, v) /\ out' = Done
          ELSE mem' = mem /\ out' = Refused
  /\ UNCHANGED nextVictim

WriteMissAllocate(a, n, v) ==
  LET l == LineOf(a)
      s == SetOf(l)
      o == OffsetOf(a)
  IN
  /\ ~Straddles(a, n)
  /\ Miss(l) /\ config.allocate
  /\ \E w \in WayIds :
       /\ IsVictim(s, w)
       /\ \/ FillFails(l, w)
          \/ LET written == MemWrittenBack(s, w)
                 data    == Patch(written[l], o, n, v)
             IN
             /\ CanFill(l, w)
             /\ sets' = Holding(l, w, DirtyOnWrite, data)
             /\ nextVictim' = Advanced(s)
             /\ IF config.back
                THEN mem' = written /\ out' = Done
                ELSE IF Writable(l)
                     THEN mem' = [written EXCEPT ![l] = data] /\ out' = Done
                     ELSE mem' = written /\ out' = Refused

WriteMissAround(a, n, v) ==
  LET l == LineOf(a) IN
  /\ ~Straddles(a, n)
  /\ Miss(l) /\ ~config.allocate
  /\ IF Writable(l)
     THEN mem' = BusPatched(l, OffsetOf(a), n, v) /\ out' = Done
     ELSE mem' = mem /\ out' = Refused
  /\ UNCHANGED <<sets, nextVictim>>

(* A store that straddles two lines goes to the bus byte by byte: the bytes*)
(* before the first refused one stay written, and no cached line changes.  *)
WriteStraddling(a, n, v) ==
  LET l     == LineOf(a)
      o     == OffsetOf(a)
      low   == LineSize - o                     \* bytes that fall in line l
      mem1  == BusPatched(l, o, low, v)
      tail  == [i \in 1 .. (n - low) |-> v[low + i]]
  IN
  /\ MayStraddle(a, n)
  /\ IF ~Writable(l) THEN mem' = mem /\ out' = Refused
     ELSE IF ~Writable(l + 1) THEN mem' = mem1 /\ out' = Refused
     ELSE /\ mem' = [mem1 EXCEPT ![l + 1] = Patch(@, 0, n - low, tail)]
          /\ out' = Done
  /\ UNCHANGED <<sets, nextVictim>>

-----------------------------------------------------------------------------
(* Maintenance.                                                            *)
InvalidateWithBus(a) ==
  LET l == LineOf(a)
      s == SetOf(l)
  IN
  /\ \/ Miss(l) /\ UNCHANGED <<sets, mem>> /\ out' = Done
     \/ \E w \in WayIds :
          /\ Hit(l, w)
          /\ IF WriteBackFails(s, w)
             THEN UNCHANGED <<sets, mem>> /\ out' = Refused
             ELSE /\ mem' = MemWrittenBack(s, w)
                  /\ sets' = PutLine(s, w, EmptyLine)
                  /\ out' = Done
  /\ UNCHANGED nextVictim

(* flush_all_with_bus walks the ways in order and stops at the first line  *)
(* whose write-back the bus refuses: the ones before it are gone, it and   *)
(* the ones after it stay.                                                 *)
Position(s, w) == s * Ways + w
Reached(s, w) ==
  \A t \in SetIds, v \in WayIds :
    Position(t, v) <= Position(s, w) => ~WriteBackFails(t, v)
FlushOk == \A s \in SetIds, w \in WayIds : ~WriteBackFails(s, w)
FlushedFrom(l) == {w \in WayIds : /\ NeedsWriteBack(SetOf(l), w)
                                  /\ sets[SetOf(l)][w].tag = TagOf(l)
                                  /\ Reached(SetOf(l), w)}
WrongMemFlushed == mem
MemFlushed ==
  [l \in Lines |-> IF FlushedFrom(l) = {} THEN mem[l]
                   ELSE sets[SetOf(l)][CHOOSE w \in FlushedFrom(l) : TRUE].data]
SetsEmpty == [s \in SetIds |-> [w \in WayIds |-> EmptyLine]]

WrongFlushAllWithBus ==
  /\ mem' = MemFlushed
  /\ sets' = SetsEmpty
  /\ out' = IF FlushOk THEN Done ELSE Refused
  /\ UNCHANGED nextVictim

FlushAllWithBus ==
  /\ mem' = MemFlushed
  /\ sets' = [s \in SetIds |-> [w \in WayIds |->
                IF Reached(s, w) THEN EmptyLine ELSE sets[s][w]]]
  /\ out' = IF FlushOk THEN Done ELSE Refused
  /\ UNCHANGED nextVictim

(* PipelineCpu::reset: flush, ignore its error, then drop every line.      *)
PipelineReset ==
  /\ mem' = MemFlushed
  /\ sets' = SetsEmpty
  /\ nextVictim' = [s \in SetIds |-> 0]
  /\ out' = Done

(* The variants without a bus throw dirty data away.                       *)
Invalidate(a) ==
  LET l == LineOf(a) IN
  /\ \/ Miss(l) /\ UNCHANGED sets
     \/ \E w \in WayIds : Hit(l, w)
          /\ sets' = PutLine(SetOf(l), w, EmptyLine)
  /\ out' = Done
  /\ UNCHANGED <<nextVictim, mem>>

FlushAll ==
  /\ sets' = SetsEmpty
  /\ out' = Done
  /\ UNCHANGED <<nextVictim, mem>>

Reset ==
  /\ sets' = SetsEmpty
  /\ nextVictim' = [s \in SetIds |-> 0]
  /\ out' = Done
  /\ UNCHANGED mem

(* A DMA engine, or the page walker setting A/D bits, writes the bus.      *)
BusMasterWrite(l, d) ==
  /\ l \in Bypassed /\ Writable(l)
  /\ mem' = [mem EXCEPT ![l] = d]
  /\ out' = Done
  /\ UNCHANGED <<sets, nextVictim>>

-----------------------------------------------------------------------------
Access ==
  \E a \in Addrs, n \in Widths :
    \/ ReadHit(a, n)
    \/ ReadMiss(a, n)
    \/ ReadStraddling(a, n)
    \/ \E v \in [1..n -> Values] :
         \/ WriteHit(a, n, v)
         \/ WriteMissAllocate(a, n, v)
         \/ WriteMissAround(a, n, v)
         \/ WriteStraddling(a, n, v)

(* Everything the pipeline does to a cache ...                             *)
CpuNext ==
  /\ \/ Access
     \/ FlushAllWithBus
     \/ PipelineReset
     \/ \E a \in Addrs : InvalidateWithBus(a)
  /\ UNCHANGED config

(* ... and the rest of the cache's interface and of the bus.               *)
Other ==
  /\ \/ FlushAll
     \/ Reset
     \/ \E a \in Addrs : Invalidate(a)
     \/ \E l \in Bypassed, d \in LineData : BusMasterWrite(l, d)
  /\ UNCHANGED config

Next ==
  \/ CpuNext
  \/ Other

CpuSpec == Init /\ [][CpuNext]_vars
Spec    == Init /\ [][Next]_vars
-----------------------------------------------------------------------------
(* Properties.                                                             *)

TypeOK ==
  /\ config \in Configs
  /\ sets \in [SetIds -> [WayIds -> CacheLine]]
  /\ nextVictim \in [SetIds -> WayIds]
  /\ mem \in [Lines -> LineData]
  /\ out.ok \in BOOLEAN

(* No memory line is cached in two ways of its set: a lookup that stops at *)
(* the first match (find_way) then never hides a newer copy.               *)
UniqueTag ==
  \A s \in SetIds : \A v, w \in WayIds :
    /\ sets[s][v].valid /\ sets[s][w].valid
    /\ sets[s][v].tag = sets[s][w].tag
    => v = w

(* Every cached line is a line of memory the bus can read back: fills that *)
(* fail install nothing.                                                   *)
CachedLinesExist ==
  \A s \in SetIds, w \in WayIds :
    sets[s][w].valid => Readable(HomeOf(s, w))

(* A clean line holds what memory holds, so that dropping it on eviction   *)
(* without a write-back loses nothing.                                     *)
CleanMatchesMemory ==
  \A s \in SetIds, w \in WayIds :
    LET l == HomeOf(s, w) IN
    sets[s][w].valid /\ ~sets[s][w].dirty /\ l \notin Bypassed
    => sets[s][w].data = mem[l]

(* The memory a program sees: the cached copy if there is one.             *)
View(l) ==
  LET hits == HitWays(l) IN
  IF hits = {} THEN mem[l]
  ELSE sets[SetOf(l)][CHOOSE w \in hits : \A v \in hits : w <= v].data

(* The cache and the bus memory together are a flat memory.                *)
Mapped == {a \in Addrs : Readable(LineOf(a))}
Contents == [a \in Addrs |-> View(LineOf(a))[OffsetOf(a)]]
Flat == INSTANCE FlatMemory WITH Addresses <- Addrs, contents <- Contents
RefinesFlatMemory == Flat!Spec

(* flush_all_with_bus of a write-back cache: when it reports success       *)
(* nothing is cached any more and memory holds what the program saw.       *)
FlushMakesMemoryCurrent ==
  [][config.back /\ FlushAllWithBus /\ out'.ok =>
       \A l \in Lines : /\ HitWays(l)' = {}
                        /\ l \notin Bypassed => mem'[l] = View(l)]_vars

(* An operation of a write-back cache that reports an error leaves every   *)
(* line as the program saw it before, although it may have moved the       *)
(* replacement pointer, written victims back or flushed half the sets.     *)
FailureKeepsView ==
  [][config.back /\ ~out'.ok => \A l \in Lines \ Bypassed : View(l)' = View(l)]_vars

(* Dirty data leaves the cache only into memory: whatever operation        *)
(* replaces a dirty line, failed or not, its last contents are still       *)
(* cached or in memory afterwards.  The operations that discard on purpose *)
(* (no bus argument) and reset, which ignores the flush's error, are       *)
(* exempt.                                                                 *)
Discards ==
  \/ FlushAll \/ Reset \/ PipelineReset
  \/ \E a \in Addrs : Invalidate(a)
DirtyDataSurvives ==
  [][\A s \in SetIds, w \in WayIds :
       sets[s][w].valid /\ sets[s][w].dirty /\ ~Discards
       => \/ mem'[HomeOf(s, w)] = sets[s][w].data
          \/ sets'[s][w].valid /\ sets'[s][w].dirty
             /\ sets'[s][w].tag = sets[s][w].tag]_vars
=============================================================================
