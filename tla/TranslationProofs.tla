-------------------------- MODULE TranslationProofs -------------------------
(***************************************************************************)
(* Theorems about Translation, for every TLB size, every memory of page    *)
(* tables and everything software may do to them.                          *)
(***************************************************************************)
EXTENDS Translation, TLAPS

-----------------------------------------------------------------------------
(* Type correctness.                                                       *)
Entry == {Invalid} \cup [valid : {TRUE}, map : Mapping]
Fill  ==
  {Lost} \cup [known : {TRUE}, place : Place, access : Accesses, shown : BOOLEAN]
Line  == {NoLine} \cup [dirty : BOOLEAN, ptes : [Index -> Pte]]

LEMMA LeavesType ==
  ASSUME NEW mem \in Memory, NEW s \in Satps, NEW page \in Page,
         NEW place \in Leaves(mem, s, page)
  PROVE  /\ place \in Place /\ place.table \in Tables
         /\ At(mem, place) \in Pte
<1> DEFINE upper == Upper(s, page)
           lower == Lower(At(mem, upper), page)
<1>1. upper \in Place /\ upper.table = s.root /\ upper.index \in Index
  BY DEF Upper, Satps, Page, Place
<1>2. \A q \in Place : q.table \in Tables => At(mem, q) \in Pte
  BY DEF At, Memory, Place
<1>3. CASE place = upper /\ Read(mem, upper)
  BY <1>1, <1>2, <1>3 DEF Read
<1>4. CASE place = lower /\ Read(mem, upper) /\ Read(mem, lower)
  <2>1. At(mem, upper) \in Pte  BY <1>1, <1>2, <1>4 DEF Read
  <2>2. lower \in Place  BY <2>1 DEF Lower, Pte, Page, Place
  <2> QED  BY <1>2, <1>4, <2>2 DEF Read
<1>5. \/ place = upper /\ Read(mem, upper)
      \/ place = lower /\ Read(mem, upper) /\ Read(mem, lower)
  BY DEF Leaves
<1> QED  BY <1>3, <1>4, <1>5

LEMMA MappingAtType ==
  ASSUME NEW mem, NEW a \in Asids, NEW page \in Page, NEW place,
         At(mem, place) \in Pte
  PROVE  MappingAt(mem, a, page, place) \in Mapping
<1>1. Physical(mem, place, page) \in Page
  BY DEF Physical, Pte, Page
<1>2. Perms(At(mem, place).flags) \in SUBSET {"R", "W", "X", "U"}
  BY DEF Perms
<1> QED  BY <1>1, <1>2 DEF MappingAt, Mapping

LEMMA MappingsType ==
  ASSUME NEW mem \in Memory, NEW s \in Satps
  PROVE  Mappings(mem, s) \subseteq Mapping
<1>1. ASSUME NEW page \in Page, NEW place \in Leaves(mem, s, page)
      PROVE  MappingAt(mem, s.asid, page, place) \in Mapping
  BY LeavesType, MappingAtType DEF Satps
<1> QED  BY <1>1 DEF Mappings

LEMMA MarkedType ==
  ASSUME NEW p \in Pte, NEW access
  PROVE  /\ Marked(p, access) \in Pte
         /\ Marked(p, access).ppn = p.ppn
         /\ \A f \in {"V", "R", "W", "X", "U"} :
              f \in Marked(p, access).flags <=> f \in p.flags
<1> DEFINE added == IF access = "store" THEN {"A", "D"} ELSE {"A"}
           flags == p.flags \cup added
<1>1. added \subseteq {"A", "D"}  OBVIOUS
<1>2. flags \in SUBSET Flags  BY <1>1 DEF Pte, Flags
<1>3. \A f \in {"V", "R", "W", "X", "U"} : f \in flags <=> f \in p.flags
  BY <1>1
<1> HIDE DEF flags, added
<1>4. [p EXCEPT !.flags = flags] \in Pte  BY <1>2 DEF Pte
<1>5. /\ [p EXCEPT !.flags = flags].flags = flags
      /\ [p EXCEPT !.flags = flags].ppn = p.ppn
  BY DEF Pte
<1>6. Marked(p, access) = [p EXCEPT !.flags = flags]  BY DEF Marked, flags, added
<1> QED  BY <1>3, <1>4, <1>5, <1>6

LEMMA WrittenBackType ==
  ASSUME TypeOK, NEW gone
  PROVE  WrittenBack(gone) \in Memory
<1>1. ASSUME NEW t \in Tables
      PROVE  (IF t \in gone /\ line[t].dirty THEN line[t].ptes ELSE ram[t]) \in [Index -> Pte]
  <2>1. ram[t] \in [Index -> Pte]  BY DEF TypeOK, Memory
  <2>2. CASE line[t] = NoLine
    BY <2>1, <2>2 DEF NoLine
  <2>3. CASE line[t] \in [dirty : BOOLEAN, ptes : [Index -> Pte]]
    BY <2>1, <2>3
  <2> QED  BY <2>2, <2>3 DEF TypeOK
<1> QED  BY <1>1 DEF WrittenBack, Memory

LEMMA InitType == Init => TypeOK
<1> SUFFICES ASSUME Init PROVE TypeOK  OBVIOUS
<1>1. ram \in Memory
  <2>1. \A t \in Tables, i \in Index : ram[t][i] \in Pte
    BY TranslationAssumption DEF Init
  <2>2. ram \in [Tables -> [Index -> UNION {Edits[t][i] : t \in Tables, i \in Index}]]
    BY DEF Init
  <2>3. \A t \in Tables : ram[t] \in [Index -> Pte]  BY <2>1, <2>2
  <2> QED  BY <2>2, <2>3 DEF Memory
<1>2. satp \in Satp  BY TranslationAssumption DEF Init
<1>3. nextInsert \in Slots  BY TranslationAssumption DEF Init, Slots
<1> QED  BY <1>1, <1>2, <1>3 DEF Init, TypeOK

LEMMA TranslateType ==
  ASSUME TypeOK, NEW page \in Page, NEW priv, NEW access \in Accesses, NEW sum, NEW mxr,
         Translate(page, priv, access, sum, mxr)
  PROVE  TypeOK'
<1>1. satp \in Satps  BY TranslationAssumption DEF TypeOK
<1>2. PICK place \in Walked(page, priv, access, sum, mxr) :
        /\ ram' = IF place.table \in RomTables THEN ram
                  ELSE [ram EXCEPT ![place.table][place.index] = Marked(@, access)]
        /\ tlb' = [tlb EXCEPT ![nextInsert] = Valid(MappingAt(ram, satp.asid, page, place))]
        /\ origin' = [origin EXCEPT ![nextInsert] =
                        From(place, access,
                             place.table \notin RomTables /\ line[place.table] = NoLine)]
  BY DEF Translate
<1>3. place \in Leaves(ram, satp, page)  BY DEF Walked
<1>4. place \in Place /\ place.table \in Tables /\ At(ram, place) \in Pte
  BY <1>1, <1>3, LeavesType DEF TypeOK
<1>5. MappingAt(ram, satp.asid, page, place) \in Mapping
  BY <1>1, <1>4, MappingAtType DEF Satps
<1>6. ram' \in Memory
  <2>1. Marked(ram[place.table][place.index], access) \in Pte
    BY <1>4, MarkedType DEF At
  <2>2. place.index \in Index  BY <1>4 DEF Place
  <2> QED  BY <1>2, <1>4, <2>1, <2>2 DEF TypeOK, Memory
<1>7. tlb' \in [Slots -> Entry]
  <2>1. Valid(MappingAt(ram, satp.asid, page, place)) \in Entry
    BY <1>5 DEF Valid, Entry
  <2> QED  BY <1>2, <2>1 DEF TypeOK, Entry
<1>8. origin' \in [Slots -> Fill]
  <2>1. \A shown \in BOOLEAN : From(place, access, shown) \in Fill
    BY <1>4 DEF From, Fill
  <2> QED  BY <1>2, <2>1 DEF TypeOK, Fill
<1>9. nextInsert' \in Slots
  BY TranslationAssumption DEF Translate, Following, TypeOK, Slots
<1> QED  BY <1>6, <1>7, <1>8, <1>9 DEF Translate, TypeOK, Entry, Fill

LEMMA DropType ==
  ASSUME TypeOK, NEW gone, Drop(gone)
  PROVE  /\ tlb' \in [Slots -> Entry] /\ origin' \in [Slots -> Fill]
         /\ ram' = ram /\ line' = line /\ satp' = satp
BY DEF TypeOK, Drop, Entry, Fill

LEMMA FlushType ==
  ASSUME TypeOK,
         \/ FlushAll
         \/ \E a \in Asids : FlushAsid(a) \/ \E page \in Pages : FlushVaddr(page, a)
  PROVE  TypeOK'
<1>1. Mappings(ram, satp) \subseteq Mapping
  BY MappingsType, TranslationAssumption DEF TypeOK
<1>2. CASE FlushAll
  BY <1>1, <1>2, DropType DEF FlushAll, TypeOK, Entry, Fill
<1>3. ASSUME NEW a \in Asids, FlushAsid(a)  PROVE TypeOK'
  BY <1>1, <1>3, DropType DEF FlushAsid, TypeOK, Entry, Fill
<1>4. ASSUME NEW a \in Asids, NEW page \in Pages, FlushVaddr(page, a)  PROVE TypeOK'
  BY <1>1, <1>4, DropType DEF FlushVaddr, TypeOK, Entry, Fill
<1> QED  BY <1>2, <1>3, <1>4

LEMMA SatpType ==
  ASSUME TypeOK, NEW s \in Satp, WriteSatp(s)
  PROVE  TypeOK'
<1>1. Mappings(ram, s) \subseteq Mapping
  BY MappingsType, TranslationAssumption DEF TypeOK
<1> QED  BY <1>1 DEF WriteSatp, TypeOK

LEMMA CopyType ==
  ASSUME TypeOK, NEW t \in Tables
  PROVE  Copy(t) \in [Index -> Pte] /\ (line[t] # NoLine => line[t].dirty \in BOOLEAN)
         /\ NoLine.dirty = FALSE
BY DEF Copy, TypeOK, Memory, NoLine

LEMMA AccessType ==
  ASSUME TypeOK, NEW t \in Tables,
         LoadPte(t) \/ \E i \in Index : \E p \in Edits[t][i] : StorePte(t, i, p)
  PROVE  TypeOK'
<1>1. Copy(t) \in [Index -> Pte] /\ line[t].dirty \in BOOLEAN
  BY CopyType
<1>2. CASE LoadPte(t)
  <2>1. [dirty |-> line[t].dirty, ptes |-> Copy(t)] \in Line
    BY <1>1 DEF Line
  <2>2. line' \in [Tables -> Line]
    BY <1>2, <2>1 DEF LoadPte, TypeOK, Line
  <2> QED  BY <1>2, <2>2 DEF LoadPte, TypeOK, Line
<1>3. ASSUME NEW i \in Index, NEW p \in Edits[t][i], StorePte(t, i, p)  PROVE TypeOK'
  <2>1. p \in Pte  BY TranslationAssumption
  <2>2. [dirty |-> TRUE, ptes |-> [Copy(t) EXCEPT ![i] = p]] \in Line
    BY <1>1, <2>1 DEF Line
  <2>3. line' \in [Tables -> Line]
    BY <1>3, <2>2 DEF StorePte, TypeOK, Line
  <2>4. origin' \in [Slots -> Fill]
    BY <1>3 DEF StorePte, TypeOK, Fill
  <2> QED  BY <1>3, <2>3, <2>4 DEF StorePte, TypeOK, Line, Fill
<1> QED  BY <1>2, <1>3

LEMMA EvictType ==
  ASSUME TypeOK, NEW t \in Tables, Evict(t)
  PROVE  TypeOK'
<1>1. ram' \in Memory  BY WrittenBackType DEF Evict
<1>2. Mappings(ram', satp) \subseteq Mapping
  BY <1>1, MappingsType, TranslationAssumption DEF TypeOK
<1>3. line' \in [Tables -> Line]  BY DEF Evict, TypeOK, Line
<1>4. origin' \in [Slots -> Fill]  BY DEF Evict, TypeOK, Fill
<1> QED  BY <1>1, <1>2, <1>3, <1>4 DEF Evict, TypeOK, Line, Fill

LEMMA ResetType == ASSUME TypeOK, Reset PROVE TypeOK'
<1>1. ram' \in Memory  BY WrittenBackType DEF Reset
<1>2. ResetSatp \in Satp /\ 0 \in Slots
  BY TranslationAssumption DEF Slots
<1> QED  BY <1>1, <1>2 DEF Reset, TypeOK

LEMMA StepType == TypeOK /\ [Next]_vars => TypeOK'
<1> SUFFICES ASSUME TypeOK, [Next]_vars  PROVE TypeOK'
  OBVIOUS
<1>1. ASSUME NEW page \in Pages, NEW priv \in Privileges, NEW access \in Accesses,
             NEW sum \in BOOLEAN, NEW mxr \in BOOLEAN,
             Translate(page, priv, access, sum, mxr)
      PROVE  TypeOK'
  BY <1>1, TranslateType, TranslationAssumption
<1>2. CASE \/ FlushAll
           \/ \E a \in Asids : FlushAsid(a) \/ \E page \in Pages : FlushVaddr(page, a)
  BY <1>2, FlushType
<1>3. CASE Reset
  BY <1>3, ResetType
<1>4. ASSUME NEW s \in Satp, WriteSatp(s)  PROVE TypeOK'
  BY <1>4, SatpType
<1>5. ASSUME NEW t \in Tables,
             \/ LoadPte(t) \/ Evict(t)
             \/ \E i \in Index : \E p \in Edits[t][i] : StorePte(t, i, p)
      PROVE  TypeOK'
  BY <1>5, AccessType, EvictType
<1>6. CASE UNCHANGED vars
  BY <1>6 DEF vars, TypeOK
<1> QED  BY <1>1, <1>2, <1>3, <1>4, <1>5, <1>6 DEF Next

(* Page tables, cached lines, TLB entries and what is remembered of them   *)
(* keep their shape, however the program, walks, evictions and fences      *)
(* interleave (translate_with_tlb_components()).                           *)
THEOREM TranslationTypeCorrect == Spec => []TypeOK
<1>1. Init => TypeOK  BY InitType
<1>2. TypeOK /\ [Next]_vars => TypeOK'  BY StepType
<1> QED  BY <1>1, <1>2, PTL DEF Spec

-----------------------------------------------------------------------------
(* What a walk sees: every field of a PTE but its A and D bits.            *)
Walkable == {"V", "R", "W", "X", "U"}
SameWalks(mem, new) ==
  \A t \in Tables, i \in Index :
    /\ new[t][i].ppn = mem[t][i].ppn
    /\ \A f \in Walkable : f \in new[t][i].flags <=> f \in mem[t][i].flags

LEMMA SamePte ==
  ASSUME NEW mem \in Memory, NEW new \in Memory, SameWalks(mem, new),
         NEW place \in Place, place.table \in Tables
  PROVE  /\ At(new, place).ppn = At(mem, place).ppn
         /\ IsValid(At(new, place)) <=> IsValid(At(mem, place))
         /\ IsLeaf(At(new, place)) <=> IsLeaf(At(mem, place))
         /\ Perms(At(new, place).flags) = Perms(At(mem, place).flags)
<1>1. /\ At(new, place).ppn = At(mem, place).ppn
      /\ \A f \in Walkable : f \in At(new, place).flags <=> f \in At(mem, place).flags
  BY DEF SameWalks, At, Place
<1> QED  BY <1>1 DEF Walkable, IsValid, IsLeaf, Perms

LEMMA SameLeaves ==
  ASSUME NEW mem \in Memory, NEW new \in Memory, SameWalks(mem, new),
         NEW s \in Satps, NEW page \in Page
  PROVE  Leaves(new, s, page) = Leaves(mem, s, page)
<1> DEFINE upper == Upper(s, page)
           lower == Lower(At(mem, upper), page)
<1>1. upper \in Place
  BY DEF Upper, Satps, Page, Place
<1>2. CASE ~ Read(mem, upper)
  <2>1. ~ Read(new, upper)
    BY <1>1, <1>2, SamePte DEF Read
  <2> QED  BY <1>2, <2>1 DEF Leaves
<1>3. CASE Read(mem, upper)
  <2>1. upper.table \in Tables
    BY <1>3 DEF Read
  <2>2. At(mem, upper) \in Pte
    BY <1>1, <2>1 DEF At, Memory, Place
  <2>3. lower \in Place
    BY <1>1, <2>2 DEF Lower, Pte, Page, Place
  <2>4. /\ Read(new, upper) /\ At(new, upper).ppn = At(mem, upper).ppn
        /\ IsLeaf(At(new, upper)) <=> IsLeaf(At(mem, upper))
    BY <1>1, <1>3, <2>1, SamePte DEF Read
  <2>5. Lower(At(new, upper), page) = lower
    BY <2>4 DEF Lower
  <2>6. /\ Read(new, lower) <=> Read(mem, lower)
        /\ Read(mem, lower) => (IsLeaf(At(new, lower)) <=> IsLeaf(At(mem, lower)))
    BY <2>3, SamePte DEF Read
  <2>7. CASE IsLeaf(At(mem, upper))
    <3> DEFINE Aligned(m) == {q \in {upper} : At(m, q).ppn[2] = 0}
    <3>1. Aligned(new) = Aligned(mem)
      BY <2>4
    <3>2. Leaves(new, s, page) = Aligned(new) /\ Leaves(mem, s, page) = Aligned(mem)
      BY <1>3, <2>4, <2>7 DEF Leaves
    <3> QED  BY <3>1, <3>2
  <2>8. CASE ~ IsLeaf(At(mem, upper))
    <3> DEFINE Last(m, q) == IF Read(m, q) /\ IsLeaf(At(m, q)) THEN {q} ELSE {}
    <3>1. Last(new, lower) = Last(mem, lower)
      BY <2>6
    <3>2. /\ Leaves(new, s, page) = Last(new, Lower(At(new, upper), page))
          /\ Leaves(mem, s, page) = Last(mem, lower)
      BY <1>3, <2>4, <2>8 DEF Leaves
    <3> QED  BY <2>5, <3>1, <3>2
  <2> QED  BY <2>7, <2>8
<1> QED  BY <1>2, <1>3

LEMMA SameMappings ==
  ASSUME NEW mem \in Memory, NEW new \in Memory, SameWalks(mem, new), NEW s \in Satps
  PROVE  Mappings(new, s) = Mappings(mem, s)
<1>1. ASSUME NEW page \in Page, NEW place \in Leaves(mem, s, page)
      PROVE  MappingAt(new, s.asid, page, place) = MappingAt(mem, s.asid, page, place)
  <2>1. place \in Place /\ place.table \in Tables
    BY LeavesType
  <2> QED  BY <2>1, SamePte DEF MappingAt, Physical
<1>2. \A page \in Page : Leaves(new, s, page) = Leaves(mem, s, page)
  BY SameLeaves
<1>3. \A page \in Page :
        {MappingAt(new, s.asid, page, place) : place \in Leaves(new, s, page)}
          = {MappingAt(mem, s.asid, page, place) : place \in Leaves(mem, s, page)}
  BY <1>1, <1>2
<1> DEFINE Here(mem2, page) ==
             {MappingAt(mem2, s.asid, page, place) : place \in Leaves(mem2, s, page)}
<1>4. {Here(new, page) : page \in Page} = {Here(mem, page) : page \in Page}
  <2> \A page \in Page : Here(new, page) = Here(mem, page)
    BY <1>3
  <2> HIDE DEF Here
  <2> QED  OBVIOUS
<1>5. CASE s.sv32
  <2>1. /\ Mappings(new, s) = UNION {Here(new, page) : page \in Page}
        /\ Mappings(mem, s) = UNION {Here(mem, page) : page \in Page}
    BY <1>5 DEF Mappings
  <2> HIDE DEF Here
  <2> QED  BY <1>4, <2>1
<1>6. CASE ~ s.sv32
  BY <1>6 DEF Mappings
<1> QED  BY <1>5, <1>6

(* Setting A and D changes no mapping.                                     *)
LEMMA MarkingKeepsMappings ==
  ASSUME TypeOK, NEW place \in Place, place.table \in Tables, NEW access,
         ram' = [ram EXCEPT ![place.table][place.index] = Marked(@, access)]
  PROVE  Mappings(ram', satp) = Mappings(ram, satp)
<1>1. ram \in Memory /\ satp \in Satps
  BY TranslationAssumption DEF TypeOK
<1>2. place.index \in Index
  BY DEF Place
<1>3. ram[place.table][place.index] \in Pte
  BY <1>1, <1>2 DEF Memory
<1>4. Marked(ram[place.table][place.index], access) \in Pte
  BY <1>3, MarkedType
<1>5. ram' \in Memory
  BY <1>1, <1>2, <1>4 DEF Memory
<1>6. SameWalks(ram, ram')
  <2> SUFFICES ASSUME NEW t \in Tables, NEW i \in Index
               PROVE  /\ ram'[t][i].ppn = ram[t][i].ppn
                      /\ \A f \in Walkable : f \in ram'[t][i].flags <=> f \in ram[t][i].flags
    BY DEF SameWalks
  <2>1. CASE t = place.table /\ i = place.index
    <3>1. ram'[t][i] = Marked(ram[t][i], access)
      BY <1>1, <2>1 DEF Memory
    <3> QED  BY <1>3, <2>1, <3>1, MarkedType DEF Walkable
  <2>2. CASE ~ (t = place.table /\ i = place.index)
    <3>1. ram'[t][i] = ram[t][i]
      BY <1>1, <2>2 DEF Memory
    <3> QED  BY <3>1
  <2> QED  BY <2>1, <2>2
<1> QED  BY <1>1, <1>5, <1>6, SameMappings

-----------------------------------------------------------------------------
(* Everything the tables map now, and everything the TLB holds, has been   *)
(* mapped since the flush.                                                 *)
Remembered ==
  /\ Mappings(ram, satp) \subseteq seen
  /\ \A i \in Slots : tlb[i].valid => tlb[i].map \in seen

LEMMA WalkedIsMapped ==
  ASSUME TypeOK, satp.sv32, NEW page \in Page, NEW place \in Leaves(ram, satp, page)
  PROVE  MappingAt(ram, satp.asid, page, place) \in Mappings(ram, satp)
BY DEF Mappings

LEMMA TranslateRemembers ==
  ASSUME TypeOK, Remembered, NEW page \in Page, NEW priv, NEW access \in Accesses,
         NEW sum, NEW mxr, Translate(page, priv, access, sum, mxr)
  PROVE  Remembered'
<1>1. PICK place \in Walked(page, priv, access, sum, mxr) :
        /\ ram' = IF place.table \in RomTables THEN ram
                  ELSE [ram EXCEPT ![place.table][place.index] = Marked(@, access)]
        /\ tlb' = [tlb EXCEPT ![nextInsert] = Valid(MappingAt(ram, satp.asid, page, place))]
  BY DEF Translate
<1>2. place \in Leaves(ram, satp, page) /\ satp.sv32 /\ satp \in Satps
      /\ satp' = satp /\ seen' = seen
  BY TranslationAssumption DEF Walked, Translate, Bypassed, TypeOK
<1>3. place \in Place /\ place.table \in Tables
  BY <1>2, LeavesType DEF TypeOK
<1>4. Mappings(ram', satp) = Mappings(ram, satp)
  BY <1>1, <1>3, MarkingKeepsMappings
<1>5. MappingAt(ram, satp.asid, page, place) \in seen
  BY <1>2, WalkedIsMapped DEF Remembered
<1>6. \A i \in Slots : tlb'[i] \in {tlb[i], Valid(MappingAt(ram, satp.asid, page, place))}
  BY <1>1 DEF TypeOK
<1> QED  BY <1>2, <1>4, <1>5, <1>6 DEF Remembered, Valid

LEMMA DropRemembers ==
  ASSUME TypeOK, Remembered, NEW gone \in SUBSET Slots, Drop(gone),
         Mappings(ram, satp) \subseteq seen',
         \A i \in Slots \ gone : tlb[i].valid => tlb[i].map \in seen'
  PROVE  Remembered'
BY DEF Drop, Remembered, Invalid

LEMMA FlushRemembers ==
  ASSUME TypeOK, Remembered,
         \/ FlushAll
         \/ \E a \in Asids : FlushAsid(a) \/ \E page \in Pages : FlushVaddr(page, a)
  PROVE  Remembered'
<1>1. CASE FlushAll
  BY <1>1, DropRemembers DEF FlushAll
<1>2. ASSUME NEW a \in Asids, FlushAsid(a)  PROVE Remembered'
  BY <1>2, DropRemembers DEF FlushAsid, Remembered
<1>3. ASSUME NEW a \in Asids, NEW page \in Pages, FlushVaddr(page, a)  PROVE Remembered'
  BY <1>3, DropRemembers DEF FlushVaddr, Remembered
<1> QED  BY <1>1, <1>2, <1>3

LEMMA RememberedNext == TypeOK /\ Remembered /\ [Next]_vars => Remembered'
<1> SUFFICES ASSUME TypeOK, Remembered, [Next]_vars  PROVE Remembered'
  OBVIOUS
<1>1. ASSUME NEW page \in Pages, NEW priv \in Privileges, NEW access \in Accesses,
             NEW sum \in BOOLEAN, NEW mxr \in BOOLEAN,
             Translate(page, priv, access, sum, mxr)
      PROVE  Remembered'
  BY <1>1, TranslateRemembers, TranslationAssumption
<1>2. CASE \/ FlushAll
           \/ \E a \in Asids : FlushAsid(a) \/ \E page \in Pages : FlushVaddr(page, a)
  BY <1>2, FlushRemembers
<1>3. CASE Reset
  <2>1. Mappings(ram', satp') = {}
    BY <1>3 DEF Reset, Mappings, ResetSatp
  <2>2. \A i \in Slots : ~ tlb'[i].valid
    BY <1>3 DEF Reset, Invalid
  <2> QED  BY <2>1, <2>2 DEF Remembered
<1>4. ASSUME NEW s \in Satp, WriteSatp(s)  PROVE Remembered'
  BY <1>4 DEF WriteSatp, Remembered
<1>5. ASSUME NEW t \in Tables, Evict(t)  PROVE Remembered'
  BY <1>5 DEF Evict, Remembered
<1>6. CASE UNCHANGED <<ram, satp, tlb, seen>>
  BY <1>6 DEF Remembered
<1>7. ASSUME NEW t \in Tables,
             LoadPte(t) \/ \E i \in Index : \E p \in Edits[t][i] : StorePte(t, i, p)
      PROVE  UNCHANGED <<ram, satp, tlb, seen>>
  BY <1>7 DEF LoadPte, StorePte
<1>8. CASE UNCHANGED vars
  BY <1>6, <1>8 DEF vars
<1> QED  BY <1>1, <1>2, <1>3, <1>4, <1>5, <1>6, <1>7, <1>8 DEF Next

LEMMA RememberedInit == Init => Remembered
BY DEF Init, Remembered, Mappings, ResetSatp, Invalid

(* A hit's checks, and the walk's, against the mode.                       *)
LEMMA HitPermission ==
  ASSUME NEW perms, NEW priv \in {"S", "U"}, NEW access \in Accesses,
         NEW sum \in BOOLEAN, NEW mxr \in BOOLEAN, CheckPermission(perms, access)
  PROVE  /\ HitAccess(perms, priv, access, sum, mxr)
              => \/ LeafPermission(perms, priv, access, sum, mxr)
                 \/ ReadsCode(perms, priv, access) /\ {"U", "X"} \subseteq perms
         /\ ~ HitAccess(perms, priv, access, sum, mxr)
              => ~ LeafPermission(perms, priv, access, sum, mxr)
<1>1. CASE access = "instruction"
  BY <1>1 DEF CheckPermission, HitAccess, LeafPermission, ReadsCode
<1>2. CASE access = "load"
  BY <1>2 DEF CheckPermission, HitAccess, LeafPermission, ReadsCode
<1>3. CASE access = "store"
  BY <1>3 DEF CheckPermission, HitAccess, LeafPermission, ReadsCode
<1> QED  BY <1>1, <1>2, <1>3 DEF Accesses

LEMMA WalkPermission ==
  ASSUME NEW flags, NEW priv, NEW access, NEW sum, NEW mxr,
         LeafPermission(flags, priv, access, sum, mxr), access \in Accesses
  PROVE  LeafPermission(Perms(flags), priv, access, sum, mxr)
<1>1. \A f \in {"R", "W", "X", "U"} : f \in Perms(flags) <=> f \in flags
  BY DEF Perms
<1>2. CASE access = "instruction"
  BY <1>1, <1>2 DEF LeafPermission
<1>3. CASE access = "load"
  BY <1>1, <1>3 DEF LeafPermission
<1>4. CASE access = "store"
  BY <1>1, <1>4 DEF LeafPermission
<1> QED  BY <1>2, <1>3, <1>4 DEF Accesses

LEMMA HitIsRemembered ==
  ASSUME Remembered, NEW page, NEW access, NEW i \in Hits(page, access)
  PROVE  /\ tlb[i].map \in seen /\ tlb[i].map.asid = satp.asid /\ tlb[i].map.vpn = page
         /\ CheckPermission(tlb[i].map.perms, access)
BY DEF Hits, FirstFor, Matches, Remembered

(* Theorem: whatever the order of accesses, edits of the tables,           *)
(* evictions, changes of satp and fences, a page is translated only as its *)
(* address space has been mapped since the TLB was flushed, and only where *)
(* that mapping allows the access (translate_with_tlb_components()).       *)
THEOREM TranslationsAreJustified == Spec => []TranslationsJustified
<1>1. TypeOK /\ Remembered => TranslationsJustified
  <2> SUFFICES ASSUME TypeOK, Remembered, NEW page \in Pages, NEW priv \in {"S", "U"},
                      NEW access \in Accesses, NEW sum \in BOOLEAN, NEW mxr \in BOOLEAN,
                      satp.sv32, NEW f \in Result(page, priv, access, sum, mxr)
               PROVE  \E m \in seen :
                        /\ m.asid = satp.asid /\ m.vpn = page /\ m.ppn = f
                        /\ \/ LeafPermission(m.perms, priv, access, sum, mxr)
                           \/ ReadsCode(m.perms, priv, access) /\ {"U", "X"} \subseteq m.perms
    BY DEF TranslationsJustified
  <2>1. ~ Bypassed(priv)
    BY DEF Bypassed
  <2>2. CASE Hits(page, access) # {}
    <3>1. PICK i \in Hits(page, access) :
            /\ f = tlb[i].map.ppn
            /\ HitAccess(tlb[i].map.perms, priv, access, sum, mxr)
      BY <2>1, <2>2 DEF Result
    <3>2. /\ tlb[i].map \in seen /\ tlb[i].map.asid = satp.asid /\ tlb[i].map.vpn = page
          /\ CheckPermission(tlb[i].map.perms, access)
      BY HitIsRemembered
    <3>3. \/ LeafPermission(tlb[i].map.perms, priv, access, sum, mxr)
          \/ ReadsCode(tlb[i].map.perms, priv, access) /\ {"U", "X"} \subseteq tlb[i].map.perms
      <4> DEFINE perms == tlb[i].map.perms
      <4>1. CheckPermission(perms, access) /\ HitAccess(perms, priv, access, sum, mxr)
        BY <3>1, <3>2
      <4> HIDE DEF perms
      <4>2. \/ LeafPermission(perms, priv, access, sum, mxr)
            \/ ReadsCode(perms, priv, access) /\ {"U", "X"} \subseteq perms
        BY <4>1, HitPermission
      <4> QED  BY <4>2 DEF perms
    <3> QED  BY <3>1, <3>2, <3>3
  <2>3. CASE Hits(page, access) = {}
    <3>1. PICK place \in Walked(page, priv, access, sum, mxr) : f = Physical(ram, place, page)
      BY <2>1, <2>3 DEF Result
    <3>2. /\ place \in Leaves(ram, satp, page)
          /\ LeafPermission(At(ram, place).flags, priv, access, sum, mxr)
      BY DEF Walked
    <3> DEFINE m == MappingAt(ram, satp.asid, page, place)
    <3>3. m \in seen
      BY <3>2, WalkedIsMapped, TranslationAssumption DEF Remembered
    <3>4. m.asid = satp.asid /\ m.vpn = page /\ m.ppn = f /\ m.perms = Perms(At(ram, place).flags)
      BY <3>1 DEF MappingAt
    <3>5. LeafPermission(m.perms, priv, access, sum, mxr)
      BY <3>2, <3>4, WalkPermission
    <3> HIDE DEF m
    <3> QED  BY <3>3, <3>4, <3>5
  <2> QED  BY <2>2, <2>3
<1> QED  BY <1>1, InitType, StepType, RememberedInit, RememberedNext, PTL DEF Spec

(* Theorem: an access faults only if a walk of the tables as they are      *)
(* faults too, or an entry filled since the flush denies it by U, SUM or   *)
(* MXR (Tlb::lookup(), check_tlb_hit_access()).                            *)
THEOREM FaultsAreJustified == Spec => []FaultsJustified
<1>1. TypeOK /\ Remembered => FaultsJustified
  <2> SUFFICES ASSUME TypeOK, Remembered, NEW page \in Pages, NEW priv \in {"S", "U"},
                      NEW access \in Accesses, NEW sum \in BOOLEAN, NEW mxr \in BOOLEAN,
                      satp.sv32, Result(page, priv, access, sum, mxr) = {},
                      Walked(page, priv, access, sum, mxr) # {}
               PROVE  \E m \in seen :
                        /\ m.asid = satp.asid /\ m.vpn = page
                        /\ CheckPermission(m.perms, access)
                        /\ ~LeafPermission(m.perms, priv, access, sum, mxr)
    BY DEF FaultsJustified
  <2>1. ~ Bypassed(priv)
    BY DEF Bypassed
  <2>2. Hits(page, access) # {}
    BY <2>1 DEF Result
  <2>3. PICK i \in Hits(page, access) : TRUE
    BY <2>2
  <2>4. ~ HitAccess(tlb[i].map.perms, priv, access, sum, mxr)
    BY <2>1, <2>2 DEF Result
  <2>5. /\ tlb[i].map \in seen /\ tlb[i].map.asid = satp.asid /\ tlb[i].map.vpn = page
        /\ CheckPermission(tlb[i].map.perms, access)
    BY HitIsRemembered
  <2>6. ~ LeafPermission(tlb[i].map.perms, priv, access, sum, mxr)
    <3> DEFINE perms == tlb[i].map.perms
    <3>1. CheckPermission(perms, access) /\ ~ HitAccess(perms, priv, access, sum, mxr)
      BY <2>4, <2>5
    <3> HIDE DEF perms
    <3>2. ~ LeafPermission(perms, priv, access, sum, mxr)
      BY <3>1, HitPermission
    <3> QED  BY <3>2 DEF perms
  <2> QED  BY <2>5, <2>6
<1> QED  BY <1>1, InitType, StepType, RememberedInit, RememberedNext, PTL DEF Spec

-----------------------------------------------------------------------------
(* The marks of the entries' uses, in memory and in the D-cache's copy.    *)
Marks(access) == IF access = "store" THEN {"A", "D"} ELSE {"A"}
Showing(mem, lines, o) ==
  /\ o.place.table \in Tables
  /\ Marks(o.access) \subseteq mem[o.place.table][o.place.index].flags
  /\ lines[o.place.table] # NoLine =>
       Marks(o.access) \subseteq lines[o.place.table].ptes[o.place.index].flags
Recorded ==
  \A s \in Slots : origin[s].known /\ origin[s].shown => Showing(ram, line, origin[s])

LEMMA KnownPlace ==
  ASSUME TypeOK, NEW s \in Slots, origin[s].known
  PROVE  origin[s].place.table \in Page /\ origin[s].place.index \in Index
<1>1. origin[s] \in Fill
  BY DEF TypeOK, Fill
<1>2. CASE origin[s] = Lost
  BY <1>2 DEF Lost
<1>3. CASE origin[s] \in [known : {TRUE}, place : Place, access : Accesses, shown : BOOLEAN]
  BY <1>3 DEF Place
<1> QED  BY <1>1, <1>2, <1>3 DEF Fill

LEMMA TranslateRecords ==
  ASSUME TypeOK, Recorded, NEW page \in Page, NEW priv, NEW access \in Accesses,
         NEW sum, NEW mxr, Translate(page, priv, access, sum, mxr)
  PROVE  Recorded'
<1>1. PICK place \in Walked(page, priv, access, sum, mxr) :
        /\ ram' = IF place.table \in RomTables THEN ram
                  ELSE [ram EXCEPT ![place.table][place.index] = Marked(@, access)]
        /\ origin' = [origin EXCEPT ![nextInsert] =
                        From(place, access,
                             place.table \notin RomTables /\ line[place.table] = NoLine)]
  BY DEF Translate
<1>2. place \in Place /\ place.table \in Tables /\ place.index \in Index
  BY TranslationAssumption, LeavesType DEF Walked, TypeOK, Place
<1>3. ram[place.table][place.index] \in Pte
  BY <1>2 DEF TypeOK, Memory
<1>4. /\ Marks(access) \subseteq Marked(ram[place.table][place.index], access).flags
      /\ ram[place.table][place.index].flags
           \subseteq Marked(ram[place.table][place.index], access).flags
  BY <1>3 DEF Marks, Marked, Pte
<1>5. \A t \in Tables, i \in Index : ram[t][i].flags \subseteq ram'[t][i].flags
  BY <1>1, <1>2, <1>4 DEF TypeOK, Memory
<1>6. line' = line  BY DEF Translate
<1>7. SUFFICES ASSUME NEW s \in Slots, origin'[s].known, origin'[s].shown
               PROVE  Showing(ram', line', origin'[s])
  BY DEF Recorded
<1>8. CASE origin'[s] = origin[s]
  <2>1. origin[s].place.index \in Index
    BY <1>7, <1>8, KnownPlace
  <2>2. Showing(ram, line, origin[s])  BY <1>7, <1>8 DEF Recorded
  <2> QED  BY <1>5, <1>6, <1>8, <2>1, <2>2 DEF Showing
<1>9. CASE origin'[s] = From(place, access,
                             place.table \notin RomTables /\ line[place.table] = NoLine)
  <2> DEFINE shown == place.table \notin RomTables /\ line[place.table] = NoLine
  <2>4. origin'[s].shown = shown  BY <1>9 DEF From
  <2>5. origin'[s].shown  BY <1>7
  <2> HIDE DEF shown
  <2>6. shown  BY <2>4, <2>5, Zenon
  <2>1. place.table \notin RomTables /\ line[place.table] = NoLine
    BY <2>6 DEF shown
  <2>2. ram'[place.table][place.index] = Marked(ram[place.table][place.index], access)
    BY <1>1, <1>2, <2>1 DEF TypeOK, Memory
  <2>3. origin'[s].place = place /\ origin'[s].access = access  BY <1>9 DEF From
  <2> QED  BY <1>2, <1>4, <1>6, <2>1, <2>2, <2>3 DEF Showing
<1> QED  BY <1>1, <1>7, <1>8, <1>9 DEF TypeOK

(* Reads and edits of a table by software: the copy is filled from memory, *)
(* and other entries than the one stored stay what they are.               *)
LEMMA AccessRecords ==
  ASSUME TypeOK, Recorded, NEW t \in Tables,
         LoadPte(t) \/ \E i \in Index : \E p \in Edits[t][i] : StorePte(t, i, p)
  PROVE  Recorded'
<1>1. ram' = ram
  BY DEF LoadPte, StorePte
<1>2. SUFFICES ASSUME NEW s \in Slots, origin'[s].known, origin'[s].shown
               PROVE  Showing(ram, line', origin'[s])
  BY <1>1 DEF Recorded
<1>3. origin'[s] = origin[s]
  BY <1>2 DEF LoadPte, StorePte, Lost
<1> DEFINE o == origin[s]
<1>4. Showing(ram, line, o) /\ o.place.index \in Index /\ o.place.table \in Tables
  BY <1>2, <1>3, KnownPlace DEF Recorded, Showing
<1>5. CASE o.place.table # t
  <2>1. line'[o.place.table] = line[o.place.table]
    BY <1>4, <1>5 DEF LoadPte, StorePte, TypeOK
  <2> QED  BY <1>3, <1>4, <2>1 DEF Showing
<1>6. CASE o.place.table = t
  <2>1. Marks(o.access) \subseteq Copy(t)[o.place.index].flags
    BY <1>4, <1>6 DEF Showing, Copy
  <2>2. line'[t].ptes[o.place.index] = Copy(t)[o.place.index]
    <3>1. CASE LoadPte(t)
      BY <3>1 DEF LoadPte, TypeOK
    <3>2. ASSUME NEW i \in Index, NEW p \in Edits[t][i], StorePte(t, i, p)
          PROVE  line'[t].ptes[o.place.index] = Copy(t)[o.place.index]
      <4>1. i # o.place.index
        BY <1>2, <1>3, <1>6, <3>2 DEF StorePte, Of, Lost
      <4>2. line'[t].ptes = [Copy(t) EXCEPT ![i] = p]
        BY <3>2 DEF StorePte, TypeOK
      <4>3. Copy(t) \in [Index -> Pte]  BY CopyType
      <4> QED  BY <1>4, <4>1, <4>2, <4>3
    <3> QED  BY <3>1, <3>2
  <2> QED  BY <1>3, <1>4, <1>6, <2>1, <2>2 DEF Showing
<1> QED  BY <1>5, <1>6

(* A copy that is written back has the marks, too.                         *)
LEMMA EvictRecords ==
  ASSUME TypeOK, Recorded, NEW t \in Tables, Evict(t)
  PROVE  Recorded'
<1> SUFFICES ASSUME NEW s \in Slots, origin'[s].known, origin'[s].shown
             PROVE  Showing(ram', line', origin'[s])
  BY DEF Recorded
<1> DEFINE o == origin[s]
<1>1. origin' = origin  BY DEF Evict
<1>2. Showing(ram, line, o) /\ o.place.table \in Tables
  BY <1>1 DEF Recorded, Showing
<1>3. line'[o.place.table] = NoLine \/ line'[o.place.table] = line[o.place.table]
  BY <1>2 DEF Evict, TypeOK
<1>4. \/ ram'[o.place.table] = ram[o.place.table]
      \/ line[o.place.table] # NoLine /\ ram'[o.place.table] = line[o.place.table].ptes
  BY <1>2 DEF Evict, WrittenBack, NoLine
<1> QED  BY <1>1, <1>2, <1>3, <1>4 DEF Showing

LEMMA RecordedNext == TypeOK /\ Recorded /\ [Next]_vars => Recorded'
<1> SUFFICES ASSUME TypeOK, Recorded, [Next]_vars  PROVE Recorded'
  OBVIOUS
<1>1. ASSUME NEW page \in Pages, NEW priv \in Privileges, NEW access \in Accesses,
             NEW sum \in BOOLEAN, NEW mxr \in BOOLEAN,
             Translate(page, priv, access, sum, mxr)
      PROVE  Recorded'
  BY <1>1, TranslateRecords, TranslationAssumption
<1>2. ASSUME NEW gone \in SUBSET Slots, Drop(gone)  PROVE Recorded'
  BY <1>2 DEF Drop, Recorded, Lost
<1>3. ASSUME FlushAll \/ \E a \in Asids : FlushAsid(a) \/ \E page \in Pages : FlushVaddr(page, a)
      PROVE  \E gone \in SUBSET Slots : Drop(gone)
  BY <1>3 DEF FlushAll, FlushAsid, FlushVaddr
<1>4. CASE Reset
  BY <1>4 DEF Reset, Recorded, Lost
<1>5. ASSUME NEW t \in Tables, Evict(t)  PROVE Recorded'
  BY <1>5, EvictRecords
<1>6. CASE UNCHANGED <<ram, line, origin>>
  BY <1>6 DEF Recorded
<1>7. ASSUME NEW t \in Tables,
             LoadPte(t) \/ \E i \in Index : \E p \in Edits[t][i] : StorePte(t, i, p)
      PROVE  Recorded'
  BY <1>7, AccessRecords
<1>8. ASSUME NEW s \in Satp, WriteSatp(s)  PROVE UNCHANGED <<ram, line, origin>>
  BY <1>8 DEF WriteSatp
<1>9. CASE UNCHANGED vars
  BY <1>6, <1>9 DEF vars
<1> QED  BY <1>1, <1>2, <1>3, <1>4, <1>5, <1>6, <1>7, <1>8, <1>9 DEF Next

(* A page that came into the TLB from a table that can be written and of   *)
(* which the D-cache held no copy shows its uses to software, which reads  *)
(* the PTE through the D-cache, until software stores to that PTE          *)
(* (translate_sv32(), "Hardware A/D bit update").                          *)
THEOREM UncachedUsesAreSeen == Spec => []UncachedUsesSeen
<1>1. Init => Recorded
  BY DEF Init, Recorded, Lost
<1>2. Recorded => UncachedUsesSeen
  <2> SUFFICES ASSUME Recorded, NEW s \in Slots, origin[s].known, origin[s].shown
               PROVE  Marks(origin[s].access)
                        \subseteq Copy(origin[s].place.table)[origin[s].place.index].flags
    BY DEF UncachedUsesSeen, Marks
  <2> QED  BY DEF Recorded, Showing, Copy
<1> QED  BY <1>1, <1>2, InitType, StepType, RecordedNext, PTL DEF Spec
=============================================================================
