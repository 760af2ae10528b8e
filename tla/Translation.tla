---------------------------- MODULE Translation ----------------------------
(***************************************************************************)
(* Address translation of the pipeline (translate_with_tlb_components() of *)
(* src/src/cpu/pipeline/mod.rs): the TLB of src/src/cpu/tlb.rs, the walk   *)
(* of module Sv32, and the page tables behind both.  The walk reads and    *)
(* marks the tables on the bus, whereas the program edits them through the *)
(* D-cache: line[t] is the cache's copy of table t, if there is one.       *)
(***************************************************************************)
EXTENDS Sv32

CONSTANTS
  TlbSize,      \* 32 in the code
  RomTables,    \* tables on which the walk's write fails
  Satp,         \* the values software gives satp
  Pages,        \* the pages software uses
  Edits         \* Edits[t][i]: what software writes to an entry

Slots == 0 .. TlbSize - 1

ASSUME TranslationAssumption ==
  /\ TlbSize \in Nat \ {0} /\ RomTables \subseteq Tables
  /\ Satp \subseteq Satps /\ ResetSatp \in Satp /\ Pages \subseteq Page
  /\ Edits \in [Tables -> [Index -> SUBSET Pte]]
  /\ \A t \in Tables, i \in Index : Edits[t][i] # {}

VARIABLES
  ram, line,         \* page tables in memory and in the D-cache
  satp,
  tlb, nextInsert,
  seen,              \* history: mappings since the entries were flushed
  origin             \* history: the PTE an entry was filled from, for which
                     \* access, and whether its mark was not lost at once;
                     \* nothing once software has stored to that PTE
vars == <<ram, line, satp, tlb, nextInsert, seen, origin>>

Mapping == [asid : Asids, vpn : Page, ppn : Page, perms : SUBSET {"R", "W", "X", "U"}]
Place   == [table : Page, index : Index, super : BOOLEAN]
NoLine  == [dirty |-> FALSE]
Invalid == [valid |-> FALSE]
Valid(m) == [valid |-> TRUE, map |-> m]
Lost    == [known |-> FALSE]
From(place, access, shown) ==
  [known |-> TRUE, place |-> place, access |-> access, shown |-> shown]

TypeOK ==
  /\ ram \in Memory /\ satp \in Satp
  /\ line \in [Tables -> {NoLine} \cup [dirty : BOOLEAN, ptes : [Index -> Pte]]]
  /\ tlb \in [Slots -> {Invalid} \cup [valid : {TRUE}, map : Mapping]]
  /\ nextInsert \in Slots
  /\ seen \subseteq Mapping
  /\ origin \in [Slots -> {Lost} \cup
                   [known : {TRUE}, place : Place, access : Accesses, shown : BOOLEAN]]

Init ==
  /\ ram \in {m \in [Tables -> [Index -> UNION {Edits[t][i] : t \in Tables, i \in Index}]] :
                \A t \in Tables, i \in Index : m[t][i] \in Edits[t][i]}
  /\ line = [t \in Tables |-> NoLine]
  /\ satp = ResetSatp
  /\ tlb = [i \in Slots |-> Invalid] /\ nextInsert = 0
  /\ seen = {}
  /\ origin = [i \in Slots |-> Lost]

-----------------------------------------------------------------------------
(* Tlb::lookup(): the first entry for the page decides; one that does not  *)
(* allow the access counts as a miss.                                      *)
WrongMatches(e, page) == e.valid /\ e.map.vpn = page  \* of any address space
Matches(e, page) == e.valid /\ e.map.asid = satp.asid /\ e.map.vpn = page

CheckPermission(perms, access) ==
  CASE access = "instruction" -> "X" \in perms
    [] access = "load"        -> perms \cap {"R", "X"} # {}
    [] access = "store"       -> "W" \in perms

FirstFor(page) ==
  {i \in Slots : Matches(tlb[i], page) /\ \A j \in 0 .. i - 1 : ~Matches(tlb[j], page)}

WrongHits(page, access) == FirstFor(page)  \* a denied access is not walked again
Hits(page, access) == {i \in FirstFor(page) : CheckPermission(tlb[i].map.perms, access)}

(* check_tlb_hit_access(): what depends on the mode.                       *)
HitAccess(perms, priv, access, sum, mxr) ==
  IF priv = "U" THEN "U" \in perms
  ELSE /\ "U" \in perms => sum /\ access # "instruction"
       /\ access = "load" => "R" \in perms \/ (mxr /\ "X" \in perms)

Bypassed(priv) == priv = "M" \/ ~satp.sv32

Walked(page, priv, access, sum, mxr) ==
  {place \in Leaves(ram, satp, page) :
     LeafPermission(At(ram, place).flags, priv, access, sum, mxr)}

(* The pages an access may get: one, or none when it faults.               *)
Result(page, priv, access, sum, mxr) ==
  IF Bypassed(priv) THEN {page}
  ELSE IF Hits(page, access) # {}
    THEN {tlb[i].map.ppn : i \in {h \in Hits(page, access) :
                                    HitAccess(tlb[h].map.perms, priv, access, sum, mxr)}}
    ELSE {Physical(ram, place, page) : place \in Walked(page, priv, access, sum, mxr)}

-----------------------------------------------------------------------------
WrongMarked(p, access) ==  \* A is set together with D only
  [p EXCEPT !.flags = IF access = "store" THEN @ \cup {"A", "D"} ELSE @]

(* The A and D bits a walk sets.                                           *)
Marked(p, access) ==
  [p EXCEPT !.flags = @ \cup (IF access = "store" THEN {"A", "D"} ELSE {"A"})]

WrongFollowing(i) == i + 1  \* the pointer does not wrap
Following(i) == (i + 1) % TlbSize

(* A translation changes something when it walks to a leaf it may use; an  *)
(* error of the bus while it writes the entry back is ignored.             *)
Translate(page, priv, access, sum, mxr) ==
  /\ ~Bypassed(priv) /\ Hits(page, access) = {}
  /\ \E place \in Walked(page, priv, access, sum, mxr) :
       /\ ram' = IF place.table \in RomTables THEN ram
                 ELSE [ram EXCEPT ![place.table][place.index] = Marked(@, access)]
       /\ tlb' = [tlb EXCEPT ![nextInsert] = Valid(MappingAt(ram, satp.asid, page, place))]
       /\ origin' = [origin EXCEPT ![nextInsert] =
                       From(place, access,
                            place.table \notin RomTables /\ line[place.table] = NoLine)]
  /\ nextInsert' = Following(nextInsert)
  /\ UNCHANGED <<line, satp, seen>>

-----------------------------------------------------------------------------
(* Flushing: SFENCE.VMA always takes flush_all().                          *)
Drop(gone) ==
  /\ tlb' = [i \in Slots |-> IF i \in gone THEN Invalid ELSE tlb[i]]
  /\ origin' = [i \in Slots |-> IF i \in gone THEN Lost ELSE origin[i]]
  /\ UNCHANGED <<ram, line, satp>>

FlushAll ==
  /\ Drop(Slots) /\ seen' = Mappings(ram, satp)
  /\ UNCHANGED nextInsert

FlushAsid(a) ==
  /\ Drop({i \in Slots : tlb[i].valid /\ tlb[i].map.asid = a})
  /\ seen' = {m \in seen : m.asid # a} \cup Mappings(ram, satp)
  /\ UNCHANGED nextInsert

FlushVaddr(page, a) ==
  /\ Drop({i \in Slots : tlb[i].valid /\ tlb[i].map.asid = a /\ tlb[i].map.vpn = page})
  /\ seen' = {m \in seen : m.asid # a \/ m.vpn # page} \cup Mappings(ram, satp)
  /\ UNCHANGED nextInsert

WriteSatp(s) ==
  /\ satp' = s
  /\ seen' = seen \cup Mappings(ram, s)
  /\ UNCHANGED <<ram, line, tlb, nextInsert, origin>>

(* The program's accesses to a table go to the D-cache's copy, which is    *)
(* filled first; evicting a dirty copy overwrites the table as a whole.    *)
(* Software leaves tables in ROM alone.                                    *)
Copy(t) == IF line[t] = NoLine THEN ram[t] ELSE line[t].ptes

LoadPte(t) ==
  /\ t \notin RomTables
  /\ line' = [line EXCEPT ![t] = [dirty |-> line[t].dirty, ptes |-> Copy(t)]]
  /\ UNCHANGED <<ram, satp, tlb, nextInsert, seen, origin>>

Of(o, t, i) == o.known /\ o.place.table = t /\ o.place.index = i

StorePte(t, i, p) ==
  /\ t \notin RomTables
  /\ line' = [line EXCEPT ![t] = [dirty |-> TRUE, ptes |-> [Copy(t) EXCEPT ![i] = p]]]
  /\ origin' = [s \in Slots |-> IF Of(origin[s], t, i) THEN Lost ELSE origin[s]]
  /\ UNCHANGED <<ram, satp, tlb, nextInsert, seen>>

WrittenBack(gone) ==
  [t \in Tables |-> IF t \in gone /\ line[t].dirty THEN line[t].ptes ELSE ram[t]]

Evict(t) ==
  /\ line[t] # NoLine
  /\ ram' = WrittenBack({t})
  /\ line' = [line EXCEPT ![t] = NoLine]
  /\ seen' = seen \cup Mappings(ram', satp)
  /\ UNCHANGED <<satp, tlb, nextInsert, origin>>

(* PipelineCpu::reset() writes the D-cache back up to the first line that  *)
(* the bus refuses, and drops the rest.                                    *)
Reset ==
  /\ satp' = ResetSatp
  /\ \E done \in SUBSET Tables : ram' = WrittenBack(done)
  /\ line' = [t \in Tables |-> NoLine]
  /\ tlb' = [i \in Slots |-> Invalid] /\ nextInsert' = 0
  /\ seen' = {} /\ origin' = [i \in Slots |-> Lost]

(* What software and its accesses do, in any order and mode.               *)
Next ==
  \/ \E page \in Pages, priv \in Privileges, access \in Accesses, sum, mxr \in BOOLEAN :
       Translate(page, priv, access, sum, mxr)
  \/ FlushAll \/ Reset
  \/ \E a \in Asids : FlushAsid(a) \/ \E page \in Pages : FlushVaddr(page, a)
  \/ \E s \in Satp : WriteSatp(s)
  \/ \E t \in Tables :
       \/ LoadPte(t) \/ Evict(t)
       \/ \E i \in Index : \E p \in Edits[t][i] : StorePte(t, i, p)

Spec == Init /\ [][Next]_vars

-----------------------------------------------------------------------------
(* Properties.                                                             *)
(* A hit does not look at MXR in user mode.                                *)
ReadsCode(perms, priv, access) == priv = "U" /\ access = "load" /\ "R" \notin perms

(* Whatever the order of accesses, edits of the tables, evictions, changes *)
(* of satp and fences: a page is translated, by the TLB or by a walk, only *)
(* as the tables of its address space have mapped it at some time since    *)
(* the TLB was flushed, and only where that mapping allows the access      *)
(* (translate_with_tlb_components(); execute-only pages, which a user may  *)
(* read once they are in the TLB, excepted).                               *)
TranslationsJustified ==
  \A page \in Pages, priv \in {"S", "U"}, access \in Accesses, sum, mxr \in BOOLEAN :
    satp.sv32 =>
      \A f \in Result(page, priv, access, sum, mxr) :
        \E m \in seen :
          /\ m.asid = satp.asid /\ m.vpn = page /\ m.ppn = f
          /\ \/ LeafPermission(m.perms, priv, access, sum, mxr)
             \/ ReadsCode(m.perms, priv, access) /\ {"U", "X"} \subseteq m.perms

(* An access faults only if a walk of the tables as they are faults too,   *)
(* or an entry filled since the flush denies it by U, SUM or MXR: gaining  *)
(* R, W or X needs no fence (Tlb::lookup(): "treat as miss so walker       *)
(* re-checks").                                                            *)
FaultsJustified ==
  \A page \in Pages, priv \in {"S", "U"}, access \in Accesses, sum, mxr \in BOOLEAN :
    (satp.sv32 /\ Result(page, priv, access, sum, mxr) = {}) =>
      \/ Walked(page, priv, access, sum, mxr) = {}
      \/ \E m \in seen :
           /\ m.asid = satp.asid /\ m.vpn = page
           /\ CheckPermission(m.perms, access)
           /\ ~LeafPermission(m.perms, priv, access, sum, mxr)

(* A page that came into the TLB while the D-cache held no copy of its     *)
(* table, and whose table can be written, shows as accessed, and as dirty  *)
(* if a store brought it in, to software that reads the PTE through the    *)
(* D-cache, as long as that software does not store to this PTE and        *)
(* whatever it does to others of the table, reads, edits and evictions     *)
(* included (translate_sv32(), "Hardware A/D bit update").  Of a table     *)
(* the D-cache holds, or in ROM, no such thing is true: the mark misses    *)
(* the copy and is lost when a dirty copy is written back, or is never     *)
(* written.                                                                *)
UncachedUsesSeen ==
  \A i \in Slots : origin[i].known /\ origin[i].shown =>
    (IF origin[i].access = "store" THEN {"A", "D"} ELSE {"A"})
      \subseteq Copy(origin[i].place.table)[origin[i].place.index].flags
=============================================================================
