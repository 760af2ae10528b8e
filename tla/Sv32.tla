-------------------------------- MODULE Sv32 --------------------------------
(***************************************************************************)
(* The Sv32 page-table walk of src/src/cpu/mmu.rs as operators over a      *)
(* memory of page tables.  A page number is a pair of indices, the upper   *)
(* one first, so that a superpage keeps one half of it; flag bits are the  *)
(* elements of a set.                                                      *)
(***************************************************************************)
EXTENDS Integers, FiniteSets

CONSTANTS
  Index,      \* 0 .. 1023
  Tables,     \* the frames that hold page tables
  Asids

ASSUME Sv32Assumption ==
  /\ 0 \in Index /\ Index \subseteq Nat /\ 0 \in Asids
  /\ Tables \subseteq Index \X Index

Page   == Index \X Index   \* virtual and physical page numbers
Flags  == {"V", "R", "W", "X", "U", "A", "D"}
Pte    == [flags : SUBSET Flags, ppn : Page]
Memory == [Tables -> [Index -> Pte]]

Privileges == {"M", "S", "U"}
Accesses   == {"instruction", "load", "store"}
Satps      == [sv32 : BOOLEAN, asid : Asids, root : Page]
ResetSatp  == [sv32 |-> FALSE, asid |-> 0, root |-> <<0, 0>>]
Perms(flags) == flags \cap {"R", "W", "X", "U"}

-----------------------------------------------------------------------------
IsValid(p) == "V" \in p.flags /\ ("W" \in p.flags => "R" \in p.flags)
IsLeaf(p)  == p.flags \cap {"R", "X"} # {}

(* What the mode may do with a page: the U bit, SUM and MXR.               *)
LeafPermission(flags, priv, access, sum, mxr) ==
  /\ priv = "U" => "U" \in flags
  /\ priv = "S" /\ "U" \in flags => sum /\ access # "instruction"
  /\ CASE access = "instruction" -> "X" \in flags
       [] access = "load"        -> "R" \in flags \/ (mxr /\ "X" \in flags)
       [] access = "store"       -> "W" \in flags

(* Where the entries of the two levels lie; reading anywhere but in a      *)
(* table fails.                                                            *)
Upper(satp, page) == [table |-> satp.root, index |-> page[1], super |-> TRUE]
Lower(p, page)    == [table |-> p.ppn, index |-> page[2], super |-> FALSE]
At(mem, place)    == mem[place.table][place.index]
Read(mem, place)  == place.table \in Tables /\ IsValid(At(mem, place))

(* The leaf a walk ends at, if it ends at one; a superpage is aligned.     *)
Leaves(mem, satp, page) ==
  LET upper == Upper(satp, page)
      lower == Lower(At(mem, upper), page) IN
  IF ~Read(mem, upper) THEN {}
  ELSE IF IsLeaf(At(mem, upper)) THEN {p \in {upper} : At(mem, p).ppn[2] = 0}
  ELSE IF Read(mem, lower) /\ IsLeaf(At(mem, lower)) THEN {lower} ELSE {}

Physical(mem, place, page) ==
  IF place.super THEN <<At(mem, place).ppn[1], page[2]>> ELSE At(mem, place).ppn

(* What the tables map, as the TLB would remember it.                      *)
MappingAt(mem, asid, page, place) ==
  [asid |-> asid, vpn |-> page, ppn |-> Physical(mem, place, page),
   perms |-> Perms(At(mem, place).flags)]
Mappings(mem, satp) ==
  IF ~satp.sv32 THEN {}
  ELSE UNION {{MappingAt(mem, satp.asid, page, place) : place \in Leaves(mem, satp, page)} :
                page \in Page}
=============================================================================
