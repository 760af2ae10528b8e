------------------------------ MODULE MCCache ------------------------------
(***************************************************************************)
(* Two instances of the cache.  RamConfigs are the three CacheConfigs under*)
(* which a cache over plain memory must be invisible: the D-cache's, the   *)
(* I-cache's and a write-through data cache that allocates.                *)
(***************************************************************************)
EXTENDS Cache

DCache == [data |-> TRUE, back |-> TRUE, allocate |-> TRUE]
ICache == [data |-> FALSE, back |-> FALSE, allocate |-> FALSE]
Through == [data |-> TRUE, back |-> FALSE, allocate |-> TRUE]

RamConfigs   == {DCache, ICache, Through}
FaultConfigs == {DCache}

RamKind   == [l \in Lines |-> IF l = 3 THEN "none" ELSE "rw"]
FaultKind == [l \in Lines |-> IF l = 0 THEN "ro" ELSE IF l = 4 THEN "none" ELSE "rw"]
=============================================================================
