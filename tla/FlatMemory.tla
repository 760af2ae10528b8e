----------------------------- MODULE FlatMemory -----------------------------
(***************************************************************************)
(* What the memory hierarchy promises the program: one array of bytes.     *)
(* A load returns the bytes last stored at its addresses, a store replaces *)
(* exactly the bytes it names, and an access is refused exactly when the   *)
(* bus has no device behind one of its bytes.  Cache.tla implements this.  *)
(***************************************************************************)
EXTENDS Naturals

CONSTANTS
  Addresses,   \* the byte addresses of the machine
  Mapped,      \* those some RAM region answers
  Widths,      \* access widths, in bytes
  Values       \* contents of one byte

VARIABLES contents, out

vars == <<contents, out>>

Bytes(a, n) == a .. (a + n - 1)

Done      == [ok |-> TRUE,  val |-> <<>>]
Refused   == [ok |-> FALSE, val |-> <<>>]
Loaded(v) == [ok |-> TRUE,  val |-> v]

Init ==
  /\ contents \in [Addresses -> Values]
  /\ out = Done

Load(a, n) ==
  /\ Bytes(a, n) \subseteq Mapped
  /\ out' = Loaded([i \in 1..n |-> contents[a + i - 1]])
  /\ UNCHANGED contents

Store(a, n, v) ==
  /\ Bytes(a, n) \subseteq Mapped
  /\ out' = Done
  /\ contents' = [b \in Addresses |->
                    IF b \in Bytes(a, n) THEN v[b - a + 1] ELSE contents[b]]

Refuse(a, n) ==
  /\ ~(Bytes(a, n) \subseteq Mapped)
  /\ out' = Refused
  /\ UNCHANGED contents

(* Cache maintenance: invisible, whatever it moves.                        *)
Maintain ==
  /\ out' = Done
  /\ UNCHANGED contents

Next ==
  \/ Maintain
  \/ \E a \in Addresses, n \in Widths : Load(a, n) \/ Refuse(a, n)
  \/ \E a \in Addresses, n \in Widths : \E v \in [1..n -> Values] : Store(a, n, v)

Spec == Init /\ [][Next]_vars
=============================================================================
