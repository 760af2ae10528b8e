------------------------------- MODULE Clint --------------------------------
(***************************************************************************)
(* The core-local interruptor of src/src/interrupt/clint.rs: the timer,    *)
(* its comparator and the software-interrupt bit.  Half stands for 2^32:   *)
(* a 64-bit register is stored to by halves, and mtime wraps.              *)
(***************************************************************************)
EXTENDS Integers

CONSTANT Half

ASSUME ClintAssumption == Half \in Nat \ {0}

Halves == 0 .. Half - 1
Times  == 0 .. Half * Half - 1

ClintState == [msip : BOOLEAN, mtimecmp : Times, mtime : Times]
NewClint == [msip |-> FALSE, mtimecmp |-> Half * Half - 1, mtime |-> 0]

Mtip(c) == c.mtime >= c.mtimecmp
Tick(c, cycles) == [c EXCEPT !.mtime = (@ + cycles) % (Half * Half)]

(* write_register(): a 64-bit register keeps its other half.               *)
WithLow(t, v) == (t \div Half) * Half + v
WrongWithHigh(t, v) == v * Half  \* the low half is cleared
WithHigh(t, v) == v * Half + (t % Half)

StoreMsip(c, b) == [c EXCEPT !.msip = b]
StoreMtimecmp(c, half, v) ==
  [c EXCEPT !.mtimecmp = IF half = "low" THEN WithLow(@, v) ELSE WithHigh(@, v)]
StoreMtime(c, half, v) ==
  [c EXCEPT !.mtime = IF half = "low" THEN WithLow(@, v) ELSE WithHigh(@, v)]
=============================================================================
