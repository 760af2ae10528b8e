------------------------------ MODULE Counters ------------------------------
(***************************************************************************)
(* The performance-counter CSRs of src/src/cpu/csr/perf.rs, one counter at *)
(* a time: mcycle or minstret, whose high register is a word of its own    *)
(* that nothing carries into, or one of the mhpmcounters with its event    *)
(* selector, a whole 64-bit counter.  Halves of 2^32 as in Clint.          *)
(***************************************************************************)
EXTENDS Clint

InhibitBits == {"cy", "ir", "hpms", "hpm"}   \* "hpm": the bit of this counter

(* What an event selector may hold; "other": an event clock() never counts,*)
(* or no event.                                                            *)
Events == {"other", "cycles", "retired", "stalls", "hazards"}

PerfState ==
  [counter : {"mcycle", "minstret", "mhpmcounter"}, low : Halves, high : Halves,
   inhibit : SUBSET InhibitBits, event : Events]
NewPerf(counter) ==
  [counter |-> counter, low |-> 0, high |-> 0, inhibit |-> {}, event |-> "other"]

(* What happens in a call of clock(); "trap": it returns early, having     *)
(* taken an interrupt or a page fault.                                     *)
Happenings == SUBSET {"retired", "stalls", "hazards", "trap"}

-----------------------------------------------------------------------------
(* Does the counter count in such a call?                                  *)
HpmInhibited(p) == {"hpms", "hpm"} \cap p.inhibit # {}
Counts(p, happening) ==
  CASE p.counter = "mcycle"   -> "cy" \notin p.inhibit
    [] p.counter = "minstret" -> "retired" \in happening /\ "ir" \notin p.inhibit
    [] OTHER -> /\ ~HpmInhibited(p) /\ "trap" \notin happening
                /\ p.event \in {"cycles"} \cup happening

(* Counter64::increment_one(); of mcycle and minstret only the low half is *)
(* ever read.                                                              *)
WrongIncremented(p) == [p EXCEPT !.low = (@ + 1) % Half]  \* no carry
Incremented(p) ==
  [p EXCEPT !.low = (@ + 1) % Half,
            !.high = IF p.low = Half - 1 /\ p.counter = "mhpmcounter"
                     THEN (@ + 1) % Half ELSE @]

Clocked(p, happening) == IF Counts(p, happening) THEN Incremented(p) ELSE p

(* CSR writes; the selector keeps 16 bits.                                 *)
StorePerf(p) ==
  {[p EXCEPT !.low = v] : v \in Halves} \cup {[p EXCEPT !.high = v] : v \in Halves} \cup
  {[p EXCEPT !.inhibit = s] : s \in SUBSET InhibitBits} \cup
  {[p EXCEPT !.event = e] : e \in Events}
=============================================================================
