----------------------------- MODULE InputDevice ----------------------------
(***************************************************************************)
(* The keyboard of src/src/peripheral/input.rs: the keys held down, and    *)
(* its interrupt.  The last event and the count of events, which nothing   *)
(* here reads, are left out.                                               *)
(***************************************************************************)
CONSTANT Keys

InputState == [keys : SUBSET Keys, irqEn : BOOLEAN, irq : BOOLEAN]
NewInput == [keys |-> {}, irqEn |-> FALSE, irq |-> FALSE]

(* set_key() and clear_keys(), from the host.                              *)
SetKey(i, key, pressed) ==
  [i EXCEPT !.keys = IF pressed THEN @ \cup {key} ELSE @ \ {key}, !.irq = @ \/ i.irqEn]
WrongClearKeys(i) == [i EXCEPT !.keys = {}]  \* raises no interrupt
ClearKeys(i) == [i EXCEPT !.keys = {}, !.irq = @ \/ i.irqEn]

(* write_reg().  A word stored to STATUS clears the interrupt whatever it  *)
(* is: its last three bytes write the status itself back.                  *)
StoreInputControl(i, on) == [i EXCEPT !.irqEn = on]
StoreInputStatus(i) == [i EXCEPT !.irq = FALSE]
=============================================================================
