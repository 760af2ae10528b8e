-------------------------------- MODULE Uart --------------------------------
(***************************************************************************)
(* The 16550 UART of src/src/peripheral/uart.rs: the lengths of its FIFOs, *)
(* its interrupt enables, and what it keeps of them, the interrupt         *)
(* identification and the line status.  Registers that only store what is  *)
(* written to them are left out.                                           *)
(***************************************************************************)
EXTENDS Integers

CONSTANT FifoSize  \* 16 in the code

ASSUME UartAssumption == FifoSize \in Nat \ {0}

UartState ==
  [rx : 0 .. FifoSize, tx : 0 .. FifoSize, ier : SUBSET {"rx", "tx"}, dlab : BOOLEAN,
   iir : {"none", "rx", "tx"}, dataReady : BOOLEAN, overrun : BOOLEAN]

NewUart ==
  [rx |-> 0, tx |-> 0, ier |-> {}, dlab |-> FALSE, iir |-> "none",
   dataReady |-> FALSE, overrun |-> FALSE]

UpdateIir(u) ==
  [u EXCEPT !.iir = IF u.rx > 0 /\ "rx" \in u.ier THEN "rx"
                    ELSE IF u.tx < FifoSize /\ "tx" \in u.ier THEN "tx" ELSE "none"]

Irq(u) == u.iir # "none"

(* receive_byte().                                                         *)
WrongReceiveByte(u) == UpdateIir([u EXCEPT !.rx = @ + 1, !.dataReady = TRUE])  \* never full
ReceiveByte(u) ==
  IF u.rx < FifoSize THEN UpdateIir([u EXCEPT !.rx = @ + 1, !.dataReady = TRUE])
  ELSE [u EXCEPT !.overrun = TRUE]

(* read_register().                                                        *)
ReadRbr(u) ==
  IF u.dlab \/ u.rx = 0 THEN u
  ELSE UpdateIir([u EXCEPT !.rx = @ - 1, !.dataReady = u.rx > 1])
ReadLsr(u) == [u EXCEPT !.overrun = FALSE]

(* write_register().                                                       *)
WriteThr(u) ==
  IF u.dlab THEN u
  ELSE UpdateIir([u EXCEPT !.tx = IF @ < FifoSize THEN @ + 1 ELSE @])

WrongWriteIer(u, e) == IF u.dlab THEN u ELSE [u EXCEPT !.ier = e]  \* IIR is not updated
WriteIer(u, e) == IF u.dlab THEN u ELSE UpdateIir([u EXCEPT !.ier = e])

(* The reset bits empty the FIFOs; IIR stays as it was.                    *)
WriteFcr(u, resets) ==
  [u EXCEPT !.rx = IF "rx" \in resets THEN 0 ELSE @,
            !.tx = IF "tx" \in resets THEN 0 ELSE @,
            !.dataReady = @ /\ "rx" \notin resets]

WriteLcr(u, on) == [u EXCEPT !.dlab = on]

UartAccesses(u) ==
  {ReadRbr(u), ReadLsr(u), WriteThr(u)} \cup
  {WriteIer(u, e) : e \in SUBSET {"rx", "tx"}} \cup
  {WriteFcr(u, r) : r \in SUBSET {"rx", "tx"}} \cup
  {WriteLcr(u, on) : on \in BOOLEAN}
=============================================================================
