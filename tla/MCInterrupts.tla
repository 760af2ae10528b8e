---------------------------- MODULE MCInterrupts ----------------------------
(* Two devices beside the UART, one latched and one level-triggered; CSR   *)
(* values with every bit, with none, and with those of some interrupts.    *)
EXTENDS Interrupts

MCValues == {{}, Bits}
=============================================================================
