----------------------------- MODULE MCDevices ------------------------------
(* Each device with its user, the disk beside another source that          *)
(* interrupts; the values are in the .cfg.                                 *)
EXTENDS Devices

SamePriority == [s \in Sources |-> 1]
=============================================================================
