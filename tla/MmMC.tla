-------------------------------- MODULE MmMC --------------------------------
(* Instances of Mm for TLC: INIT and the slots for two or three children.  *)
EXTENDS Mm

MCOneStatus == {7}
MCStatuses == {7, 8}
=============================================================================
