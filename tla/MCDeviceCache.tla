--------------------------- MODULE MCDeviceCache ---------------------------
(* Two devices, read in the order of their names. *)
EXTENDS DeviceCache, TLC

CONSTANTS d1, d2

MCOrder == [d \in Devices |-> IF d = d1 THEN 1 ELSE 2]
=============================================================================
