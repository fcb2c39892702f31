------------------------------ MODULE MCDevice ------------------------------
(* Two messages and a foreign packet; the watchdog limit exceeds the       *)
(* notification limit, as 180 exceeds 28.                                  *)
EXTENDS Device
=============================================================================
