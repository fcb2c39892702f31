------------------------------ MODULE MCSerialRx ------------------------------
(* The real ring size; frames with framing bytes in both places, one of a  *)
(* type the master does not transmit.                                      *)
EXTENDS SerialRx

MCByte == {"std", "data", "end", "esc"}
MCPackets == { <<"std", "end", "esc">>, <<"data", "esc", "data">> }
=============================================================================
