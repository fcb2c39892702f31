------------------------------ MODULE MCSerialTx ------------------------------
(* The real ring size with three-byte containers: the type byte, which is  *)
(* never a framing byte, and payloads that hold both framing bytes, alone  *)
(* and next to each other, in the first place and the last.                *)
EXTENDS SerialTx

MCByte == {"std", "end", "esc"}
MCPackets == { <<"std", "esc", "end">>, <<"std", "std", "esc">>,
               <<"std", "end", "std">> }
=============================================================================
