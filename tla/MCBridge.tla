-------------------------------- MODULE MCBridge --------------------------------
(* Two-byte containers, a type byte and a payload byte that may be a       *)
(* framing byte; MCEscPackets adds a gateway frame that carries an ESC.    *)
EXTENDS Bridge

MCByte == {"std", "end", "esc"}
MCPackets == { <<"std", "end">>, <<"std", "std">> }
MCEscPackets == MCPackets \cup { <<"std", "esc">> }
MCDatagrams == { <<"std", "esc">> }
=============================================================================
