-------------------------------- MODULE MCMotor --------------------------------
(* Five-bit integers shifted by two give the speeds 0..4 of a 16-tick      *)
(* period, the proportions of the 16-bit original.                         *)
EXTENDS Motor

MCSpeeds == {-16, -13, -4, 0, 5, 15}
MCSafeSpeeds == MCSpeeds \ {-16}
=============================================================================
