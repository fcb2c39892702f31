------------------------------- MODULE MCStrobo -------------------------------
(* Five bits for both the length and the count: 4<<n overflows from n = 2  *)
(* on and the count reaches 3 and -4 steps.                                *)
EXTENDS Strobo

MCLengths == {0, 9, Longest, Top}
=============================================================================
