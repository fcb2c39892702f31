------------------------------ MODULE MCFrontend ------------------------------
EXTENDS Frontend

\* The lower half of the slider's way is one value on the wire.
MCEncode == [x \in Position |-> x \div 2]
MCDecode == [w \in Wire |-> 2 * w]
=============================================================================
