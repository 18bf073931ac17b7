--------------------------- MODULE MCEscapeHatch ----------------------------
(* The policy's shape, 2 in 7, 5 in 30 and 12 in 90 days, in fewer days.   *)
EXTENDS EscapeHatch

MCWindows == {[days |-> 2, uses |-> 1], [days |-> 4, uses |-> 2],
              [days |-> 7, uses |-> 3]}
=============================================================================
