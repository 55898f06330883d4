------------------------- MODULE MCSessionSemaphore -------------------------
(* Users are model values.                                                 *)
EXTENDS SessionSemaphore, TLC

CONSTANTS u1, u2, u3
=============================================================================
