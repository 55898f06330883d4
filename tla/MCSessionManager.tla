-------------------------- MODULE MCSessionManager --------------------------
(* Sessions and requests are model values.                                 *)
EXTENDS SessionManager, TLC

CONSTANTS s1, s2, r1, r2, p1, p2
=============================================================================
