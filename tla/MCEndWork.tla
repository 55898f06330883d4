----------------------------- MODULE MCEndWork -----------------------------
(* All parameters are numbers; two idle polls stand for the five.          *)
EXTENDS EndWork, TLC
=============================================================================
