---------------------------- MODULE MCRunFunction ----------------------------
(* Instance of RunFunction for TLC.                                        *)
EXTENDS RunFunction, TLC

CONSTANTS k1, t1, t2
=============================================================================
