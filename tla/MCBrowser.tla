-------------------------------- MODULE MCBrowser ---------------------------------
(* A small instance of Browser for TLC.                                              *)
EXTENDS Browser

CONSTANTS i1, i2, k1, k2, k3, r1, r2, o1, o2, o3, p1, p2, e1, e2, e3
=============================================================================
