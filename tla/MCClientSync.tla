---------------------------- MODULE MCClientSync ----------------------------
(* Instances of ClientSync for TLC.                                        *)
EXTENDS ClientSync, TLC

CONSTANTS v1, v2, f1
=============================================================================
