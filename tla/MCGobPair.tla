------------------------------ MODULE MCGobPair ------------------------------
(* Small instances of GobPair for TLC.                                     *)
EXTENDS GobPair, TLC
=============================================================================
