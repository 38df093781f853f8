------------------------------ MODULE MCHttpDial ------------------------------
(* Small instances of HttpDial for TLC.                                    *)
EXTENDS HttpDial, TLC
=============================================================================
