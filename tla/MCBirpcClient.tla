---------------------------- MODULE MCBirpcClient ----------------------------
(* Small instances of BirpcClient for TLC.                                 *)
EXTENDS BirpcClient, TLC

CONSTANTS c1, h1

(* The call c1 is made by the method of request h1, or by a callback.      *)
CallBacks == {c1 :> h1, c1 :> "OnConnect", c1 :> "OnDisconnect"}
=============================================================================
