------------------------------ MODULE MCRegistry ------------------------------
(* A small instance of Registry for TLC.                                   *)
EXTENDS Registry, TLC

CONSTANTS r1, r2

Good == [name |-> <<"Get">>, ins |-> 4, ctx |-> TRUE, argExported |-> TRUE, replyPointer |-> TRUE,
         replyExported |-> TRUE, outs |-> 1, error |-> TRUE, of |-> "r1"]

(* r1 has a good method, and bad ones; r2 has two good methods, one of     *)
(* them with a name that r1 has too.                                       *)
MCTypeOf ==
  (r1 :> [name |-> <<"A">>, exported |-> TRUE, methods |->
            {Good,
             [Good EXCEPT !.name = <<"In">>, !.ins = 3],
             [Good EXCEPT !.name = <<"Ctx">>, !.ctx = FALSE],
             [Good EXCEPT !.name = <<"Val">>, !.replyPointer = FALSE],
             [Good EXCEPT !.name = <<"Out">>, !.outs = 2],
             [Good EXCEPT !.name = <<"Err">>, !.error = FALSE]}])
  @@ (r2 :> [name |-> <<"b">>, exported |-> FALSE, methods |->
            {[Good EXCEPT !.of = "r2"], [Good EXCEPT !.of = "r2", !.name = <<"Set">>]}])
  @@ (GoRPC :> [name |-> <<"GoRPC">>, exported |-> TRUE, methods |->
            {[Good EXCEPT !.of = "GoRPC", !.name = <<"Cancel">>]}])

MCNames == {Empty, <<"A">>, <<"A", "B">>, <<"_goRPC_">>}

MethodNames == {m.name : m \in Methods}
MCRenamers ==
  {[n \in MethodNames |-> n],
   [n \in MethodNames |-> <<"Set">>],
   [n \in MethodNames |-> <<"Get", "All">>],
   [n \in MethodNames |-> IF n = <<"Get">> THEN <<"Set">> ELSE <<"Get">>]}

MCAsked ==
  {<<"A">>, <<"A", "Get">>, <<"A", "B", "Get">>, <<"A", "Set">>, <<"A", "Val">>,
   <<"_goRPC_", "Cancel">>}
=============================================================================
