------------------------- MODULE RpcClientRefinement -------------------------
(***************************************************************************)
(* RpcClient implements RpcCalls.                                          *)
(***************************************************************************)
EXTENDS RpcClientProofs

-----------------------------------------------------------------------------
(* CauseInv is an invariant *)

LEMMA CauseInit == Init => CauseInv
BY DEF Init, CauseInv

(* Completing a call gives ErrShutdown only a cause.                       *)
LEMMA CauseComplete ==
  ASSUME IInv, CauseInv, NEW o \in Objs \cup {NoCall}, NEW e \in Errors,
         o # NoCall => completed[o] = 0, Complete(o, e),
         replied' \subseteq replied \cup {o}, replied' \subseteq Objs,
         closing \/ shutdown => closing' \/ shutdown',
         e = "ErrShutdown" => closing' \/ shutdown'
  PROVE  /\ \A x \in Objs : error'[x] = "ErrShutdown" => closing' \/ shutdown'
         /\ \A x \in replied' : completed'[x] # 0
<1>1. \A x \in Objs : /\ completed'[x] = IF x = o THEN 1 ELSE completed[x]
                      /\ error'[x] = IF x = o THEN e ELSE error[x]
  BY CompleteFacts DEF IInv
<1> QED
  BY <1>1 DEF CauseInv

(* A return from send does not turn a call into its cancellation.          *)
LEMMA CauseSend ==
  ASSUME TypeOK, CauseInv, NEW t \in Callers, SendReturns(t)
  PROVE  \A u \in Callers : pc'[u] = "cancel" \/ cur'[u] = "cancel" => u \in ctxDone'
BY SendReturnsFacts DEF CauseInv, TypeOK

LEMMA CauseNext == ASSUME IInv, CauseInv, [Next]_vars PROVE CauseInv'
<1> USE DEF IInv
<1>1. ASSUME NEW t \in Callers, Refuse(t) PROVE CauseInv'
  <2>1. Obj(t) \in Objs /\ completed[Obj(t)] = 0 /\ callSeq[Obj(t)] = 0
    BY <1>1, CurFacts DEF Refuse, FreshInv, Fresh
  <2>2. Down /\ Complete(Obj(t), "ErrShutdown") /\ SendReturns(t)
        /\ UNCHANGED <<closing, shutdown, replied>>
    BY <1>1, <2>1 DEF Refuse, clientVars
  <2>3. /\ \A x \in Objs : error'[x] = "ErrShutdown" => closing' \/ shutdown'
        /\ \A x \in replied' : completed'[x] # 0
    BY <2>1, <2>2, CauseComplete DEF Down, Errors, TypeOK
  <2> QED
    BY <2>2, <2>3, CauseSend DEF CauseInv
<1>2. ASSUME NEW t \in Callers, WriteFailed(t) PROVE CauseInv'
  <2> DEFINE o == Lookup(callSeq[Obj(t)])
  <2>1. /\ Complete(o, "write") /\ SendReturns(t) /\ pc[t] = "failed"
        /\ UNCHANGED <<closing, shutdown, replied>>
    BY <1>2 DEF WriteFailed
  <2>2. o \in Objs \cup {NoCall} /\ (o # NoCall => o \in Range(pending))
    BY PendingFacts DEF Lookup
  <2>3. o # NoCall => completed[o] = 0
    BY <2>1, <2>2, ClientAssumption DEF MutexInv, Sending, InputInv, DoneInv
  <2> HIDE DEF o
  <2>4. /\ \A x \in Objs : error'[x] = "ErrShutdown" => closing' \/ shutdown'
        /\ \A x \in replied' : completed'[x] # 0
    BY <2>1, <2>2, <2>3, CauseComplete DEF Errors, TypeOK
  <2> QED
    BY <2>1, <2>4, CauseSend DEF CauseInv
<1>3. ASSUME NEW t \in Callers, Wrote(t) PROVE CauseInv'
  <2>1. SendReturns(t) /\ UNCHANGED <<closing, shutdown, callVars>>
    BY <1>3 DEF Wrote
  <2> QED
    BY <2>1, CauseSend DEF CauseInv, callVars
<1>4. ASSUME NEW t \in Callers, CancelPending(t) PROVE CauseInv'
  <2>1. \A u \in Callers : pc'[u] = "cancel" \/ cur'[u] = "cancel" => u \in ctxDone'
    BY <1>4 DEF CancelPending, CauseInv, Goto, TypeOK
  <2> QED
    BY <1>4, <2>1 DEF CancelPending, CauseInv
<1>5. ASSUME NEW t \in Callers,
             \/ Go(t) \/ Register(t) \/ Receive(t) \/ ContextEnds(t) \/ SelectCtx(t)
             \/ \E ok, reached \in BOOLEAN : WriteRequest(t, ok, reached)
      PROVE  CauseInv'
  <2>1. UNCHANGED <<cur, closing, shutdown, error, completed, replied>>
    BY <1>5 DEF Go, Register, Receive, ContextEnds, SelectCtx, WriteRequest, clientVars, callVars
  <2>2. ctxDone \subseteq ctxDone' /\ \A u \in Callers : pc'[u] = "cancel" => u \in ctxDone'
    BY <1>5 DEF Go, Register, Receive, ContextEnds, SelectCtx, WriteRequest, Goto, CauseInv, TypeOK
  <2> QED
    BY <2>1, <2>2 DEF CauseInv
<1>6. CASE \/ Close \/ CodecClose \/ Terminate \/ UNCHANGED vars
           \/ \E m \in wire, failed \in BOOLEAN : ReadResponseHeader(m, failed)
           \/ \E e \in {"EOF", "other"} : HeaderFails(e)
  <2>1. UNCHANGED <<pc, cur, ctxDone, error, completed, replied>>
        /\ (closing \/ shutdown => closing' \/ shutdown')
    BY <1>6 DEF Close, CodecClose, Terminate, ReadResponseHeader, HeaderFails, vars,
                callerVars, clientVars, callVars
  <2> QED
    BY <2>1 DEF CauseInv
<1>7. ASSUME NEW e \in {"nil", "EOF", "other"}, ReadResponseBody(e) PROVE CauseInv'
  <2>1. /\ Complete(resp.call, CallError(e)) /\ UNCHANGED <<pc, cur, ctxDone, closing, shutdown>>
        /\ replied' \subseteq replied \cup ({resp.call} \ {NoCall})
    BY <1>7 DEF ReadResponseBody, callerVars, clientVars
  <2>2. /\ resp.call \in Objs \cup {NoCall} /\ CallError(e) \in Errors \ {"ErrShutdown"}
        /\ resp.call # NoCall => completed[resp.call] = 0
    BY DEF CallError, Errors, InputInv, TypeOK
  <2>3. /\ replied' \subseteq replied \cup {resp.call} /\ replied' \subseteq Objs
        /\ closing \/ shutdown => closing' \/ shutdown'
    BY <2>1, <2>2 DEF TypeOK
  <2>4. /\ \A x \in Objs : error'[x] = "ErrShutdown" => closing' \/ shutdown'
        /\ \A x \in replied' : completed'[x] # 0
    BY <2>1, <2>2, <2>3, CauseComplete
  <2> QED
    BY <2>1, <2>4 DEF CauseInv
<1>8. ASSUME NEW o \in doomed, Drain(o) PROVE CauseInv'
  <2>1. /\ Complete(o, ierr) /\ UNCHANGED <<pc, cur, ctxDone, closing, shutdown, replied>>
        /\ ipc = "draining"
    BY <1>8 DEF Drain, callerVars, clientVars
  <2>2. o \in Objs /\ ierr \in Errors /\ completed[o] = 0 /\ shutdown
    BY <2>1 DEF DoneInv, InputInv, TypeOK
  <2>3. /\ \A x \in Objs : error'[x] = "ErrShutdown" => closing' \/ shutdown'
        /\ \A x \in replied' : completed'[x] # 0
    BY <2>1, <2>2, CauseComplete DEF TypeOK
  <2> QED
    BY <2>1, <2>3 DEF CauseInv
<1> QED
  BY <1>1, <1>2, <1>3, <1>4, <1>5, <1>6, <1>7, <1>8 DEF Next, Write, Step, Finished

-----------------------------------------------------------------------------
(* Every step is a step of RpcCalls, or none *)

Phases == [t \in Callers |-> Phase(t)]
Outcomes == [t \in Callers |-> Told(t)]
Decoded == {t \in Callers : Main(t) \in replied}

LEMMA PromiseInit == Init => Promise!Init
BY DEF Init, Promise!Init, Phase, Told, Promise!Callers, Callers

(* A step that leaves what the users see alone.                            *)
LEMMA Invisible ==
  ASSUME UNCHANGED <<Phases, Outcomes, Decoded, ctxDone, closing, shutdown>>
  PROVE  UNCHANGED Promise!vars
BY DEF Promise!vars, Phases, Outcomes, Decoded

(* A call in progress returns r.                                           *)
LEMMA Returns ==
  ASSUME TypeOK, NEW t \in Callers, NEW r \in Errors \cup {"ctx"},
         pc[t] \notin {"idle", "returned"},
         pc' = [pc EXCEPT ![t] = "returned"], result' = [result EXCEPT ![t] = r],
         UNCHANGED <<replied, ctxDone, closing, shutdown>>,
         r = "nil" => Main(t) \in replied,
         r = "ErrShutdown" => closing \/ shutdown,
         r = "ctx" => t \in ctxDone
  PROVE  Promise!Next
<1> DEFINE q == IF r \in {"nil", "ErrShutdown", "ctx"} THEN r ELSE "error"
<1>1. Phases[t] = "active" /\ Phases' = [Phases EXCEPT ![t] = "returned"]
  BY DEF Phases, Phase, TypeOK
<1>2. Outcomes' = [Outcomes EXCEPT ![t] = q]
  BY DEF Outcomes, Told, TypeOK, Errors
<1>3. Decoded' = Decoded
  BY DEF Decoded, Main
<1>4. q \in Promise!Outcomes /\ Promise!Cause(t, q)
  BY DEF Promise!Outcomes, Promise!Cause, Errors
<1>5. Promise!Return(t, q)
  BY <1>1, <1>2, <1>3, <1>4 DEF Promise!Return, Phases, Outcomes, Decoded
<1> QED
  BY <1>4, <1>5 DEF Promise!Next, Promise!Callers, Callers

(* The return from send ends a Call whose context has ended; it changes    *)
(* nothing for the user otherwise.                                         *)
LEMMA SendReturnsStep ==
  ASSUME TypeOK, CauseInv, NEW t \in Callers, pc[t] \in {"lock", "wrote", "failed"},
         SendReturns(t), UNCHANGED <<replied, closing, shutdown>>
  PROVE  [Promise!Next]_(Promise!vars)
<1>1. CASE cur[t] = "cancel"
  <2>1. /\ pc' = [pc EXCEPT ![t] = "returned"] /\ result' = [result EXCEPT ![t] = "ctx"]
        /\ ctxDone' = ctxDone /\ t \in ctxDone
    BY <1>1 DEF SendReturns, Goto, CauseInv
  <2> QED
    BY <2>1, Returns
<1>2. CASE cur[t] # "cancel"
  <2>1. /\ pc' = [pc EXCEPT ![t] = IF t \in Calls THEN "wait" ELSE "sent"]
        /\ UNCHANGED <<result, ctxDone>>
    BY <1>2 DEF SendReturns, Goto
  <2>2. UNCHANGED <<Phases, Outcomes, Decoded>>
    BY <2>1 DEF Phases, Phase, Outcomes, Told, Decoded, Main, TypeOK
  <2> QED
    BY <2>1, <2>2, Invisible
<1> QED
  BY <1>1, <1>2

LEMMA CallerStep ==
  ASSUME IInv, CauseInv, NEW t \in Callers,
         Go(t) \/ Refuse(t) \/ Register(t) \/ Write(t) \/ Step(t) \/ ContextEnds(t)
  PROVE  [Promise!Next]_(Promise!vars)
<1> USE DEF IInv
<1>1. CASE Go(t)
  <2>1. /\ pc[t] = "idle" /\ pc' = [pc EXCEPT ![t] = "lock"]
        /\ UNCHANGED <<result, ctxDone, closing, shutdown, replied>>
    BY <1>1 DEF Go, Goto, clientVars, callVars
  <2>2. Phases[t] = "idle" /\ Phases' = [Phases EXCEPT ![t] = "active"]
        /\ UNCHANGED <<Outcomes, Decoded>>
    BY <2>1 DEF Phases, Phase, Outcomes, Told, Decoded, Main, TypeOK
  <2>3. Promise!Invoke(t)
    BY <2>1, <2>2 DEF Promise!Invoke, Phases, Outcomes, Decoded
  <2> QED
    BY <2>3 DEF Promise!Next, Promise!Callers, Callers
<1>2. CASE Refuse(t) \/ Wrote(t) \/ WriteFailed(t)
  BY <1>2, SendReturnsStep DEF Refuse, Wrote, WriteFailed, clientVars, callVars
<1>3. CASE \/ Register(t) \/ SelectCtx(t)
           \/ \E ok, reached \in BOOLEAN : WriteRequest(t, ok, reached)
  <2>1. /\ pc[t] \notin {"idle", "returned"}
        /\ \E label \in {"write", "wrote", "failed", "cancel"} : pc' = [pc EXCEPT ![t] = label]
        /\ UNCHANGED <<result, ctxDone, closing, shutdown, replied>>
    BY <1>3 DEF Register, SelectCtx, WriteRequest, Goto, clientVars, callVars
  <2>2. UNCHANGED <<Phases, Outcomes, Decoded>>
    BY <2>1 DEF Phases, Phase, Outcomes, Told, Decoded, Main, TypeOK
  <2> QED
    BY <2>1, <2>2, Invisible
<1>4. CASE Receive(t)
  <2>1. /\ pc[t] \in {"wait", "sent"} /\ pc' = [pc EXCEPT ![t] = "returned"]
        /\ result' = [result EXCEPT ![t] = error[Main(t)]] /\ Main(t) \in inChan
        /\ UNCHANGED <<ctxDone, closing, shutdown, replied>>
    BY <1>4 DEF Receive, Goto, clientVars
  <2>2. /\ error[Main(t)] \in Errors
        /\ error[Main(t)] = "nil" => Main(t) \in replied
        /\ error[Main(t)] = "ErrShutdown" => closing \/ shutdown
        /\ error[Main(t)] # "ctx"
    BY <2>1, ObjFacts DEF DoneInv, CauseInv, TypeOK, Errors
  <2> QED
    BY <2>1, <2>2, Returns
<1>5. CASE CancelPending(t)
  <2> DEFINE again == callSeq[Main(t)] # 0 /\ callSeq[Main(t)] \in DOMAIN pending
  <2>1. /\ pc[t] = "cancel" /\ t \in ctxDone
        /\ pc' = [pc EXCEPT ![t] = IF again THEN "lock" ELSE "returned"]
        /\ result' = IF again THEN result ELSE [result EXCEPT ![t] = "ctx"]
        /\ UNCHANGED <<ctxDone, closing, shutdown, replied>>
    BY <1>5 DEF CancelPending, Goto, CauseInv
  <2> HIDE DEF again
  <2>2. CASE again
    <3>1. UNCHANGED <<Phases, Outcomes, Decoded>>
      BY <2>1, <2>2 DEF Phases, Phase, Outcomes, Told, Decoded, Main, TypeOK
    <3> QED
      BY <2>1, <3>1, Invisible
  <2>3. CASE ~again
    BY <2>1, <2>3, Returns
  <2> QED
    BY <2>2, <2>3
<1>6. CASE ContextEnds(t)
  <2>1. /\ t \in Calls \ ctxDone /\ ctxDone' = ctxDone \cup {t}
        /\ UNCHANGED <<Phases, Outcomes, Decoded, closing, shutdown>>
    BY <1>6 DEF ContextEnds, Phases, Phase, Outcomes, Told, Decoded, Main, clientVars, callVars
  <2>2. Promise!Expire(t)
    BY <2>1 DEF Promise!Expire, Phases, Outcomes, Decoded
  <2> QED
    BY <2>2 DEF Promise!Next, Promise!Callers, Callers
<1> QED
  BY <1>1, <1>2, <1>3, <1>4, <1>5, <1>6 DEF Write, Step

LEMMA InputStep ==
  ASSUME IInv, CauseInv, NEW e \in {"nil", "EOF", "other"}, ReadResponseBody(e)
  PROVE  [Promise!Next]_(Promise!vars)
<1> USE DEF IInv
<1>1. /\ ipc = "body" /\ UNCHANGED <<ctxDone, closing, shutdown, pc>>
      /\ UNCHANGED <<Phases, Outcomes>>
      /\ replied' = IF resp.call # NoCall /\ ~resp.failed /\ e = "nil"
                    THEN replied \cup {resp.call} ELSE replied
  BY DEF ReadResponseBody, callerVars, clientVars, Phases, Phase, Outcomes, Told
<1>2. CASE Decoded' = Decoded
  BY <1>1, <1>2, Invisible
<1>3. CASE Decoded' # Decoded
  <2>1. PICK t \in Callers : resp.call = Main(t) /\ Main(t) \notin replied
    BY <1>1, <1>3 DEF Decoded, Main
  <2>2. resp.call # NoCall /\ ~resp.failed /\ e = "nil"
    BY <1>1, <1>3 DEF Decoded, Main
  <2>3. Decoded' = Decoded \cup {t} /\ t \notin Decoded
    BY <1>1, <2>1, <2>2, ObjFacts DEF Decoded, Main
  <2>4. pc[t] # "idle"
    BY <2>1, CurFacts DEF FreshInv, Fresh
  <2>5. Phases[t] # "idle" /\ ~shutdown
    BY <1>1, <2>4 DEF Phases, Phase, InputInv
  <2>6. Promise!Decode(t)
    BY <1>1, <2>3, <2>5 DEF Promise!Decode, Phases, Outcomes, Decoded
  <2> QED
    BY <2>6 DEF Promise!Next, Promise!Callers, Callers
<1> QED
  BY <1>2, <1>3

LEMMA PromiseNext ==
  ASSUME IInv, CauseInv, [Next]_vars
  PROVE  [Promise!Next]_(Promise!vars)
<1>1. CASE Close
  <2>1. ~closing /\ closing' = TRUE
        /\ UNCHANGED <<Phases, Outcomes, Decoded, ctxDone, shutdown>>
    BY <1>1 DEF Close, callerVars, callVars, Phases, Phase, Outcomes, Told, Decoded, Main
  <2>2. Promise!Close
    BY <2>1 DEF Promise!Close, Phases, Outcomes, Decoded
  <2> QED
    BY <2>2 DEF Promise!Next
<1>2. CASE Terminate
  <2>1. ~shutdown /\ shutdown' = TRUE
        /\ UNCHANGED <<Phases, Outcomes, Decoded, ctxDone, closing>>
    BY <1>2 DEF Terminate, callerVars, callVars, Phases, Phase, Outcomes, Told, Decoded, Main,
                IInv, InputInv
  <2>2. Promise!End
    BY <2>1 DEF Promise!End, Phases, Outcomes, Decoded
  <2> QED
    BY <2>2 DEF Promise!Next
<1>3. CASE \/ CodecClose \/ UNCHANGED vars
           \/ \E m \in wire, failed \in BOOLEAN : ReadResponseHeader(m, failed)
           \/ \E e \in {"EOF", "other"} : HeaderFails(e)
           \/ \E o \in doomed : Drain(o)
  <2>1. UNCHANGED <<callerVars, closing, shutdown, replied>>
    BY <1>3 DEF CodecClose, ReadResponseHeader, HeaderFails, Drain, vars, clientVars, callVars
  <2>2. UNCHANGED <<Phases, Outcomes, Decoded, ctxDone, closing, shutdown>>
    BY <2>1 DEF callerVars, Phases, Phase, Outcomes, Told, Decoded, Main
  <2> QED
    BY <2>2, Invisible
<1> QED
  BY <1>1, <1>2, <1>3, CallerStep, InputStep DEF Next, Finished

(* The goroutines, locks and sequence numbers of the client add up to what *)
(* RpcCalls promises, for any number of concurrent calls.                  *)
THEOREM ClientKeepsPromise == Spec => KeepsPromise
<1>1. IInv /\ CauseInv /\ [Next]_vars => CauseInv'
  BY CauseNext
<1>2. IInv /\ CauseInv /\ [Next]_vars => [Promise!Next]_(Promise!vars)
  BY PromiseNext
<1> QED
  BY <1>1, <1>2, CauseInit, PromiseInit, Invariance, PTL DEF Spec, KeepsPromise, Promise!Spec
=============================================================================
