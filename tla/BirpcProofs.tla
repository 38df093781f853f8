----------------------------- MODULE BirpcProofs -----------------------------
(***************************************************************************)
(* Proofs about BirpcClient, for every set of callers and handlers.  What  *)
(* is proved about the client goroutines of RpcClient is reused: seen      *)
(* through ClientMutex, in which reqMutex is free while a handler or input *)
(* holds it, every step of an endpoint but the closing of its codec is a   *)
(* step of RpcClient or none, and so preserves C!IInv and keeps the        *)
(* promise of RpcCalls.                                                    *)
(***************************************************************************)
EXTENDS BirpcClient, FiniteSetTheorems, TLAPS

ClientMutex == IF reqMutex \in Callers THEN reqMutex ELSE NoOne

C == INSTANCE RpcClientRefinement WITH reqMutex <- ClientMutex

(* Handlers the WaitGroup counts.                                          *)
Active == {h \in Handlers : hpc[h] \in {"run", "lock", "write", "wrote"}}

(* Handlers and input write under reqMutex.                                *)
LockInv ==
  /\ \A h \in Handlers : hpc[h] = "write" => reqMutex = h
  /\ bpc = "rejecting" => reqMutex = Input

CountInv == IsFiniteSet(Active) /\ wg = Cardinality(Active)

AnsweredInv ==
  \A h \in Handlers :
    /\ hpc[h] \in {"wrote", "done"} => h \in answered
    /\ hpc[h] = "rejected" => h \in answered \/ bpc \in {"reject", "rejecting"}

(* The stages of input.                                                    *)
EndInv ==
  /\ bpc \in {"connect", "published", "reject", "rejecting"} => ipc = "header"
  /\ disconnect <=> bpc \in {"close", "publish", "defer", "end"}
  /\ disconnect => ipc = "stopped" /\ Active = {}

(* The inductive invariant.                                                *)
BInv == C!IInv /\ BTypeOK /\ LockInv /\ CountInv /\ AnsweredInv /\ EndInv

-----------------------------------------------------------------------------
(* The instance C and the module it is an instance of *)

LEMMA ClientAssumed ==
  /\ Calls \cap GoCalls = {} /\ C!IsFiniteSet(C!Callers) /\ DoneCap \in Nat \ {0}
  /\ NoCall \notin C!Objs /\ NoOne \notin C!Callers
<1>1. C!Callers = Callers /\ C!Objs = Objs
  BY DEF C!Callers, Callers, C!Objs, Objs
<1>2. C!IsFiniteSet(Callers) <=> IsFiniteSet(Callers)
  BY DEF C!IsFiniteSet, IsFiniteSet
<1> QED
  BY <1>1, <1>2, ClientAssumption

LEMMA SameSets ==
  /\ C!Callers = Callers /\ C!Objs = Objs /\ C!Sending = Sending
  /\ \A t : C!Main(t) = Main(t) /\ C!Cancel(t) = Cancel(t) /\ C!Obj(t) = Obj(t)
BY DEF C!Callers, Callers, C!Objs, Objs, C!Sending, Sending, C!Main, Main, C!Cancel, Cancel,
       C!Obj, Obj

LEMMA SameMaps ==
  ASSUME NEW f, NEW S
  PROVE  C!Restrict(f, S) = Restrict(f, S) /\ C!Range(f) = Range(f)
BY DEF C!Restrict, Restrict, C!Range, Range

LEMMA SameCardinality == ASSUME NEW S PROVE C!Cardinality(S) = Cardinality(S)
BY DEF C!Cardinality, Cardinality

LEMMA SameComplete == ASSUME NEW o, NEW e PROVE C!Complete(o, e) <=> Complete(o, e)
BY SameCardinality
   DEF C!Complete, Complete, C!done, done, C!Load, Load, C!Cap, Cap, C!Chan, Chan

LEMMA SamePending ==
  ASSUME NEW s PROVE C!Lookup(s) = Lookup(s) /\ (C!Delete(s) <=> Delete(s))
BY SameMaps DEF C!Lookup, Lookup, C!Delete, Delete

LEMMA SameSendReturns == ASSUME NEW t PROVE C!SendReturns(t) <=> SendReturns(t)
BY DEF C!SendReturns, SendReturns, C!Goto, Goto

(* ClientMutex is what the callers see of reqMutex.                        *)
LEMMA MutexFacts ==
  /\ ClientMutex \in Callers \cup {NoOne}
  /\ reqMutex = NoOne => ClientMutex = NoOne
  /\ \A t \in Callers : ClientMutex = t <=> reqMutex = t
BY ClientAssumption DEF ClientMutex

(* A step that leaves reqMutex alone, or passes it between nobody and a    *)
(* handler or input, is not seen by the callers.                           *)
LEMMA MutexUnseen ==
  ASSUME reqMutex' = reqMutex \/ {reqMutex, reqMutex'} \cap Callers = {}
  PROVE  ClientMutex' = ClientMutex
BY DEF ClientMutex

-----------------------------------------------------------------------------
(* Steps of an endpoint are steps of its client *)

(* What a caller does, it does to the client.                              *)
LEMMA CallerIsClient ==
  ASSUME NEW t \in Callers,
         Go(t) \/ Refuse(t) \/ Register(t) \/ Write(t) \/ Step(t) \/ ContextEnds(t)
  PROVE  C!Next
<1> USE DEF C!callerVars, callerVars, C!clientVars, clientVars, C!callVars, callVars,
            C!inputVars, inputVars, C!netVars, netVars, C!Goto, Goto
<1>1. CASE Go(t)
  <2>1. C!Go(t)
    BY <1>1, MutexUnseen DEF C!Go, Go
  <2> QED
    BY <2>1, SameSets DEF C!Next
<1>2. CASE Refuse(t)
  <2>1. C!Refuse(t)
    BY <1>2, MutexUnseen, MutexFacts, SameSets, SameComplete, SameSendReturns
       DEF C!Refuse, Refuse, C!LockReq, LockReq, C!MutexFree, MutexFree, C!Down, Down
  <2> QED
    BY <2>1, SameSets DEF C!Next
<1>3. CASE Register(t)
  <2>1. reqMutex' = t /\ ClientMutex' = t
    BY <1>3 DEF Register, ClientMutex
  <2>2. C!Register(t)
    BY <1>3, <2>1, MutexFacts, SameSets
       DEF C!Register, Register, C!LockReq, LockReq, C!MutexFree, MutexFree, C!Down, Down,
           C!NextSeq, NextSeq
  <2> QED
    BY <2>2, SameSets DEF C!Next
<1>4. CASE Step(t)
  <2>2. ASSUME Wrote(t) PROVE C!Wrote(t)
    <3>1. ClientMutex' = NoOne
      BY <2>2 DEF Wrote, ClientMutex
    <3> QED
      BY <2>2, <3>1, SameSendReturns DEF C!Wrote, Wrote
  <2>3. ASSUME WriteFailed(t) PROVE C!WriteFailed(t)
    <3>1. ClientMutex' = NoOne
      BY <2>3 DEF WriteFailed, ClientMutex
    <3> QED
      BY <2>3, <3>1, SameSets, SameSendReturns, SamePending, SameComplete
         DEF C!WriteFailed, WriteFailed, C!MutexFree, MutexFree
  <2>4. ASSUME Receive(t) PROVE C!Receive(t)
    BY <2>4, MutexUnseen, SameSets DEF C!Receive, Receive
  <2>5. ASSUME SelectCtx(t) PROVE C!SelectCtx(t)
    BY <2>5, MutexUnseen DEF C!SelectCtx, SelectCtx
  <2>6. ASSUME CancelPending(t) PROVE C!CancelPending(t)
    BY <2>6, MutexUnseen, SameSets, SamePending
       DEF C!CancelPending, CancelPending, C!MutexFree, MutexFree
  <2>7. C!Step(t)
    BY <1>4, <2>2, <2>3, <2>4, <2>5, <2>6 DEF C!Step, Step
  <2> QED
    BY <2>7, SameSets DEF C!Next
<1>5. CASE ContextEnds(t)
  <2>1. C!ContextEnds(t)
    BY <1>5, MutexUnseen DEF C!ContextEnds, ContextEnds
  <2> QED
    BY <2>1, SameSets DEF C!Next
<1>6. CASE Write(t)
  <2>1. ASSUME NEW ok \in BOOLEAN, NEW reached \in BOOLEAN, WriteRequest(t, ok, reached)
        PROVE  C!WriteRequest(t, ok, reached)
    BY <2>1, MutexUnseen, SameSets DEF C!WriteRequest, WriteRequest
  <2>2. C!Write(t)
    BY <1>6, <2>1 DEF C!Write, Write
  <2> QED
    BY <2>2, SameSets DEF C!Next
<1> QED
  BY <1>1, <1>2, <1>3, <1>4, <1>5, <1>6

(* So does input when it reads a response, or ends.                        *)
LEMMA InputIsClient ==
  ASSUME SetClosing \/ ReadResponse \/ ReadFails \/ TerminatePending \/ DrainPending
  PROVE  C!Next
<1> USE DEF C!callerVars, callerVars, C!clientVars, clientVars, C!callVars, callVars,
            C!inputVars, inputVars, C!netVars, netVars
<1>1. CASE SetClosing
  <2>1. C!Close
    BY <1>1, MutexUnseen DEF SetClosing, C!Close, Close, C!MutexFree, MutexFree
  <2> QED
    BY <2>1 DEF C!Next
<1>2. CASE ReadResponse
  <2>1. ASSUME NEW m \in wire, NEW failed \in BOOLEAN, ReadResponseHeader(m, failed)
        PROVE  C!ReadResponseHeader(m, failed)
    BY <2>1, MutexUnseen, SamePending DEF C!ReadResponseHeader, ReadResponseHeader
  <2>2. ASSUME NEW e \in {"nil", "EOF", "other"}, ReadResponseBody(e)
        PROVE  C!ReadResponseBody(e)
    BY <2>2, MutexUnseen, SameComplete
       DEF C!ReadResponseBody, ReadResponseBody, C!CallError, CallError, C!NoResp, NoResp
  <2> QED
    BY <1>2, <2>1, <2>2 DEF ReadResponse, C!Next
<1>3. CASE ReadFails
  <2>1. ASSUME NEW e \in {"EOF", "other"}, HeaderFails(e) PROVE C!HeaderFails(e)
    BY <2>1, MutexUnseen DEF C!HeaderFails, HeaderFails
  <2> QED
    BY <1>3, <2>1 DEF ReadFails, C!Next
<1>4. CASE TerminatePending
  <2>1. C!Terminate
    BY <1>4, MutexUnseen, MutexFacts, SameMaps
       DEF TerminatePending, C!Terminate, Terminate, C!InputLocksReq, InputLocksReq
  <2> QED
    BY <2>1 DEF C!Next
<1>5. CASE DrainPending
  <2>1. ASSUME NEW o \in doomed, Drain(o) PROVE C!Drain(o)
    BY <2>1, MutexUnseen, SameComplete DEF C!Drain, Drain
  <2> QED
    BY <1>5, <2>1 DEF DrainPending, C!Next
<1> QED
  BY <1>1, <1>2, <1>3, <1>4, <1>5

(* Closing the codec does not concern the client's invariant.              *)
LEMMA CloseConnInv == ASSUME C!IInv, CloseConn PROVE C!IInv'
<1> USE DEF C!IInv
<1>0. /\ UNCHANGED <<pc, cur, ctxDone, result, request, seq, pending, closing, shutdown,
                     callSeq, error, inChan, discarded, completed, replied, ipc, resp, ierr,
                     doomed, wire>>
      /\ ClientMutex' = ClientMutex /\ codecOpen' = FALSE
  BY MutexUnseen DEF CloseConn, callerVars, clientVars, callVars, inputVars
<1>1. C!TypeOK'
  <2>1. ClientMutex' \in C!Callers \cup {NoOne}
    BY <1>0 DEF C!TypeOK
  <2>2. \E S \in SUBSET (1 .. seq') : pending' \in [S -> C!Objs]
    BY <1>0 DEF C!TypeOK
  <2>3. wire' \subseteq C!Requests
    BY <1>0 DEF C!TypeOK
  <2>4. resp' \in [call : C!Objs \cup {NoCall}, method : C!Objs \cup {NoCall},
               args : C!Objs \cup {NoCall}, failed : BOOLEAN]
    BY <1>0 DEF C!TypeOK
  <2> QED
    BY <1>0, <2>1, <2>2, <2>3, <2>4 DEF C!TypeOK
<1>2. C!FreshInv' /\ C!MutexInv' /\ C!SeqInv' /\ C!ReachInv'
  BY <1>0 DEF C!FreshInv, C!Fresh, C!MutexInv, C!SeqInv, C!ReachInv, C!Reachable, C!Obj,
              C!Main, C!Cancel
<1>3. C!InputInv'
  BY <1>0 DEF C!InputInv
<1>4. C!DoneInv' /\ C!CompletedOnce' /\ C!ReplyToItsCall'
  BY <1>0 DEF C!DoneInv, C!CompletedOnce, C!ReplyToItsCall
<1>5. C!CallNeverDropped' /\ C!SuccessMeansReplied'
  BY <1>0 DEF C!CallNeverDropped, C!SuccessMeansReplied, C!Main
<1> QED
  BY <1>1, <1>2, <1>3, <1>4, <1>5

(* The rest of an endpoint leaves the client alone.                        *)
LEMMA UnseenInv ==
  ASSUME C!IInv, UNCHANGED nonMutexVars,
         reqMutex' = reqMutex \/ {reqMutex, reqMutex'} \cap Callers = {}
  PROVE  C!IInv'
<1>1. UNCHANGED C!vars
  BY MutexUnseen
     DEF nonMutexVars, C!vars, C!callerVars, callerVars, C!clientVars, C!callVars, callVars,
         C!inputVars, inputVars, C!netVars, netVars
<1> QED
  BY <1>1, ClientAssumed, C!NextInv

-----------------------------------------------------------------------------
(* The invariant of an endpoint *)

LEMMA BInitInv == BInit => BInv
<1> SUFFICES ASSUME BInit PROVE BInv
  OBVIOUS
<1>1. ClientMutex = NoOne
  BY MutexFacts DEF BInit, Init
<1>2. C!Init
  BY <1>1, SameSets DEF BInit, Init, C!Init, C!NoResp, NoResp
<1>3. C!IInv
  BY <1>2, ClientAssumed, C!InitInv
<1>4. Active = {}
  BY DEF BInit, Active
<1>5. CountInv
  BY <1>4, FS_EmptySet DEF CountInv, BInit
<1>6. BTypeOK
  BY DEF BInit, Init, BTypeOK, Methods
<1>7. LockInv /\ AnsweredInv /\ EndInv
  BY DEF BInit, Init, LockInv, AnsweredInv, EndInv
<1> QED
  BY <1>3, <1>5, <1>6, <1>7 DEF BInv

(* A caller passes reqMutex to nobody or another caller.                   *)
LEMMA CallerMutex ==
  ASSUME BInv, NEW t \in Callers,
         Go(t) \/ Refuse(t) \/ Register(t) \/ Write(t) \/ Step(t) \/ ContextEnds(t)
  PROVE  /\ UNCHANGED <<inputVars, shutdown>>
         /\ \/ reqMutex' = reqMutex
            \/ {reqMutex, reqMutex'} \subseteq Callers \cup {NoOne}
<1>1. pc[t] \in Sending => reqMutex = t
  BY MutexFacts, SameSets DEF BInv, C!IInv, C!MutexInv
<1>2. CASE Go(t) \/ Refuse(t) \/ Register(t) \/ ContextEnds(t)
  BY <1>2 DEF Go, Refuse, Register, ContextEnds, LockReq, clientVars
<1>3. CASE Write(t) \/ Step(t)
  BY <1>1, <1>3 DEF Step, Write, WriteRequest, Wrote, WriteFailed, Receive, SelectCtx, CancelPending,
                    clientVars, Sending
<1> QED
  BY <1>2, <1>3

(* What steps of the client preserve of the endpoint's own invariant.      *)
LEMMA ClientStepInv ==
  ASSUME BInv, UNCHANGED <<hpc, ctxVars, bpc, wg, answered, disconnect>>,
         wasClosing' \in BOOLEAN, userClose' \in {"no", "closing", "closed"},
         UNCHANGED <<server, callback>>,
         \/ reqMutex' = reqMutex
         \/ {reqMutex, reqMutex'} \subseteq Callers \cup {NoOne},
         ipc' = ipc \/ (ipc # "stopped" /\ (ipc = "header" => bpc = "none"))
  PROVE  BTypeOK' /\ LockInv' /\ CountInv' /\ AnsweredInv' /\ EndInv'
<1> USE DEF BInv
<1>1. Active' = Active
  BY DEF Active
<1>2. BTypeOK'
  BY DEF BTypeOK, ctxVars
<1>3. LockInv'
  BY BirpcAssumption DEF LockInv
<1>4. CountInv' /\ AnsweredInv'
  BY <1>1 DEF CountInv, AnsweredInv
<1>5. EndInv'
  BY <1>1 DEF EndInv
<1> QED
  BY <1>2, <1>3, <1>4, <1>5

LEMMA CallerStepInv == ASSUME BInv, NEW t \in Callers, CallerStep(t) PROVE BInv'
<1>1. C!IInv'
  BY CallerIsClient, ClientAssumed, C!NextInv DEF CallerStep, BInv
<1>2. BTypeOK' /\ LockInv' /\ CountInv' /\ AnsweredInv' /\ EndInv'
  BY CallerMutex, ClientStepInv DEF CallerStep, birpcVars, endVars, inputVars, BInv, BTypeOK
<1> QED
  BY <1>1, <1>2 DEF BInv

LEMMA InputStepInv ==
  ASSUME BInv, SetClosing \/ ReadResponse \/ ReadFails \/ TerminatePending \/ DrainPending
  PROVE  BInv'
<1>1. C!IInv'
  BY InputIsClient, ClientAssumed, C!NextInv DEF BInv
<1>2. /\ UNCHANGED <<hpc, ctxVars, bpc, wg, answered, disconnect, server, callback>>
      /\ wasClosing' \in BOOLEAN /\ userClose' \in {"no", "closing", "closed"}
      /\ reqMutex' = reqMutex
  BY DEF SetClosing, ReadResponse, ReadFails, TerminatePending, DrainPending, birpcVars, endVars,
         Close, ReadResponseHeader, ReadResponseBody, HeaderFails, Terminate, Drain, clientVars,
         BInv, BTypeOK, C!IInv, C!TypeOK
<1>3. ipc' = ipc \/ (ipc # "stopped" /\ (ipc = "header" => bpc = "none"))
  BY DEF SetClosing, ReadResponse, ReadFails, TerminatePending, DrainPending, Close,
         ReadResponseHeader, ReadResponseBody, HeaderFails, Terminate, Drain, inputVars
<1> QED
  BY <1>1, <1>2, <1>3, ClientStepInv DEF BInv

(* The steps of a handler.                                                 *)
LEMMA SpawnInv ==
  ASSUME BInv, NEW h \in Handlers, NEW m \in Methods, Spawn(h, m) PROVE BInv'
<1> USE DEF BInv
<1>0. /\ bpc = "none" /\ ipc = "header" /\ hpc[h] = "none" /\ wg' = wg + 1
      /\ hpc' = [hpc EXCEPT ![h] = "run"] /\ op' = [op EXCEPT ![h] = m]
      /\ UNCHANGED <<vars, hctx, bpc, answered, endVars>>
  BY DEF Spawn, Added, HGoto
<1>1. C!IInv'
  BY <1>0, UnseenInv DEF vars, nonMutexVars, clientVars
<1>2. Active' = Active \cup {h} /\ h \notin Active
  BY <1>0 DEF Active, BTypeOK
<1>3. CountInv'
  BY <1>0, <1>2, FS_AddElement, FS_CardinalityType DEF CountInv
<1>4. BTypeOK'
  BY <1>0 DEF BTypeOK, vars, clientVars, endVars
<1>5. LockInv' /\ AnsweredInv'
  BY <1>0 DEF LockInv, AnsweredInv, BTypeOK, vars, clientVars
<1>6. EndInv'
  BY <1>0 DEF EndInv, vars, inputVars, endVars
<1> QED
  BY <1>1, <1>3, <1>4, <1>5, <1>6

LEMMA BadRequestInv == ASSUME BInv, NEW h \in Handlers, BadRequest(h) PROVE BInv'
<1> USE DEF BInv
<1>0. /\ bpc = "none" /\ ipc = "header" /\ hpc[h] = "none" /\ bpc' = "reject"
      /\ hpc' = [hpc EXCEPT ![h] = "rejected"]
      /\ UNCHANGED <<vars, op, hctx, wg, answered, endVars>>
  BY DEF BadRequest, HGoto, ctxVars
<1>1. C!IInv'
  BY <1>0, UnseenInv DEF vars, nonMutexVars, clientVars
<1>2. Active' = Active
  BY <1>0 DEF Active, BTypeOK
<1>3. BTypeOK'
  BY <1>0 DEF BTypeOK, vars, clientVars, endVars
<1>4. LockInv' /\ AnsweredInv' /\ CountInv'
  BY <1>0, <1>2 DEF LockInv, AnsweredInv, CountInv, BTypeOK, vars, clientVars
<1>5. EndInv'
  BY <1>0 DEF EndInv, vars, inputVars, endVars
<1> QED
  BY <1>1, <1>3, <1>4, <1>5

(* Steps of a handler that the WaitGroup does not notice.                  *)
LEMMA HandlerInv ==
  ASSUME BInv, NEW h \in Handlers,
         Return(h) \/ CancelMethod(h) \/ HLocks(h) \/ WriteResponse(h)
  PROVE  BInv'
<1> USE DEF BInv
<1>0. /\ UNCHANGED <<nonMutexVars, bpc, wg, endVars>>
      /\ reqMutex' \in {reqMutex, h, NoOne} /\ answered' \in {answered, answered \cup {h}}
      /\ UNCHANGED op /\ hctx' \subseteq Handlers
  BY DEF BTypeOK, ctxVars, Return, CancelMethod, HLocks, WriteResponse, vars, nonMutexVars, clientVars
<1>1. \/ hpc[h] = "run" /\ hpc' = [hpc EXCEPT ![h] = "lock"] /\ reqMutex' = reqMutex
      \/ hpc[h] = "lock" /\ hpc' = [hpc EXCEPT ![h] = "write"]
         /\ reqMutex = NoOne /\ reqMutex' = h
      \/ hpc[h] = "write" /\ hpc' = [hpc EXCEPT ![h] = "wrote"]
         /\ reqMutex = h /\ reqMutex' = NoOne /\ h \in answered'
  BY DEF Return, CancelMethod, HLocks, SendingFree, WriteResponse, HGoto, LockInv, vars,
         clientVars
<1>2. C!IInv'
  BY <1>0, <1>1, UnseenInv, BirpcAssumption, ClientAssumption
<1>3. Active' = Active
  BY <1>1 DEF Active, BTypeOK
<1>4. BTypeOK'
  BY <1>0, <1>1 DEF BTypeOK, endVars
<1>5. LockInv'
  BY <1>0, <1>1, BirpcAssumption DEF LockInv, BTypeOK
<1>6. AnsweredInv' /\ CountInv'
  BY <1>0, <1>1, <1>3 DEF AnsweredInv, CountInv, BTypeOK
<1>7. EndInv'
  BY <1>0, <1>3 DEF EndInv, nonMutexVars, inputVars, endVars
<1> QED
  BY <1>2, <1>4, <1>5, <1>6, <1>7

LEMMA WgDoneInv == ASSUME BInv, NEW h \in Handlers, WgDone(h) PROVE BInv'
<1> USE DEF BInv
<1>0. /\ hpc[h] = "wrote" /\ wg' = wg - 1 /\ hpc' = [hpc EXCEPT ![h] = "done"]
      /\ UNCHANGED <<vars, op, hctx, bpc, answered, endVars>>
  BY DEF WgDone, HGoto, ctxVars
<1>1. C!IInv'
  BY <1>0, UnseenInv DEF vars, nonMutexVars, clientVars
<1>2. Active' = Active \ {h} /\ h \in Active
  BY <1>0 DEF Active, BTypeOK
<1>3. CountInv' /\ wg' \in Nat
  <2>1. Cardinality(Active) \in Nat /\ Cardinality(Active) # 0
    BY <1>2, FS_CardinalityType, FS_EmptySet DEF CountInv
  <2>2. IsFiniteSet(Active') /\ Cardinality(Active') = Cardinality(Active) - 1
    BY <1>2, FS_RemoveElement DEF CountInv
  <2> QED
    BY <1>0, <2>1, <2>2 DEF CountInv
<1>4. BTypeOK'
  BY <1>0, <1>3 DEF BTypeOK, vars, clientVars, endVars
<1>5. LockInv' /\ AnsweredInv'
  BY <1>0 DEF LockInv, AnsweredInv, BTypeOK, vars, clientVars
<1>6. EndInv'
  BY <1>0, <1>2 DEF EndInv, vars, inputVars, endVars
<1> QED
  BY <1>1, <1>3, <1>4, <1>5, <1>6

(* input rejects a request.                                                *)
LEMMA RejectInv == ASSUME BInv, RejectLocks \/ RejectWrites PROVE BInv'
<1> USE DEF BInv
<1>0. /\ UNCHANGED <<nonMutexVars, hpc, op, hctx, wg, endVars>>
      /\ \/ /\ bpc = "reject" /\ bpc' = "rejecting" /\ UNCHANGED answered
            /\ reqMutex = NoOne /\ reqMutex' = Input
         \/ /\ bpc = "rejecting" /\ bpc' = "none"
            /\ answered' = answered \cup {h \in Handlers : hpc[h] = "rejected"}
            /\ reqMutex = Input /\ reqMutex' = NoOne
  BY DEF RejectLocks, RejectWrites, LockInv, ctxVars
<1>1. C!IInv'
  BY <1>0, UnseenInv, BirpcAssumption, ClientAssumption
<1>2. Active' = Active
  BY <1>0 DEF Active
<1>3. BTypeOK'
  BY <1>0 DEF BTypeOK, endVars
<1>4. LockInv' /\ CountInv'
  BY <1>0, <1>2, BirpcAssumption DEF LockInv, CountInv
<1>5. AnsweredInv' /\ EndInv'
  BY <1>0, <1>2 DEF AnsweredInv, EndInv, nonMutexVars, inputVars, endVars
<1> QED
  BY <1>1, <1>3, <1>4, <1>5

(* The stages of input and ServeCodec that touch neither the client's      *)
(* variables (but for the codec) nor the handlers.                         *)
LEMMA StageInv ==
  ASSUME BInv, C!IInv', UNCHANGED <<hpc, wg, answered, reqMutex, ipc, disconnect>>,
         BTypeOK',
         \/ bpc' = bpc
         \/ bpc \in {"connect", "published"} /\ bpc' \in {"published", "none"} /\ ipc = "header"
         \/ {bpc, bpc'} \subseteq {"close", "publish", "defer", "end"}
  PROVE  BInv'
<1> USE DEF BInv
<1>1. Active' = Active
  BY DEF Active
<1>2. LockInv' /\ CountInv'
  BY <1>1 DEF LockInv, CountInv
<1>3. AnsweredInv' /\ EndInv'
  BY <1>1 DEF AnsweredInv, EndInv
<1> QED
  BY <1>2, <1>3

LEMMA ClosesInv == ASSUME BInv, UserCloses \/ InputCloses \/ DeferredClose PROVE BInv'
<1>1. C!IInv'
  BY CloseConnInv DEF BInv, UserCloses, InputCloses, DeferredClose
<1>2. /\ UNCHANGED <<hpc, op, hctx, wg, answered, reqMutex, ipc, disconnect, wasClosing, server, callback>>
      /\ userClose' \in {"no", "closing", "closed"}
      /\ bpc' = bpc \/ {bpc, bpc'} \subseteq {"close", "publish", "defer", "end"}
  BY DEF UserCloses, InputCloses, DeferredClose, CloseConn, clientVars, inputVars, endVars,
         AfterInput, BInv, BTypeOK, ctxVars
<1>3. BTypeOK'
  BY <1>2 DEF BInv, BTypeOK
<1> QED
  BY <1>1, <1>2, <1>3, StageInv

LEMMA EventInv ==
  ASSUME BInv, \/ Publish \/ PublishConnection \/ StartInput
               \/ \E e \in Events : CallbackReturns(e)
               \/ UNCHANGED bvars
  PROVE  BInv'
<1>1. /\ UNCHANGED <<vars, hpc, op, hctx, wg, answered, disconnect, wasClosing, userClose,
                     server>>
      /\ \/ bpc' = bpc
         \/ bpc \in {"connect", "published"} /\ bpc' \in {"published", "none"}
         \/ bpc = "publish" /\ bpc' = "defer"
      /\ callback' \in [Events -> {"none", "run", "done"}]
  BY DEF Publish, PublishConnection, StartInput, CallbackReturns, Publishes, endVars, bvars,
         birpcVars, ctxVars, Events, BInv, BTypeOK
<1>2. C!IInv'
  BY <1>1, UnseenInv DEF vars, nonMutexVars, clientVars, BInv
<1>3. BTypeOK'
  BY <1>1 DEF BInv, BTypeOK, vars, clientVars
<1>4. bpc \in {"connect", "published"} => ipc = "header"
  BY DEF BInv, EndInv
<1> QED
  BY <1>1, <1>2, <1>3, <1>4, StageInv DEF vars, clientVars, inputVars

(* wg.Wait() has returned: no handler is left.                             *)
LEMMA CloseDisconnectInv == ASSUME BInv, CloseDisconnect PROVE BInv'
<1> USE DEF BInv
<1>0. /\ ipc = "stopped" /\ bpc = "none" /\ wg = 0 /\ disconnect'
      /\ bpc' \in {"close", "publish", "end"}
      /\ UNCHANGED <<vars, hpc, op, hctx, wg, answered, wasClosing, userClose, server,
                     callback>>
      /\ disconnect' \in BOOLEAN
  BY DEF CloseDisconnect, AllDone, AfterInput, ctxVars
<1>1. C!IInv'
  BY <1>0, UnseenInv DEF vars, nonMutexVars, clientVars
<1>2. Active' = {} /\ Active = {}
  BY <1>0, FS_EmptySet DEF CountInv, Active
<1>3. BTypeOK'
  BY <1>0 DEF BTypeOK, vars, clientVars
<1>4. LockInv' /\ CountInv' /\ AnsweredInv'
  BY <1>0, <1>2 DEF LockInv, CountInv, AnsweredInv, vars, clientVars
<1>5. EndInv'
  BY <1>0, <1>2 DEF EndInv, vars, inputVars
<1> QED
  BY <1>1, <1>3, <1>4, <1>5

LEMMA BNextInv == BInv /\ [BNext]_bvars => BInv'
<1> SUFFICES ASSUME BInv, [BNext]_bvars PROVE BInv'
  OBVIOUS
<1>1. ASSUME NEW t \in Callers, CallerStep(t) PROVE BInv'
  BY <1>1, CallerStepInv
<1>2. CASE SetClosing \/ ReadResponse \/ ReadFails \/ TerminatePending \/ DrainPending
  BY <1>2, InputStepInv
<1>0. ASSUME NEW h \in Handlers, NEW m \in Methods, Spawn(h, m) PROVE BInv'
  BY <1>0, SpawnInv
<1>3. ASSUME NEW h \in Handlers,
             BadRequest(h) \/ HLocks(h) \/ WriteResponse(h) \/ HStep(h)
      PROVE  BInv'
  BY <1>3, BadRequestInv, HandlerInv, WgDoneInv DEF HStep
<1>4. CASE RejectLocks \/ RejectWrites
  BY <1>4, RejectInv
<1>5. CASE UserCloses \/ InputEnds
  BY <1>5, ClosesInv, EventInv, CloseDisconnectInv DEF InputEnds
<1>6. CASE \/ PublishConnection \/ StartInput \/ \E e \in Events : CallbackReturns(e)
           \/ UNCHANGED bvars
  BY <1>6, EventInv
<1> QED
  BY <1>0, <1>1, <1>2, <1>3, <1>4, <1>5, <1>6 DEF BNext, BFinished

(* Every reachable state of an endpoint satisfies the invariant.           *)
THEOREM EndpointInvariance == BSpec => []BInv
BY BInitInv, BNextInv, PTL DEF BSpec

-----------------------------------------------------------------------------
(* What follows from it *)

(* The endpoint's variables keep their types, and the WaitGroup does not   *)
(* go below zero.                                                          *)
THEOREM EndpointTypeCorrect == BSpec => []BTypeOK
BY EndpointInvariance, PTL DEF BInv

(* Callers, handlers and input never write at the same time.               *)
THEOREM WritersExclude == BSpec => []OneWriter
<1>1. BInv => OneWriter
  <2> SUFFICES ASSUME BInv, NEW x \in Writers PROVE x = reqMutex
    BY DEF OneWriter
  <2>1. \A t \in Callers : pc[t] \in Sending => reqMutex = t
    BY MutexFacts, SameSets DEF BInv, C!IInv, C!MutexInv
  <2> QED
    BY <2>1 DEF BInv, LockInv, Writers
<1> QED
  BY <1>1, EndpointInvariance, PTL

LEMMA NoLostCallInv == BInv => NoLostCall
<1> SUFFICES ASSUME BInv PROVE NoLostCall
  OBVIOUS
<1>1. C!NoLostCall
  BY DEF BInv, C!IInv, C!NoLostCall, C!ReachInv, C!Reachable, C!FreshInv, C!Sending
<1> QED
  BY <1>1, SameSets, SameMaps DEF C!NoLostCall, NoLostCall

(* No caller of a bidirectional endpoint waits for a completion that       *)
(* cannot come, although handlers and input contend for reqMutex.          *)
THEOREM EndpointLosesNoCall == BSpec => []NoLostCall
BY NoLostCallInv, EndpointInvariance, PTL

(* A call over a bidirectional connection completes at most once, and      *)
(* input, which reads requests in between, gives a response only to the    *)
(* call whose request it answers.                                          *)
THEOREM EndpointCompletesOnce == BSpec => [](CompletedOnce /\ ReplyToItsCall)
<1>1. BInv => CompletedOnce /\ ReplyToItsCall
  BY SameSets DEF BInv, C!IInv, C!CompletedOnce, CompletedOnce, C!ReplyToItsCall, ReplyToItsCall
<1> QED
  BY <1>1, EndpointInvariance, PTL

(* When the disconnect channel is closed all is over: handlers have        *)
(* answered, callers have their completion and nobody writes.              *)
THEOREM DisconnectComesLast == BSpec => []DisconnectIsFinal
<1>1. BInv => DisconnectIsFinal
  <2> SUFFICES ASSUME BInv, disconnect PROVE DisconnectIsFinal
    BY DEF DisconnectIsFinal
  <2>1. ipc = "stopped" /\ Active = {} /\ bpc \in {"close", "publish", "defer", "end"}
    BY DEF BInv, EndInv
  <2>2. \A h \in Handlers : /\ hpc[h] \in {"none", "done", "rejected"}
                            /\ hpc[h] # "none" => h \in answered
    BY <2>1 DEF BInv, BTypeOK, AnsweredInv, Active
  <2>3. shutdown /\ doomed = {} /\ ClientMutex = NoOne
    BY <2>1 DEF BInv, C!IInv, C!InputInv
  <2>4. \A t \in Callers : pc[t] \in {"wait", "sent"} => Main(t) \in inChan \cup discarded
    BY <2>3, NoLostCallInv DEF NoLostCall
  <2>5. \A t \in Callers : pc[t] \notin Sending
    BY <2>3, SameSets, ClientAssumption DEF BInv, C!IInv, C!MutexInv
  <2> QED
    BY <2>2, <2>4, <2>5 DEF DisconnectIsFinal
<1> QED
  BY <1>1, EndpointInvariance, PTL
-----------------------------------------------------------------------------
(* An endpoint implements RpcCalls *)

(* Every step is one of the client, or closes the codec.                   *)
LEMMA ClientView ==
  ASSUME BInv, [BNext]_bvars
  PROVE  [C!Next]_(C!vars) \/ CloseConn
<1>1. ASSUME NEW t \in Callers, CallerStep(t) PROVE C!Next
  BY <1>1, CallerIsClient DEF CallerStep
<1>2. CASE SetClosing \/ ReadResponse \/ ReadFails \/ TerminatePending \/ DrainPending
  BY <1>2, InputIsClient
<1>3. CASE UserCloses \/ InputCloses \/ DeferredClose
  BY <1>3 DEF UserCloses, InputCloses, DeferredClose
<1>4. ASSUME UNCHANGED nonMutexVars,
             reqMutex' = reqMutex \/ {reqMutex, reqMutex'} \cap Callers = {}
      PROVE  UNCHANGED C!vars
  BY <1>4, MutexUnseen
     DEF nonMutexVars, C!vars, C!callerVars, callerVars, C!clientVars, C!callVars, callVars,
         C!inputVars, inputVars, C!netVars, netVars
<1>5. ASSUME NEW h \in Handlers, HLocks(h) \/ WriteResponse(h) PROVE UNCHANGED C!vars
  <2>1. UNCHANGED nonMutexVars /\ {reqMutex, reqMutex'} \subseteq {h, NoOne}
    BY <1>5 DEF HLocks, SendingFree, WriteResponse, BInv, LockInv
  <2> QED
    BY <1>4, <2>1, BirpcAssumption, ClientAssumption
<1>6. CASE RejectLocks \/ RejectWrites
  <2>1. UNCHANGED nonMutexVars /\ {reqMutex, reqMutex'} \subseteq {Input, NoOne}
    BY <1>6 DEF RejectLocks, RejectWrites, BInv, LockInv
  <2> QED
    BY <1>4, <2>1, BirpcAssumption, ClientAssumption
<1>7. ASSUME UNCHANGED vars PROVE UNCHANGED C!vars
  BY <1>4, <1>7 DEF vars, nonMutexVars, clientVars
<1>8. CASE \/ \E h \in Handlers, m \in Methods : Spawn(h, m)
           \/ \E h \in Handlers : BadRequest(h) \/ Return(h) \/ CancelMethod(h) \/ WgDone(h)
           \/ PublishConnection \/ StartInput \/ \E e \in Events : CallbackReturns(e)
           \/ CloseDisconnect \/ Publish \/ UNCHANGED bvars
  BY <1>7, <1>8 DEF Spawn, BadRequest, Return, CancelMethod, WgDone, PublishConnection, StartInput,
                    CallbackReturns, CloseDisconnect, Publish, bvars
<1> QED
  BY <1>1, <1>2, <1>3, <1>5, <1>6, <1>8 DEF BNext, HStep, InputEnds, BFinished

LEMMA CauseStep ==
  ASSUME BInv, C!CauseInv, [BNext]_bvars
  PROVE  C!CauseInv'
<1>1. CASE [C!Next]_(C!vars)
  BY <1>1, ClientAssumed, C!CauseNext DEF BInv
<1>2. CASE CloseConn
  BY <1>2 DEF CloseConn, C!CauseInv, callerVars, clientVars, callVars
<1> QED
  BY <1>1, <1>2, ClientView

(* What the users see does not depend on reqMutex.                         *)
LEMMA SamePromise ==
  /\ C!Promise!Init <=> Promise!Init
  /\ C!Promise!Next <=> Promise!Next
  /\ UNCHANGED C!Promise!vars <=> UNCHANGED Promise!vars
<1> USE DEF C!Phase, Phase, C!Told, Told, C!Callers, Callers, C!Main, Main,
            C!Promise!Callers, Promise!Callers
<1>1. C!Promise!Init <=> Promise!Init
  BY DEF C!Promise!Init, Promise!Init
<1>2. UNCHANGED C!Promise!vars <=> UNCHANGED Promise!vars
  BY DEF C!Promise!vars, Promise!vars
<1>3. ASSUME NEW t
      PROVE  /\ C!Promise!Invoke(t) <=> Promise!Invoke(t)
             /\ C!Promise!Decode(t) <=> Promise!Decode(t)
             /\ C!Promise!Expire(t) <=> Promise!Expire(t)
  BY DEF C!Promise!Invoke, Promise!Invoke, C!Promise!Decode, Promise!Decode, C!Promise!Expire,
         Promise!Expire
<1>4. ASSUME NEW t, NEW r PROVE C!Promise!Return(t, r) <=> Promise!Return(t, r)
  BY DEF C!Promise!Return, Promise!Return, C!Promise!Cause, Promise!Cause
<1>5. (C!Promise!Close <=> Promise!Close) /\ (C!Promise!End <=> Promise!End)
  BY DEF C!Promise!Close, Promise!Close, C!Promise!End, Promise!End
<1>6. C!Promise!Next <=> Promise!Next
  BY <1>3, <1>4, <1>5 DEF C!Promise!Next, Promise!Next, C!Promise!Outcomes, Promise!Outcomes
<1> QED
  BY <1>1, <1>2, <1>6

LEMMA PromiseStep ==
  ASSUME BInv, C!CauseInv, [BNext]_bvars
  PROVE  [Promise!Next]_(Promise!vars)
<1>1. CASE [C!Next]_(C!vars)
  <2>1. [C!Promise!Next]_(C!Promise!vars)
    BY <1>1, ClientAssumed, C!PromiseNext DEF BInv
  <2> QED
    BY <2>1, SamePromise
<1>2. CASE CloseConn
  <2>1. UNCHANGED Promise!vars
    BY <1>2 DEF CloseConn, callerVars, clientVars, callVars, Promise!vars, Phase, Told
  <2> QED
    BY <2>1
<1> QED
  BY <1>1, <1>2, ClientView

(* The goroutines of a bidirectional endpoint, handlers and callbacks that *)
(* call over the same connection included, keep to those who call what a   *)
(* client promises, for any numbers of callers and handlers.               *)
THEOREM EndpointKeepsPromise == BSpec => KeepsPromise
<1>1. BInit => C!Init
  <2>1. BInit => ClientMutex = NoOne
    BY MutexFacts DEF BInit, Init
  <2> QED
    BY <2>1, SameSets DEF BInit, Init, C!Init, C!NoResp, NoResp
<1>2. BInit => C!CauseInv /\ Promise!Init
  BY <1>1, ClientAssumed, C!CauseInit, C!PromiseInit, SamePromise
<1>3. BInv /\ C!CauseInv /\ [BNext]_bvars => C!CauseInv'
  BY CauseStep
<1>4. BInv /\ C!CauseInv /\ [BNext]_bvars => [Promise!Next]_(Promise!vars)
  BY PromiseStep
<1> QED
  BY <1>2, <1>3, <1>4, EndpointInvariance, PTL DEF BSpec, KeepsPromise, Promise!Spec
=============================================================================
