----------------------------- MODULE BirpcClient -----------------------------
(***************************************************************************)
(* A bidirectional endpoint: BirpcClient, and BirpcServer.ServeCodec which *)
(* runs one for a connection it accepted.  The endpoint is an RpcClient    *)
(* whose input goroutine also reads requests, starts a goroutine for each  *)
(* and, when the connection ends, waits for these goroutines.  Requests    *)
(* and responses are written under the same mutex, reqMutex.  A method may *)
(* call back over the connection it was called on (ctx.Client): what it    *)
(* does then is what a caller of RpcClient does; so may the functions that *)
(* a server has registered with OnConnect and OnDisconnect.  A method may  *)
(* wait for its context, which only a _goRPC_.Cancel ends in time: the     *)
(* cancel() that input defers runs after wg.Wait, when no method is left.  *)
(* The free lists and the map svc.Pending are RpcServer's, left out here.  *)
(***************************************************************************)
EXTENDS RpcClient

CONSTANTS
  Handlers,  \* the requests the other end sends, and the goroutines that handle them
  Nestings,  \* functions from callers to the handler or the callback they are run by
  Input      \* the input goroutine, as a holder of reqMutex

(* "quick" returns by itself or when the calls it makes have returned,     *)
(* "wait" returns when its context ends, "cancel" is _goRPC_.Cancel.       *)
Methods == {"quick", "wait", "cancel"}

(* The functions registered with OnConnect and OnDisconnect.               *)
Events == {"OnConnect", "OnDisconnect"}

ASSUME BirpcAssumption ==
  /\ Handlers \cap Callers = {} /\ Input \notin Handlers \cup Callers \cup {NoOne}
  /\ NoOne \notin Handlers
  /\ \A f \in Nestings : DOMAIN f \subseteq Calls /\ Range(f) \subseteq Handlers \cup Events

VARIABLES
  hpc,        \* where each handler goroutine is
  op,         \* op[h]: what its method does, see Methods
  hctx,       \* handlers whose context has been cancelled
  bpc,        \* where input is when it does not do what RpcClient's input does
  wg,         \* the WaitGroup
  answered,   \* handlers whose WriteResponse has been called, with or without success
  disconnect, \* the channel disconnect is closed
  wasClosing, \* input's copy of closing, taken when it terminates the pending calls
  userClose,  \* Close: not called, flag set, codec closed
  server,     \* c.server: the endpoint is run by BirpcServer.ServeCodec
  callback,   \* callback[e]: the goroutine of a registered function: "none", "run", "done"
  nested      \* the nesting of the callers

endVars == <<disconnect, wasClosing, userClose, server, callback, nested>>
ctxVars == <<op, hctx>>
birpcVars == <<hpc, ctxVars, bpc, wg, answered, endVars>>
bvars == <<vars, birpcVars>>

(* The variables of RpcClient but reqMutex.                                *)
nonMutexVars == <<callerVars, request, seq, pending, closing, shutdown, callVars, inputVars,
                  netVars>>

BInit ==
  /\ Init
  /\ server \in BOOLEAN /\ bpc = IF server THEN "connect" ELSE "none"
  /\ hpc = [h \in Handlers |-> "none"] /\ op = [h \in Handlers |-> "quick"] /\ hctx = {}
  /\ wg = 0 /\ answered = {} /\ disconnect = FALSE /\ wasClosing = FALSE
  /\ userClose = "no"
  /\ callback = [e \in Events |-> "none"]
  /\ nested \in {f \in Nestings : server \/ Range(f) \subseteq Handlers}

HGoto(h, label) == hpc' = [hpc EXCEPT ![h] = label]

-----------------------------------------------------------------------------
(* Callers and Close *)

(* A method, or a callback, calls while it runs.                           *)
Runs(x) == IF x \in Events THEN callback[x] = "run" ELSE hpc[x] = "run" /\ op[x] # "cancel"
CallsDone(x) == \A t \in DOMAIN nested : nested[t] = x => pc[t] \in {"idle", "returned"}
CallerStep(t) ==
  /\ Go(t) \/ Refuse(t) \/ Register(t) \/ Write(t) \/ Step(t) \/ ContextEnds(t)
  /\ (t \in DOMAIN nested /\ pc[t] = "idle") => Runs(nested[t])
  /\ UNCHANGED birpcVars

SetClosing ==
  /\ Close /\ bpc # "connect"
  /\ userClose' = "closing"
  /\ UNCHANGED <<hpc, ctxVars, bpc, wg, answered, disconnect, wasClosing, server, callback, nested>>

(* wc.Close(), by Close or by input.                                       *)
CloseConn ==
  /\ codecOpen' = FALSE
  /\ UNCHANGED <<callerVars, clientVars, callVars, inputVars, wire>>

UserCloses ==
  /\ userClose = "closing"
  /\ CloseConn /\ userClose' = "closed"
  /\ UNCHANGED <<hpc, ctxVars, bpc, wg, answered, disconnect, wasClosing, server, callback, nested>>

-----------------------------------------------------------------------------
(* The events of a server *)

(* eventHub.Publish: the subscriber starts a goroutine for the function.   *)
Publishes(e) == callback' = [callback EXCEPT ![e] = "run"]

CallbackReturns(e) ==
  /\ callback[e] = "run" /\ CallsDone(e)
  /\ callback' = [callback EXCEPT ![e] = "done"]
  /\ UNCHANGED <<vars, hpc, ctxVars, bpc, wg, answered, disconnect, wasClosing, userClose,
                 server, nested>>

(* ServeCodec publishes the connection and, as Publish does not wait for   *)
(* the function, goes on to input.                                         *)
Detached_Mut == callback["OnConnect"] = "done"
Detached == TRUE

PublishConnection ==
  /\ bpc = "connect"
  /\ Publishes("OnConnect") /\ bpc' = "published"
  /\ UNCHANGED <<vars, hpc, ctxVars, wg, answered, disconnect, wasClosing, userClose, server,
                 nested>>

StartInput ==
  /\ bpc = "published" /\ Detached
  /\ bpc' = "none"
  /\ UNCHANGED <<vars, hpc, ctxVars, wg, answered, endVars>>

-----------------------------------------------------------------------------
(* input *)

(* ReadHeader gives a request for a known method with a good body.         *)
Added_Mut == wg
Added == wg + 1
Spawn(h, m) ==
  /\ bpc = "none" /\ ipc = "header" /\ hpc[h] = "none"
  /\ wg' = Added
  /\ HGoto(h, "run") /\ op' = [op EXCEPT ![h] = m]
  /\ UNCHANGED <<vars, hctx, bpc, answered, endVars>>

(* readRequest fails: input itself sends the error, under reqMutex.        *)
BadRequest(h) ==
  /\ bpc = "none" /\ ipc = "header" /\ hpc[h] = "none"
  /\ bpc' = "reject" /\ HGoto(h, "rejected")
  /\ UNCHANGED <<vars, ctxVars, wg, answered, endVars>>

RejectLocks ==
  /\ bpc = "reject" /\ reqMutex = NoOne
  /\ reqMutex' = Input /\ bpc' = "rejecting"
  /\ UNCHANGED <<nonMutexVars, hpc, ctxVars, wg, answered, endVars>>

RejectWrites ==
  /\ bpc = "rejecting"
  /\ reqMutex' = NoOne /\ bpc' = "none"
  /\ answered' = answered \cup {h \in Handlers : hpc[h] = "rejected"}
  /\ UNCHANGED <<nonMutexVars, hpc, ctxVars, wg, endVars>>

(* readResponse, and the end of the loop: as in Client.input.              *)
ReadResponse ==
  /\ bpc = "none"
  /\ \/ \E m \in wire, failed \in BOOLEAN : ReadResponseHeader(m, failed)
     \/ \E e \in {"nil", "EOF", "other"} : ReadResponseBody(e)
  /\ UNCHANGED birpcVars

ReadFails ==
  /\ bpc = "none" /\ \E e \in {"EOF", "other"} : HeaderFails(e)
  /\ UNCHANGED birpcVars

(* Pending calls are terminated before the goroutines are waited for.      *)
MayTerminate_Mut == wg = 0
MayTerminate == TRUE
TerminatePending ==
  /\ Terminate /\ MayTerminate
  /\ wasClosing' = closing
  /\ UNCHANGED <<hpc, ctxVars, bpc, wg, answered, disconnect, userClose, server, callback, nested>>

DrainPending == (\E o \in doomed : Drain(o)) /\ UNCHANGED birpcVars

(* wg.Wait()                                                               *)
AllDone_Mut == TRUE
AllDone == wg = 0

(* What follows input in ServeCodec.                                       *)
AfterInput == IF server THEN "publish" ELSE "end"

(* wg.Wait() returns, and the channel is closed.                           *)
CloseDisconnect ==
  /\ ipc = "stopped" /\ bpc = "none" /\ AllDone
  /\ disconnect' = TRUE
  /\ bpc' = IF wasClosing THEN AfterInput ELSE "close"
  /\ UNCHANGED <<vars, hpc, ctxVars, wg, answered, wasClosing, userClose, server, callback, nested>>

(* c.codec.Close() at the end of input.                                    *)
InputCloses ==
  /\ bpc = "close"
  /\ CloseConn /\ bpc' = AfterInput
  /\ UNCHANGED <<hpc, ctxVars, wg, answered, endVars>>

(* ServeCodec publishes the event, and its deferred codec.Close() runs.    *)
Publish ==
  /\ bpc = "publish"
  /\ Publishes("OnDisconnect") /\ bpc' = "defer"
  /\ UNCHANGED <<vars, hpc, ctxVars, wg, answered, disconnect, wasClosing, userClose, server,
                 nested>>

DeferredClose ==
  /\ bpc = "defer"
  /\ CloseConn /\ bpc' = "end"
  /\ UNCHANGED <<hpc, ctxVars, wg, answered, endVars>>

-----------------------------------------------------------------------------
(* Handlers: Service.call *)

(* The method returns, once the calls it has made have, and not before its *)
(* context ends if it waits for that.                                      *)
Waits(h) == hpc[h] = "run" /\ op[h] = "wait" /\ h \notin hctx
Return(h) ==
  /\ hpc[h] = "run" /\ op[h] # "cancel"
  /\ CallsDone(h) /\ ~Waits(h)
  /\ HGoto(h, "lock")
  /\ UNCHANGED <<vars, ctxVars, bpc, wg, answered, endVars>>

(* GoRPC.Cancel finds the context of a running method, or nothing.         *)
CancelMethod(h) ==
  /\ hpc[h] = "run" /\ op[h] = "cancel"
  /\ \E S \in {{}} \cup {{g} : g \in {k \in Handlers : hpc[k] = "run"}} : hctx' = hctx \cup S
  /\ HGoto(h, "lock")
  /\ UNCHANGED <<vars, op, bpc, wg, answered, endVars>>

(* sending.Lock() in sendResponse: sending is reqMutex.                    *)
SendingFree_Mut == TRUE
SendingFree == reqMutex = NoOne /\ ipc # "draining"

(* sendResponse locks, and writes.                                         *)
HLocks(h) ==
  /\ hpc[h] = "lock" /\ SendingFree
  /\ reqMutex' = h /\ HGoto(h, "write")
  /\ UNCHANGED <<nonMutexVars, ctxVars, bpc, wg, answered, endVars>>

WriteResponse(h) ==
  /\ hpc[h] = "write"
  /\ answered' = answered \cup {h}
  /\ reqMutex' = NoOne /\ HGoto(h, "wrote")
  /\ UNCHANGED <<nonMutexVars, ctxVars, bpc, wg, endVars>>

(* wg.Done()                                                               *)
WgDone(h) ==
  /\ hpc[h] = "wrote"
  /\ wg' = wg - 1 /\ HGoto(h, "done")
  /\ UNCHANGED <<vars, ctxVars, bpc, answered, endVars>>

HStep(h) == Return(h) \/ CancelMethod(h) \/ WgDone(h)

-----------------------------------------------------------------------------
(* Everything has ended, or input waits for a method that waits for ever.  *)
BFinished ==
  /\ bpc = "end" \/ (ipc = "stopped" /\ bpc = "none" /\ \E h \in Handlers : Waits(h))
  /\ userClose = "closed" /\ \A e \in Events : callback[e] # "run"
  /\ \A t \in Callers :
       \/ t \in DOMAIN nested /\ pc[t] = "idle"
       \/ pc[t] = "returned" /\ t \in ctxDone \cup GoCalls
       \/ Main(t) \in discarded
  /\ UNCHANGED bvars

InputEnds == CloseDisconnect \/ InputCloses \/ Publish \/ DeferredClose

BNext ==
  \/ \E t \in Callers : CallerStep(t)
  \/ SetClosing \/ UserCloses
  \/ PublishConnection \/ StartInput \/ \E e \in Events : CallbackReturns(e)
  \/ \E h \in Handlers : BadRequest(h) \/ HLocks(h) \/ WriteResponse(h) \/ HStep(h)
  \/ \E h \in Handlers, m \in Methods : Spawn(h, m)
  \/ RejectLocks \/ RejectWrites \/ ReadResponse \/ ReadFails
  \/ TerminatePending \/ DrainPending \/ InputEnds
  \/ BFinished

(* As for RpcClient; handlers run, and input runs once the loop has ended. *)
(* A read or a write ends in the end once the connection is closed: before *)
(* that the other end may be silent, or may not read what it is sent.      *)
BFairness ==
  /\ \A t \in Callers :
       /\ SF_bvars((Refuse(t) \/ Register(t)) /\ UNCHANGED birpcVars)
       /\ WF_bvars(Step(t) /\ UNCHANGED birpcVars)
       /\ WF_bvars(~codecOpen /\ Write(t) /\ UNCHANGED birpcVars)
  /\ \A h \in Handlers : WF_bvars(HStep(h)) /\ SF_bvars(HLocks(h))
                          /\ WF_bvars(~codecOpen /\ WriteResponse(h))
  /\ WF_bvars(PublishConnection \/ StartInput) /\ \A e \in Events : WF_bvars(CallbackReturns(e))
  /\ WF_bvars(UserCloses) /\ SF_bvars(RejectLocks) /\ WF_bvars(~codecOpen /\ RejectWrites)
  /\ WF_bvars(~codecOpen /\ (ReadFails \/ (ipc = "body" /\ ReadResponse)))
  /\ SF_bvars(TerminatePending) /\ WF_bvars(DrainPending) /\ WF_bvars(InputEnds)

BSpec == BInit /\ [][BNext]_bvars /\ BFairness

-----------------------------------------------------------------------------
(* Properties *)

(* The variables of BirpcClient.input and its handlers have their types;   *)
(* the WaitGroup does not go below zero, at which Go panics.               *)
BTypeOK ==
  /\ hpc \in [Handlers -> {"none", "run", "rejected", "lock", "write", "wrote", "done"}]
  /\ op \in [Handlers -> Methods] /\ hctx \subseteq Handlers
  /\ bpc \in {"connect", "published", "none", "reject", "rejecting", "close", "publish", "defer", "end"}
  /\ reqMutex \in Callers \cup Handlers \cup {Input, NoOne}
  /\ wg \in Nat /\ answered \subseteq Handlers
  /\ disconnect \in BOOLEAN /\ wasClosing \in BOOLEAN
  /\ callback \in [Events -> {"none", "run", "done"}]
  /\ userClose \in {"no", "closing", "closed"} /\ server \in BOOLEAN

(* When the disconnect channel is closed every request that was accepted   *)
(* has had its response written and its goroutine is done, and no caller   *)
(* is writing or waits for a completion that cannot come.                  *)
DisconnectIsFinal ==
  disconnect =>
    /\ \A h \in Handlers : /\ hpc[h] \in {"none", "done", "rejected"}
                           /\ hpc[h] # "none" => h \in answered
    /\ \A t \in Callers : pc[t] \in {"wait", "sent"} => Main(t) \in inChan \cup discarded
    /\ \A t \in Callers : pc[t] \notin Sending

(* Requests and responses go through one encoder: at any time one caller,  *)
(* one handler or input itself writes, never two of them.                  *)
Writers ==
  {t \in Callers : pc[t] \in Sending} \cup {h \in Handlers : hpc[h] = "write"}
    \cup (IF bpc = "rejecting" THEN {Input} ELSE {})
OneWriter == \A x, y \in Writers : x = y

(* Each write at this end ends: the other end reads, or is known to be     *)
(* gone.  Without it a writer holds reqMutex and input cannot terminate.   *)
BWritesEnd ==
  /\ WritesEnd /\ []<>(bpc # "rejecting")
  /\ \A h \in Handlers : []<>(hpc[h] # "write")

(* The loop of input ends, then the disconnect channel is closed and a     *)
(* server publishes the disconnection, also when a method waits for the    *)
(* answer to a call it made itself: if writes end, and if no method waits  *)
(* for a cancellation that does not come.  The comment of DisconnectNotify *)
(* says "a channel that is closed when the client connection has gone      *)
(* away", but a method that waits for its context to learn that keeps the  *)
(* channel open: the context is cancelled after wg.Wait.                   *)
Disconnected == disconnect /\ (server => callback["OnDisconnect"] # "none")
DisconnectHappens ==
  (BWritesEnd /\ \A h \in Handlers : []<>~Waits(h)) => ((ipc = "final") ~> Disconnected)

(* A function registered with OnConnect may call over the connection and   *)
(* wait for the answer: input runs meanwhile, so it returns at the latest  *)
(* when the connection is closed.  One registered with OnDisconnect always *)
(* returns: its calls are refused.                                         *)
CallbacksReturn ==
  /\ (callback["OnConnect"] = "run" /\ userClose = "closed") ~> (callback["OnConnect"] = "done")
  /\ (callback["OnDisconnect"] = "run") ~> (callback["OnDisconnect"] = "done")
=============================================================================
