------------------------------ MODULE RpcServer ------------------------------
(***************************************************************************)
(* The server half of an RPC connection: Server.ServeCodec, the goroutine  *)
(* Service.call it starts for each request, the Request and Response       *)
(* objects they take from and put back on the free lists of basicServer,   *)
(* and the svc.Pending map through which _goRPC_.Cancel finds the context  *)
(* of a running call; and ServeRequestContext, called for one request      *)
(* after the other, which runs Service.call itself.                        *)
(*                                                                         *)
(* Goroutines: Reader, which runs ServeCodec or ServeRequestContext, and   *)
(* one per request, named by the request's position on the connection (a   *)
(* part of Reader with ServeRequestContext).  The sections that reqLock,   *)
(* respLock and Pending.mu protect do not block and are single actions;    *)
(* sending is held across WriteResponse and is a variable.                 *)
(***************************************************************************)
EXTENDS Naturals, Sequences, Functions

CONSTANTS
  MaxReq,  \* how many requests arrive on the connection
  Ops,     \* what they may ask for, see below
  Reader   \* the goroutine that runs ServeCodec or ServeRequestContext

(* "quick" a method that returns by itself, "wait" a method that returns   *)
(* when its context ends, "cancel" a call of _goRPC_.Cancel, "bad" a       *)
(* request for an unknown method or with an undecodable body.              *)
ASSUME ServerAssumption ==
  /\ MaxReq \in Nat
  /\ Ops \subseteq {"quick", "wait", "cancel", "bad"}
  /\ Reader \notin Nat

Handlers == 1 .. MaxReq
Procs == Handlers \cup {Reader}
NoOne == 0
NoHeader == [seq |-> 0, err |-> 0]

VARIABLES
  mode,      \* the Reader runs "ServeCodec" or "ServeRequestContext"
  pc,        \* where each goroutine is
  nread,     \* how many requests have been read
  asked,     \* asked[n]: the n-th request, <<operation, Seq to cancel>>
  outcome,   \* outcome[n]: how the n-th request ended: "ok", "err", or "blank" for
             \* an error whose text is empty
  req, resp, \* the Request and Response object each goroutine works on
  reqMem,    \* reqMem[i]: field Seq of the i-th Request object
  respMem,   \* respMem[i]: fields Seq and Error of the i-th Response object; a text
             \* is named by the request it belongs to, 0 is the empty one
  freeReq, freeResp,  \* the free lists, first object first
  pending,   \* svc.Pending.m: which goroutine's context a Seq cancels
  deferred,  \* the argument of the deferred pending.Cancel of each goroutine
  ctxDone,   \* goroutines whose context has been cancelled
  parentDone, \* the context they derive from has been cancelled
  sending,   \* holder of the mutex sending
  hdr,       \* the header WriteResponse has written and the body is missing for
  sent,      \* sent[n]: the responses written with Seq n
  broken,    \* a write has failed
  dropped,   \* history: requests whose reply could not be encoded
  wg,        \* the WaitGroup
  closed     \* codec.Close() has run

histVars == <<mode, nread, asked>>
objVars == <<req, resp, reqMem, respMem, freeReq, freeResp>>
ctxVars == <<pending, deferred, ctxDone, parentDone>>
outVars == <<sending, hdr, sent, broken, dropped>>
vars == <<pc, histVars, outcome, objVars, ctxVars, outVars, wg, closed>>

Init ==
  /\ mode \in {"ServeCodec", "ServeRequestContext"}
  /\ pc = [p \in Procs |-> IF p = Reader THEN "loop" ELSE "none"]
  /\ nread = 0
  /\ asked = [n \in Handlers |-> <<"none", 0>>]
  /\ outcome = [n \in Handlers |-> "none"]
  /\ req = [p \in Procs |-> 0] /\ resp = [p \in Procs |-> 0]
  /\ reqMem = <<>> /\ respMem = <<>> /\ freeReq = <<>> /\ freeResp = <<>>
  /\ pending = [s \in {} |-> Reader]
  /\ deferred = [n \in Handlers |-> 0]
  /\ ctxDone = {} /\ parentDone = FALSE
  /\ sending = NoOne /\ hdr = NoHeader
  /\ sent = [n \in Handlers |-> {}] /\ broken = FALSE /\ dropped = {}
  /\ wg = 0 /\ closed = FALSE

Goto(p, label) == pc' = [pc EXCEPT ![p] = label]
Concurrent == mode = "ServeCodec"

-----------------------------------------------------------------------------
(* svc.Pending *)

(* The context Start makes is cancelled already if its parent is.          *)
Inherited_Mut(n) == ctxDone
Inherited(n) == IF parentDone THEN ctxDone \cup {n} ELSE ctxDone

Start(n, s) ==
  /\ pending' = [k \in DOMAIN pending \cup {s} |-> IF k = s THEN n ELSE pending[k]]
  /\ ctxDone' = Inherited(n)

CancelSeq(s) ==
  /\ pending' = Restrict(pending, DOMAIN pending \ {s})
  /\ ctxDone' = IF s \in DOMAIN pending THEN ctxDone \cup {pending[s]} ELSE ctxDone

-----------------------------------------------------------------------------
(* ServeCodec and ServeRequestContext: readRequest *)

(* getRequest: the first free object, reset, or a new one.                 *)
GetRequest ==
  /\ pc[Reader] = "loop"
  /\ \/ /\ freeReq = <<>>
        /\ reqMem' = Append(reqMem, 0)
        /\ req' = [req EXCEPT ![Reader] = Len(reqMem')]
        /\ UNCHANGED freeReq
     \/ /\ freeReq # <<>>
        /\ freeReq' = Tail(freeReq)
        /\ reqMem' = [reqMem EXCEPT ![Head(freeReq)] = 0]
        /\ req' = [req EXCEPT ![Reader] = Head(freeReq)]
  /\ Goto(Reader, "header")
  /\ UNCHANGED <<histVars, outcome, resp, respMem, freeResp, ctxVars, outVars, wg, closed>>

(* The next header arrives; it carries the next sequence number, as the    *)
(* client sends them.  It is decoded into the Request object.              *)
Arrives(op, target) ==
  /\ pc[Reader] = "header" /\ nread < MaxReq
  /\ nread' = nread + 1
  /\ asked' = [asked EXCEPT ![nread'] = <<op, target>>]
  /\ reqMem' = [reqMem EXCEPT ![req[Reader]] = nread']

(* readRequest fails after the header: the reader itself sends the error.  *)
BadRequest ==
  /\ Arrives("bad", 0)
  /\ outcome' = [outcome EXCEPT ![nread'] = "err"]
  /\ Goto(Reader, "respond")
  /\ UNCHANGED <<mode, req, resp, respMem, freeReq, freeResp, ctxVars, outVars, wg, closed>>

(* wg.Add(1)                                                               *)
Added_Mut == wg
Added == wg + 1

(* readRequest succeeds: a goroutine runs Service.call, or Reader itself.  *)
Spawn(op, target) ==
  /\ Arrives(op, target)
  /\ wg' = IF Concurrent THEN Added ELSE wg
  /\ req' = [req EXCEPT ![nread'] = req[Reader], ![Reader] = 0]
  /\ pc' = [pc EXCEPT ![Reader] = IF Concurrent THEN "loop" ELSE "serving",
                      ![nread'] = "start"]
  /\ UNCHANGED <<mode, outcome, resp, respMem, freeReq, freeResp, ctxVars, outVars, closed>>

(* ReadRequestHeader fails; the Request object is not put back.            *)
(* ServeRequestContext returns the error and leaves the codec open.        *)
HeaderFails ==
  /\ pc[Reader] = "header"
  /\ Goto(Reader, IF Concurrent THEN "wait" ELSE "done")
  /\ UNCHANGED <<histVars, outcome, objVars, ctxVars, outVars, wg, closed>>

(* The parent of the contexts in svc.Pending is cancelled.                 *)
CancelParent ==
  /\ parentDone' = TRUE
  /\ ctxDone' = ctxDone \cup Range(pending)

(* wg.Wait() returns; codec.Close(); the deferred cancel().                *)
CloseCodec ==
  /\ pc[Reader] = "wait" /\ wg = 0
  /\ closed' = TRUE
  /\ CancelParent
  /\ Goto(Reader, "done")
  /\ UNCHANGED <<histVars, outcome, objVars, pending, deferred, outVars, wg>>

(* The context given to ServeRequestContext ends, at any time.             *)
ParentEnds ==
  /\ ~Concurrent /\ ~parentDone
  /\ CancelParent
  /\ UNCHANGED <<pc, histVars, outcome, objVars, pending, deferred, outVars, wg, closed>>

-----------------------------------------------------------------------------
(* Service.call *)

(* pending.Start(req.Seq); the argument of the deferred call is fixed.     *)
Begin(n) ==
  LET s == reqMem[req[n]] IN
  /\ pc[n] = "start"
  /\ Start(n, s)
  /\ deferred' = [deferred EXCEPT ![n] = s]
  /\ Goto(n, "run")
  /\ UNCHANGED <<histVars, outcome, objVars, parentDone, outVars, wg, closed>>

(* The method returns, with an error or without.                           *)
Return(n, result) ==
  /\ pc[n] = "run"
  /\ asked[n][1] = "quick" \/ (asked[n][1] = "wait" /\ n \in ctxDone)
  /\ outcome' = [outcome EXCEPT ![n] = result]
  /\ Goto(n, "respond")
  /\ UNCHANGED <<histVars, objVars, ctxVars, outVars, wg, closed>>

(* GoRPC.Cancel *)
Target_Mut(n) == n
Target(n) == asked[n][2]
Cancel(n) ==
  /\ pc[n] = "run" /\ asked[n][1] = "cancel"
  /\ CancelSeq(Target(n))
  /\ outcome' = [outcome EXCEPT ![n] = "ok"]
  /\ Goto(n, "respond")
  /\ UNCHANGED <<histVars, objVars, deferred, parentDone, outVars, wg, closed>>

(* The deferred pending.Cancel, after the request object has been freed.   *)
DeferredSeq_Mut(n) == reqMem[req[n]]
DeferredSeq(n) == deferred[n]
DeferredCancel(n) ==
  /\ pc[n] = "cancel"
  /\ CancelSeq(DeferredSeq(n))
  /\ Goto(n, "wgDone")
  /\ UNCHANGED <<histVars, outcome, objVars, deferred, parentDone, outVars, wg, closed>>

(* The deferred wg.Done(), unless wg is nil.                               *)
Released_Mut == wg
Released == IF Concurrent THEN wg - 1 ELSE wg

(* The end of Service.call; its local variables are gone, and with         *)
(* ServeRequestContext the next request may be served.                     *)
WgDone(n) ==
  /\ pc[n] = "wgDone"
  /\ wg' = Released
  /\ req' = [req EXCEPT ![n] = 0] /\ deferred' = [deferred EXCEPT ![n] = 0]
  /\ pc' = [pc EXCEPT ![n] = "done", ![Reader] = IF Concurrent THEN @ ELSE "loop"]
  /\ UNCHANGED <<histVars, outcome, resp, reqMem, respMem, freeReq, freeResp, pending,
                 ctxDone, parentDone, outVars, closed>>

-----------------------------------------------------------------------------
(* sendResponse and freeRequest, in a handler or in the reader *)

Num(p) == IF p = Reader THEN nread ELSE p

(* What getResponse makes of a recycled object, and the fields             *)
(* sendResponse then sets: Error only if there is one.                     *)
Header_Mut(old, s, err) == [seq |-> s, err |-> IF err = 0 THEN old.err ELSE err]
Header(old, s, err) == [seq |-> s, err |-> err]

(* getResponse, and the header is filled in.                               *)
GetResponse(p) ==
  LET s == reqMem[req[p]]
      err == IF outcome[Num(p)] = "err" THEN Num(p) ELSE 0
  IN
  /\ pc[p] = "respond"
  /\ \/ /\ freeResp = <<>>
        /\ respMem' = Append(respMem, [seq |-> s, err |-> err])
        /\ resp' = [resp EXCEPT ![p] = Len(respMem')]
        /\ UNCHANGED freeResp
     \/ /\ freeResp # <<>>
        /\ freeResp' = Tail(freeResp)
        /\ respMem' = [respMem EXCEPT ![Head(freeResp)] = Header(@, s, err)]
        /\ resp' = [resp EXCEPT ![p] = Head(freeResp)]
  /\ Goto(p, "lock")
  /\ UNCHANGED <<histVars, outcome, req, reqMem, freeReq, ctxVars, outVars, wg, closed>>

(* sending.Lock()                                                          *)
LockSending_Mut == TRUE
LockSending == sending = NoOne

(* WriteResponse: the header, then the body.                               *)
WriteHeader(p) ==
  /\ pc[p] = "lock" /\ LockSending
  /\ sending' = Num(p)
  /\ hdr' = respMem[resp[p]]
  /\ Goto(p, "body")
  /\ UNCHANGED <<histVars, outcome, objVars, ctxVars, sent, broken, dropped, wg, closed>>

(* The reply, or invalidRequest in its place if there is an error text.    *)
Body(p) == IF outcome[Num(p)] = "err" THEN 0 ELSE Num(p)

(* A failed write is logged and nothing more.  "broken": the connection or *)
(* a gob codec is gone, and every later write fails.  "dropped": a JSON    *)
(* codec could not encode the reply; nothing was written, and later        *)
(* responses go out.                                                       *)
WriteBody(p, how) ==
  /\ pc[p] = "body"
  /\ how = "sent" => ~broken /\ ~closed
  /\ how = "dropped" => ~broken /\ Body(p) # 0
  /\ broken' = (how = "broken")
  /\ dropped' = IF how = "dropped" THEN dropped \cup {hdr.seq} ELSE dropped
  /\ sent' = IF how = "sent"
             THEN [sent EXCEPT ![hdr.seq] = @ \cup {[err |-> hdr.err, body |-> Body(p)]}]
             ELSE sent
  /\ sending' = NoOne /\ hdr' = NoHeader
  /\ Goto(p, "freeResp")
  /\ UNCHANGED <<histVars, outcome, objVars, ctxVars, wg, closed>>

(* An object is put at the head of its free list.                          *)
Freed_Mut(obj, list) == <<obj, obj>> \o list
Freed(obj, list) == <<obj>> \o list

FreeResponse(p) ==
  /\ pc[p] = "freeResp"
  /\ freeResp' = Freed(resp[p], freeResp)
  /\ resp' = [resp EXCEPT ![p] = 0]
  /\ Goto(p, "freeReq")
  /\ UNCHANGED <<histVars, outcome, req, reqMem, respMem, freeReq, ctxVars, outVars,
                 wg, closed>>

FreeRequest(p) ==
  /\ pc[p] = "freeReq"
  /\ freeReq' = Freed(req[p], freeReq)
  /\ Goto(p, IF p = Reader THEN "loop" ELSE "cancel")
  /\ UNCHANGED <<histVars, outcome, req, resp, reqMem, respMem, freeResp, ctxVars,
                 outVars, wg, closed>>

-----------------------------------------------------------------------------
(* The method of n waits for its context, and no cancellation of it is     *)
(* left that could reach it.                                               *)
Abandoned(n) ==
  /\ pc[n] = "run" /\ asked[n][1] = "wait" /\ n \notin ctxDone
  /\ \A m \in Handlers : asked[m] = <<"cancel", n>> => pc[m] \notin {"start", "run"}

(* The connection has been served, or waits for abandoned methods.         *)
Finished ==
  /\ pc[Reader] \in {"done", "wait"}
  /\ \A n \in Handlers : pc[n] \in {"none", "done"} \/ Abandoned(n)
  /\ UNCHANGED vars

Read ==
  \/ BadRequest /\ "bad" \in Ops
  \/ \E op \in Ops \cap {"quick", "wait"} : Spawn(op, 0)
  \/ \E s \in 1 .. nread : Spawn("cancel", s) /\ "cancel" \in Ops
  \/ HeaderFails

(* What a goroutine does by itself, apart from taking the mutex.           *)
Call(n) ==
  \/ Begin(n)
  \/ \E result \in {"ok", "err", "blank"} : Return(n, result)
  \/ Cancel(n)
  \/ DeferredCancel(n)
  \/ WgDone(n)

Respond(p) ==
  \/ GetResponse(p)
  \/ \E how \in {"sent", "dropped", "broken"} : WriteBody(p, how)
  \/ FreeResponse(p)
  \/ FreeRequest(p)

Next ==
  \/ GetRequest \/ Read \/ CloseCodec \/ ParentEnds
  \/ \E n \in Handlers : Call(n)
  \/ \E p \in Procs : WriteHeader(p) \/ Respond(p)
  \/ Finished

(* The scheduler runs every runnable goroutine, a mutex that keeps being   *)
(* released is given to each of its waiters, writes end (the client reads  *)
(* its responses or is gone), and a method that can return does.  Requests *)
(* need not arrive and the client need not hang up.                        *)
Fairness ==
  /\ WF_vars(GetRequest) /\ WF_vars(CloseCodec)
  /\ \A n \in Handlers : WF_vars(Call(n))
  /\ \A p \in Procs : WF_vars(Respond(p)) /\ SF_vars(WriteHeader(p))

Spec == Init /\ [][Next]_vars /\ Fairness

-----------------------------------------------------------------------------
(* Properties *)

HoldsReq(p) == pc[p] \in {"header", "start", "run", "respond", "lock", "body", "freeResp",
                          "freeReq"}
HoldsResp(p) == pc[p] \in {"lock", "body", "freeResp"}

Headers == [seq : Nat, err : 0 .. MaxReq]

(* The variables of ServeCodec and its handlers have their types; the      *)
(* WaitGroup does not go below zero, at which Go panics.                   *)
TypeOK ==
  /\ mode \in {"ServeCodec", "ServeRequestContext"}
  /\ pc \in [Procs -> {"none", "loop", "header", "serving", "wait", "start", "run",
                       "respond", "lock", "body", "freeResp", "freeReq", "cancel", "wgDone", "done"}]
  /\ nread \in 0 .. MaxReq
  /\ asked \in [Handlers -> {"none", "quick", "wait", "cancel", "bad"} \X (0 .. MaxReq)]
  /\ outcome \in [Handlers -> {"none", "ok", "err", "blank"}]
  /\ req \in [Procs -> Nat] /\ resp \in [Procs -> Nat]
  /\ reqMem \in Seq(Nat) /\ respMem \in Seq(Headers)
  /\ freeReq \in Seq(Nat) /\ freeResp \in Seq(Nat)
  /\ \E S \in SUBSET Handlers : pending \in [S -> Handlers]
  /\ deferred \in [Handlers -> 0 .. MaxReq]
  /\ ctxDone \subseteq Handlers /\ parentDone \in BOOLEAN
  /\ sending \in 0 .. MaxReq /\ hdr \in Headers
  /\ sent \in [Handlers -> SUBSET [err : 0 .. MaxReq, body : 0 .. MaxReq]]
  /\ broken \in BOOLEAN /\ dropped \subseteq Handlers
  /\ wg \in Nat /\ closed \in BOOLEAN

(* A response on the wire carries the sequence number and the error text   *)
(* or the reply of one and the same request, although headers are recycled *)
(* and handlers write concurrently; a request has one response at most, an *)
(* error with a text if the method failed so, the reply if it did not fail *)
(* (for errors without a text see ErrorMeansNoReply).                      *)
ResponseMatches ==
  \A n \in Handlers :
    \/ outcome[n] # "ok" /\ sent[n] \subseteq {[err |-> n, body |-> 0]}
    \/ outcome[n] # "err" /\ sent[n] \subseteq {[err |-> 0, body |-> n]}

(* What the comment of the package says, "The method's return value, if    *)
(* non-nil, is passed back as a string that the client sees as if created  *)
(* by errors.New. If an error is returned, the reply parameter will not be *)
(* sent back to the client": also if the text of the error is empty.       *)
ErrorMeansNoReply ==
  \A n \in Handlers :
    outcome[n] \in {"err", "blank"} => sent[n] \subseteq {[err |-> n, body |-> 0]}

(* A Request or Response object in use is used by one goroutine, and is    *)
(* not on its free list, which has no object twice.                        *)
NoAliasing ==
  /\ \A p, q \in Procs : p # q =>
       /\ HoldsReq(p) /\ HoldsReq(q) => req[p] # req[q]
       /\ HoldsResp(p) /\ HoldsResp(q) => resp[p] # resp[q]
  /\ \A p \in Procs : /\ HoldsReq(p) => req[p] \notin Range(freeReq)
                      /\ HoldsResp(p) => resp[p] \notin Range(freeResp)
  /\ IsInjective(freeReq) /\ IsInjective(freeResp)

(* The context of a method still running is cancelled only by a            *)
(* _goRPC_.Cancel for that request, or by the end of the context given to  *)
(* ServeRequestContext: not by the end of another call.                    *)
CanceledByRequest ==
  \A n \in ctxDone : pc[n] = "run" =>
    parentDone \/ \E m \in 1 .. nread : asked[m] = <<"cancel", n>>

(* The codec is closed only when every request that was read has had its   *)
(* response written (unless the connection broke or its reply cannot be    *)
(* encoded) and no context leaks.                                          *)
ClosedMeansAnswered ==
  closed => /\ \A n \in 1 .. nread : sent[n] # {} \/ broken \/ n \in dropped
            /\ \A n \in Handlers : pc[n] \in {"none", "done"}
            /\ DOMAIN pending = {}

(* What the comment of ServeConn says, "blocks, serving the connection     *)
(* until the client hangs up": once the client has hung up it returns,     *)
(* unless a method waits for its context and nobody is left to cancel it   *)
(* (the cancel() of ServeCodec itself runs only after wg.Wait).            *)
ServeReturns ==
  (pc[Reader] = "wait") ~> (pc[Reader] = "done" \/ \E n \in Handlers : Abandoned(n))

(* What the comment of ServeRequestContext says: "Cancelling the context   *)
(* given here will propagate cancellation to the context of the called     *)
(* function", whether it runs already or is about to be called.            *)
ParentReaches ==
  \A n \in Handlers :
    (mode = "ServeRequestContext" /\ parentDone /\ pc[n] # "none") ~> (pc[n] = "done")

(* A _goRPC_.Cancel that arrives while the method it names is running ends *)
(* that method, if the method heeds its context.                           *)
CancelReachesRunning ==
  \A m, n \in Handlers :
    (asked[m] = <<"cancel", n>> /\ pc[m] = "start" /\ pc[n] = "run") ~> (pc[n] = "done")

(* What the README promises, "support for context.Context on the client    *)
(* and server, including propagating cancellation": once a _goRPC_.Cancel  *)
(* has been served, the call it names ends, if it heeds its context.       *)
CancelReaches ==
  \A m, n \in Handlers :
    (asked[m] = <<"cancel", n>> /\ pc[m] = "done" /\ asked[n][1] # "none") ~> (pc[n] = "done")
=============================================================================
