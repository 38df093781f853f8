------------------------------ MODULE RpcClient ------------------------------
(***************************************************************************)
(* The client half of an RPC connection: basicClient (send, Close, Go,     *)
(* Call) and the goroutine Client.input that matches responses to calls.   *)
(*                                                                         *)
(* Goroutines: one per element of Callers, one input goroutine, one that   *)
(* calls Close.  reqMutex is a variable: it is held across the blocking    *)
(* WriteRequest.  The sections mutex protects do not block and are single  *)
(* actions, but for the one in which input completes the pending calls one *)
(* by one: receivers run between these steps, and both mutexes are held as *)
(* long as ipc = "draining".  Taking a free mutex commutes with what other *)
(* goroutines do before the holder's next step and is part of that step.   *)
(***************************************************************************)
EXTENDS Naturals, FiniteSets, Functions

CONSTANTS
  Calls,    \* invocations of Client.Call, each on a goroutine of its own
  GoCalls,  \* invocations of Client.Go that share one caller-supplied Done channel
  DoneCap,  \* cap(done) of that channel
  NoCall,   \* the nil *Call
  NoOne     \* nobody holds reqMutex

Callers == Calls \cup GoCalls

(* The *Call objects: the call itself and, for Client.Call, the            *)
(* _goRPC_.Cancel call made on its behalf when its context ends.           *)
Objs == (Callers \X {"main"}) \cup (Calls \X {"cancel"})
Main(t) == <<t, "main">>
Cancel(t) == <<t, "cancel">>

ASSUME ClientAssumption ==
  /\ Calls \cap GoCalls = {}
  /\ IsFiniteSet(Callers)
  /\ DoneCap \in Nat \ {0}    \* Go panics on an unbuffered channel
  /\ NoCall \notin Objs
  /\ NoOne \notin Callers

(* A request on the wire: the Seq and the ServiceMethod of the header, and *)
(* the arguments; methods and arguments are named by the call they are of. *)
Requests == [seq : Nat, method : Objs, args : Objs]

Errors == {"nil", "ErrShutdown", "Canceled", "write", "server", "body",
           "UnexpectedEOF", "other"}

VARIABLES
  pc,        \* pc[t]: where goroutine t is in Go / Call / send
  cur,       \* cur[t]: which of its calls t is sending, "main" or "cancel"
  ctxDone,   \* callers whose context has ended
  result,    \* result[t]: what Call (or the receive from Done) gave the caller
  reqMutex,  \* holder of client.reqMutex
  request,   \* client.request, the header under construction: <<Seq, ServiceMethod>>
  seq,       \* client.seq
  pending,   \* client.pending, a map from sequence number to call
  closing, shutdown,
  callSeq,   \* call.seq of each call
  error,     \* call.Error of each call
  inChan,    \* calls sitting in their Done channel
  discarded, \* history: calls dropped by done() because the channel was full
  completed, \* history: how often done() ran for each call
  replied,   \* history: calls whose reply body was decoded without error
  ipc,       \* where input is: "header", "body", "final", "draining" or "stopped"
  resp,      \* the response input works on: the call it found, the request answered
  ierr,      \* input's local err once it has left the loop
  doomed,    \* pending calls input has yet to complete before it ends
  codecOpen, \* FALSE once client.wc.Close() has run
  wire       \* requests the server has seen and not answered yet

callerVars == <<pc, cur, ctxDone, result>>
clientVars == <<reqMutex, request, seq, pending, closing, shutdown>>
callVars == <<callSeq, error, inChan, discarded, completed, replied>>
inputVars == <<ipc, resp, ierr, doomed>>
netVars == <<codecOpen, wire>>
vars == <<callerVars, clientVars, callVars, inputVars, netVars>>

NoResp == [call |-> NoCall, method |-> NoCall, args |-> NoCall, failed |-> FALSE]

Init ==
  /\ pc = [t \in Callers |-> "idle"] /\ cur = [t \in Callers |-> "main"]
  /\ ctxDone = {} /\ result = [t \in Callers |-> "none"]
  /\ reqMutex = NoOne /\ request = <<0, NoCall>>
  /\ seq = 0 /\ pending = [s \in {} |-> NoCall]
  /\ closing = FALSE /\ shutdown = FALSE
  /\ callSeq = [o \in Objs |-> 0] /\ error = [o \in Objs |-> "nil"]
  /\ inChan = {} /\ discarded = {} /\ replied = {}
  /\ completed = [o \in Objs |-> 0]
  /\ ipc = "header" /\ resp = NoResp /\ ierr = "nil" /\ doomed = {}
  /\ codecOpen = TRUE /\ wire = {}

-----------------------------------------------------------------------------
(* client.pending[s] and delete(client.pending, s); an absent key is nil.  *)
Lookup(s) == IF s \in DOMAIN pending THEN pending[s] ELSE NoCall
Delete(s) == pending' = Restrict(pending, DOMAIN pending \ {s})

(* The Done channel of a call is named by the callers that share it.       *)
Chan(o) == IF o[1] \in Calls THEN {o[1]} ELSE GoCalls
Cap_Mut(o) == IF o[1] \in Calls THEN 1 ELSE DoneCap
Cap(o) == IF o[1] \in Calls THEN 2 ELSE DoneCap
Load(o) == Cardinality({x \in inChan : x[1] \in Chan(o)})

(* done(): the call is put into its channel, or dropped if that is full.   *)
done(o) ==
  /\ \/ Load(o) < Cap(o) /\ inChan' = inChan \cup {o} /\ UNCHANGED discarded
     \/ Load(o) >= Cap(o) /\ discarded' = discarded \cup {o} /\ UNCHANGED inChan
  /\ completed' = [completed EXCEPT ![o] = @ + 1]

(* call.Error = e; call.done() unless the call is nil.                     *)
Complete(o, e) ==
  \/ o = NoCall /\ UNCHANGED <<error, inChan, discarded, completed>>
  \/ o # NoCall /\ error' = [error EXCEPT ![o] = e] /\ done(o)

-----------------------------------------------------------------------------
(* Caller goroutines *)

Obj(t) == <<t, cur[t]>>

(* client.mutex is free.                                                   *)
MutexFree == ipc # "draining"

(* client.reqMutex.Lock() and client.mutex.Lock() in send.                 *)
LockReq_Mut(t) == MutexFree
LockReq(t) == reqMutex = NoOne /\ MutexFree

(* The test of client.shutdown and client.closing in send.                 *)
Down_Mut == closing
Down == shutdown \/ closing

(* client.seq++ in send.                                                   *)
NextSeq_Mut == seq
NextSeq == seq + 1

Goto(t, label) == pc' = [pc EXCEPT ![t] = label]

(* send has returned: Call waits in its select, or returns ctx.Err() if    *)
(* what it sent was the cancellation; Go returns to its caller.            *)
SendReturns(t) ==
  /\ Goto(t, IF cur[t] = "cancel" THEN "returned"
             ELSE IF t \in Calls THEN "wait" ELSE "sent")
  /\ result' = IF cur[t] = "cancel" THEN [result EXCEPT ![t] = "ctx"] ELSE result
  /\ UNCHANGED <<cur, ctxDone>>

(* Go allocates the Call and enters send.                                  *)
Go(t) ==
  /\ pc[t] = "idle"
  /\ Goto(t, "lock")
  /\ UNCHANGED <<cur, ctxDone, result, clientVars, callVars, inputVars, netVars>>

(* send up to WriteRequest, refused: the client is shut down or closing    *)
(* (or the call carries a sequence number already).                        *)
Refuse(t) ==
  /\ pc[t] = "lock" /\ LockReq(t)
  /\ Down \/ callSeq[Obj(t)] # 0
  /\ Complete(Obj(t), IF Down THEN "ErrShutdown" ELSE "Canceled")
  /\ SendReturns(t)
  /\ UNCHANGED <<clientVars, callSeq, replied, inputVars, netVars>>

(* send up to WriteRequest, accepted: the call gets the next sequence      *)
(* number and enters pending; the shared header is filled in.              *)
Register(t) ==
  /\ pc[t] = "lock" /\ LockReq(t)
  /\ ~Down /\ callSeq[Obj(t)] = 0
  /\ reqMutex' = t
  /\ seq' = seq + 1
  /\ callSeq' = [callSeq EXCEPT ![Obj(t)] = NextSeq]
  /\ pending' = [s \in DOMAIN pending \cup {NextSeq} |->
                   IF s = NextSeq THEN Obj(t) ELSE pending[s]]
  /\ request' = <<NextSeq, Obj(t)>>
  /\ Goto(t, "write")
  /\ UNCHANGED <<cur, ctxDone, result, closing, shutdown, error, inChan,
                 discarded, completed, replied, inputVars, netVars>>

(* WriteRequest: it may fail, and the server may have seen the request     *)
(* even if it fails; nothing leaves a closed codec.                        *)
WriteRequest(t, ok, reached) ==
  /\ pc[t] = "write"
  /\ ok => reached
  /\ reached => codecOpen
  /\ wire' = IF reached
             THEN wire \cup {[seq |-> request[1], method |-> request[2], args |-> Obj(t)]}
             ELSE wire
  /\ Goto(t, IF ok THEN "wrote" ELSE "failed")
  /\ UNCHANGED <<cur, ctxDone, result, clientVars, callVars, inputVars, codecOpen>>

(* send returns after a successful write.                                  *)
Wrote_Mut(t) ==
  /\ pc[t] = "wrote"
  /\ SendReturns(t)
  /\ UNCHANGED <<clientVars, callVars, inputVars, netVars>>
Wrote(t) ==
  /\ pc[t] = "wrote"
  /\ reqMutex' = NoOne
  /\ SendReturns(t)
  /\ UNCHANGED <<request, seq, pending, closing, shutdown, callVars, inputVars, netVars>>

(* send after a failed write: whoever still finds the call in pending      *)
(* completes it.                                                           *)
WriteFailed(t) ==
  /\ pc[t] = "failed" /\ MutexFree
  /\ Delete(callSeq[Obj(t)])
  /\ Complete(Lookup(callSeq[Obj(t)]), "write")
  /\ reqMutex' = NoOne
  /\ SendReturns(t)
  /\ UNCHANGED <<request, seq, closing, shutdown, callSeq, replied, inputVars, netVars>>

(* The select of Call takes <-call.Done; a caller of Go receives from the  *)
(* channel it supplied.                                                    *)
Receive(t) ==
  /\ pc[t] \in {"wait", "sent"}
  /\ Main(t) \in inChan
  /\ inChan' = inChan \ {Main(t)}
  /\ result' = [result EXCEPT ![t] = error[Main(t)]]
  /\ Goto(t, "returned")
  /\ UNCHANGED <<cur, ctxDone, clientVars, callSeq, error, discarded, completed,
                 replied, inputVars, netVars>>

(* The context of a call ends (cancelled or timed out), at any time.       *)
ContextEnds(t) ==
  /\ t \in Calls \ ctxDone
  /\ ctxDone' = ctxDone \cup {t}
  /\ UNCHANGED <<pc, cur, result, clientVars, callVars, inputVars, netVars>>

(* The select of Call takes <-ctx.Done().                                  *)
SelectCtx(t) ==
  /\ pc[t] = "wait" /\ t \in ctxDone
  /\ Goto(t, "cancel")
  /\ UNCHANGED <<cur, ctxDone, result, clientVars, callVars, inputVars, netVars>>

(* The mutex section of that branch; it goes on to send _goRPC_.Cancel if  *)
(* the call was sent and was still pending, and returns otherwise.         *)
CancelPending(t) ==
  LET s == callSeq[Main(t)]
      sendCancel == s # 0 /\ s \in DOMAIN pending
  IN
  /\ pc[t] = "cancel" /\ MutexFree
  /\ Delete(s)
  /\ callSeq' = [callSeq EXCEPT ![Main(t)] = IF s = 0 THEN 1 ELSE s]
  /\ cur' = [cur EXCEPT ![t] = IF sendCancel THEN "cancel" ELSE "main"]
  /\ Goto(t, IF sendCancel THEN "lock" ELSE "returned")
  /\ result' = IF sendCancel THEN result ELSE [result EXCEPT ![t] = "ctx"]
  /\ UNCHANGED <<ctxDone, reqMutex, request, seq, closing, shutdown, error,
                 inChan, discarded, completed, replied, inputVars, netVars>>

-----------------------------------------------------------------------------
(* Close: the flag under mutex, the codec after the unlock.  A second      *)
(* Close returns ErrShutdown and changes nothing.                          *)
Close ==
  /\ ~closing /\ MutexFree
  /\ closing' = TRUE
  /\ UNCHANGED <<callerVars, reqMutex, request, seq, pending, shutdown, callVars,
                 inputVars, netVars>>

CodecClose ==
  /\ closing /\ codecOpen
  /\ codecOpen' = FALSE
  /\ UNCHANGED <<callerVars, clientVars, callVars, inputVars, wire>>

-----------------------------------------------------------------------------
(* The input goroutine *)

(* ReadResponseHeader returns the response to request m, which carries an  *)
(* error string or not; the call is taken out of pending under mutex.      *)
ReadResponseHeader(m, failed) ==
  /\ ipc = "header" /\ m \in wire
  /\ wire' = wire \ {m}
  /\ resp' = [call |-> Lookup(m.seq), method |-> m.method, args |-> m.args,
              failed |-> failed]
  /\ Delete(m.seq)
  /\ ipc' = "body"
  /\ UNCHANGED <<callerVars, reqMutex, request, seq, closing, shutdown, callVars,
                 ierr, doomed, codecOpen>>

(* The error given to the call when ReadResponseBody returned e.           *)
CallError_Mut(e) == IF resp.failed THEN "server" ELSE "nil"
CallError(e) == IF resp.failed THEN "server" ELSE IF e = "nil" THEN "nil" ELSE "body"

(* ReadResponseBody returns e, and the call (if there is one) completes.   *)
(* e is wrapped, hence no longer io.EOF, unless it came from the reply.    *)
ReadResponseBody(e) ==
  LET reply == resp.call # NoCall /\ ~resp.failed IN
  /\ ipc = "body"
  /\ Complete(resp.call, CallError(e))
  /\ replied' = IF reply /\ e = "nil" THEN replied \cup {resp.call} ELSE replied
  /\ ipc' = IF e = "nil" THEN "header" ELSE "final"
  /\ ierr' = IF e = "EOF" /\ ~reply THEN "other" ELSE e
  /\ resp' = NoResp
  /\ UNCHANGED <<callerVars, clientVars, callSeq, doomed, netVars>>

(* ReadResponseHeader fails: the server hung up, the stream is garbled, or *)
(* the codec was closed.                                                   *)
HeaderFails(e) ==
  /\ ipc = "header"
  /\ ipc' = "final" /\ ierr' = e
  /\ UNCHANGED <<callerVars, clientVars, callVars, resp, doomed, netVars>>

(* client.reqMutex.Lock() in input.                                        *)
InputLocksReq_Mut == TRUE
InputLocksReq == reqMutex = NoOne

(* After the loop both mutexes are taken, the client is marked as shut     *)
(* down and the calls still pending are about to be completed.  They stay  *)
(* in the map.                                                             *)
Terminate ==
  /\ ipc = "final" /\ InputLocksReq
  /\ shutdown' = TRUE
  /\ ierr' = IF ierr # "EOF" THEN ierr ELSE IF closing THEN "ErrShutdown" ELSE "UnexpectedEOF"
  /\ doomed' = Range(pending)
  /\ ipc' = IF DOMAIN pending = {} THEN "stopped" ELSE "draining"
  /\ UNCHANGED <<callerVars, reqMutex, request, seq, pending, closing, callVars, resp,
                 netVars>>

(* One turn of the loop over pending; the last one is followed by the      *)
(* unlocking of both mutexes.                                              *)
Drain(o) ==
  /\ ipc = "draining" /\ o \in doomed
  /\ Complete(o, ierr)
  /\ doomed' = doomed \ {o}
  /\ ipc' = IF doomed = {o} THEN "stopped" ELSE "draining"
  /\ UNCHANGED <<callerVars, clientVars, callSeq, replied, resp, ierr, netVars>>

-----------------------------------------------------------------------------
(* Nothing is left to do: a state in which the client may stay forever.    *)
Finished ==
  /\ ipc = "stopped" /\ ~codecOpen /\ ctxDone = Calls
  /\ \A t \in Callers : pc[t] = "returned" \/ Main(t) \in discarded
  /\ UNCHANGED vars

(* What goroutine t does once started, apart from taking reqMutex and from *)
(* writing.                                                                *)
Step(t) ==
  \/ Wrote(t)
  \/ WriteFailed(t)
  \/ Receive(t)
  \/ SelectCtx(t)
  \/ CancelPending(t)

Write(t) == \E ok, reached \in BOOLEAN : WriteRequest(t, ok, reached)

Next ==
  \/ \E t \in Callers :
       Go(t) \/ Refuse(t) \/ Register(t) \/ Write(t) \/ Step(t) \/ ContextEnds(t)
  \/ Close \/ CodecClose
  \/ \E m \in wire, failed \in BOOLEAN : ReadResponseHeader(m, failed)
  \/ \E e \in {"nil", "EOF", "other"} : ReadResponseBody(e)
  \/ \E e \in {"EOF", "other"} : HeaderFails(e)
  \/ Terminate
  \/ \E o \in doomed : Drain(o)
  \/ Finished

(* The Go scheduler runs every runnable goroutine; a sync.Mutex in         *)
(* starvation mode is handed to the longest waiter, so a goroutine that    *)
(* waits for reqMutex gets it if it keeps being released.  Reads and       *)
(* writes on a closed codec return.  On an open one a write may block for  *)
(* good (the server has stopped reading), and the server need not answer;  *)
(* calls are not made and contexts do not end by themselves.               *)
Fairness ==
  /\ \A t \in Callers :
       /\ SF_vars(Refuse(t) \/ Register(t)) /\ WF_vars(Step(t))
       /\ WF_vars(~codecOpen /\ Write(t))
  /\ WF_vars(CodecClose)
  /\ WF_vars(~codecOpen /\ \/ \E e \in {"EOF", "other"} : HeaderFails(e)
                           \/ \E e \in {"nil", "EOF", "other"} : ReadResponseBody(e))
  /\ SF_vars(Terminate)
  /\ WF_vars(\E o \in doomed : Drain(o))

Spec == Init /\ [][Next]_vars /\ Fairness

-----------------------------------------------------------------------------
(* Types and invariants *)

(* The fields of basicClient and Call, and the places the goroutines of    *)
(* the client are in, have the values they are declared to have; the keys  *)
(* of pending are numbers that send has given out.                         *)
TypeOK ==
  /\ pc \in [Callers -> {"idle", "lock", "write", "wrote", "failed", "wait", "sent",
                         "cancel", "returned"}]
  /\ cur \in [Callers -> {"main", "cancel"}]
  /\ \A t \in GoCalls : cur[t] = "main"
  /\ ctxDone \subseteq Calls
  /\ result \in [Callers -> Errors \cup {"none", "ctx"}]
  /\ reqMutex \in Callers \cup {NoOne}
  /\ request \in Nat \X (Objs \cup {NoCall})
  /\ seq \in Nat
  /\ \E S \in SUBSET (1 .. seq) : pending \in [S -> Objs]
  /\ closing \in BOOLEAN /\ shutdown \in BOOLEAN
  /\ callSeq \in [Objs -> Nat]
  /\ error \in [Objs -> Errors]
  /\ inChan \subseteq Objs /\ discarded \subseteq Objs /\ replied \subseteq Objs
  /\ completed \in [Objs -> Nat]
  /\ ipc \in {"header", "body", "final", "draining", "stopped"}
  /\ resp \in [call : Objs \cup {NoCall}, method : Objs \cup {NoCall},
               args : Objs \cup {NoCall}, failed : BOOLEAN]
  /\ ierr \in {"nil", "EOF", "other", "ErrShutdown", "UnexpectedEOF"}
  /\ doomed \subseteq Objs
  /\ codecOpen \in BOOLEAN
  /\ wire \subseteq Requests

(* done() runs at most once for a call: a response, a failed write and the *)
(* end of input race for it, and the one that finds it in pending wins.    *)
CompletedOnce == \A o \in Objs : completed[o] <= 1

(* A caller that waits for its Done channel is not forgotten: the call is  *)
(* in the channel (or was dropped by a full one), or input is about to     *)
(* complete it, or, while input runs, it is in pending or in the hands of  *)
(* input.  After shutdown nobody waits for a completion that cannot come.  *)
NoLostCall ==
  \A t \in Callers : pc[t] \in {"wait", "sent"} =>
    \/ Main(t) \in inChan \cup discarded
    \/ Main(t) \in doomed
    \/ ~shutdown /\ Main(t) \in Range(pending) \cup {resp.call}

(* input hands a response only to the call whose method and arguments the  *)
(* answered request carried.                                               *)
ReplyToItsCall == resp.call # NoCall => resp.method = resp.call /\ resp.args = resp.call

(* The channel of capacity 2 that Call makes is never full when done()     *)
(* wants to use it, although it serves the call and its cancellation.      *)
CallNeverDropped == \A o \in discarded : o[1] \in GoCalls

(* A caller is told "no error" only if its reply was decoded.              *)
SuccessMeansReplied == \A t \in Callers : result[t] = "nil" => Main(t) \in replied

(* Once input has terminated the pending calls no request reaches the      *)
(* server any more.                                                        *)
SilentAfterShutdown == [][shutdown => wire' \subseteq wire]_vars

(* Close ends every call in progress: none waits for a server that does    *)
(* not answer, and none is left behind a write that blocked.               *)
CloseDrains ==
  \A t \in Callers :
    (closing /\ pc[t] # "idle") ~> (pc[t] = "returned" \/ Main(t) \in discarded)

(* No WriteRequest blocks for good: the server goes on reading.            *)
WritesEnd == \A t \in Callers : []<>(pc[t] # "write")

(* A Call whose context has ended returns although the server never        *)
(* answers, provided that the server reads: Call looks at its context only *)
(* after send, which writes, and sends the cancellation before it returns. *)
(* Any write that blocks holds reqMutex, and so holds up every Call.       *)
CancelReturns ==
  WritesEnd =>
    \A t \in Calls : (t \in ctxDone /\ pc[t] # "idle") ~> (pc[t] = "returned")

(* What the comment of Call promises, "invokes the named function, waits   *)
(* for it to complete, and returns its error status": input does not       *)
(* decode into the reply of a Call that has returned.                      *)
ReplyNotTouchedAfterReturn ==
  \A t \in Calls :
    ipc = "body" /\ resp.call = Main(t) /\ ~resp.failed => pc[t] # "returned"

-----------------------------------------------------------------------------
(* The inductive invariant behind the safety properties *)

Sending == {"write", "wrote", "failed"}

(* A call that send has not looked at yet.                                 *)
Fresh(o) ==
  /\ callSeq[o] = 0 /\ completed[o] = 0
  /\ o \notin inChan \cup discarded \cup Range(pending) \cup {resp.call}

FreshInv ==
  \A t \in Callers :
    /\ pc[t] \in {"idle", "sent"} => cur[t] = "main"
    /\ pc[t] \in {"idle", "lock"} => Fresh(Obj(t))
    /\ t \in Calls /\ cur[t] = "main" => Fresh(Cancel(t))
    /\ pc[t] \in {"wait", "cancel"} => t \in Calls /\ cur[t] = "main"

(* reqMutex is held exactly during WriteRequest and its aftermath, and     *)
(* client.request is the holder's header.                                  *)
MutexInv ==
  /\ \A t \in Callers : pc[t] \in Sending <=> reqMutex = t
  /\ \A t \in Callers : pc[t] \in Sending => request = <<callSeq[Obj(t)], Obj(t)>>

(* The keys of pending are the sequence numbers of the calls, and a        *)
(* request in flight names the call that is pending under its number.      *)
SeqInv ==
  /\ \A s \in DOMAIN pending : callSeq[pending[s]] = s
  /\ \A t \in Callers : pc[t] # "returned" =>
       /\ callSeq[Obj(t)] <= seq
       /\ callSeq[Obj(t)] \in DOMAIN pending => pending[callSeq[Obj(t)]] = Obj(t)
  /\ \A m \in wire :
       /\ m.seq <= seq /\ m.method = m.args
       /\ m.seq \in DOMAIN pending => pending[m.seq] = m.args

InputInv ==
  /\ shutdown <=> ipc \in {"draining", "stopped"}
  /\ shutdown => reqMutex = NoOne
  /\ ipc # "body" => resp = NoResp
  /\ doomed # {} <=> ipc = "draining"
  /\ ipc = "final" => ierr # "nil"
  /\ ipc = "draining" => ierr \in Errors \ {"nil"}
  /\ resp.call # NoCall => completed[resp.call] = 0 /\ resp.call \notin Range(pending)

(* Until input ends, a pending call has not completed; a call is in its    *)
(* channel only if it has; and it has an error unless it got its reply.    *)
DoneInv ==
  /\ ~shutdown => \A o \in Range(pending) : completed[o] = 0
  /\ \A o \in doomed : completed[o] = 0 /\ o \in Range(pending)
  /\ \A o \in inChan \cup discarded : completed[o] # 0
  /\ \A o \in Objs : completed[o] # 0 /\ error[o] = "nil" => o \in replied

Reachable(t) ==
  \/ Main(t) \in inChan \cup discarded
  \/ Main(t) \in doomed
  \/ ~shutdown /\ Main(t) \in Range(pending) \cup {resp.call}

ReachInv ==
  \A t \in Callers :
    cur[t] = "main" /\ pc[t] \in Sending \cup {"wait", "sent"} => Reachable(t)

(* What holds in every reachable state of the client goroutines and is     *)
(* preserved by each of their steps.                                       *)
IInv ==
  /\ TypeOK /\ FreshInv /\ MutexInv /\ SeqInv /\ InputInv /\ DoneInv /\ ReachInv
  /\ CompletedOnce /\ ReplyToItsCall /\ CallNeverDropped /\ SuccessMeansReplied

-----------------------------------------------------------------------------
(* The refinement mapping to RpcCalls *)

Phase(t) == IF pc[t] \in {"idle", "returned"} THEN pc[t] ELSE "active"
Told(t) == IF result[t] \in {"none", "nil", "ErrShutdown", "ctx"} THEN result[t] ELSE "error"

Promise == INSTANCE RpcCalls WITH
  phase <- [t \in Callers |-> Phase(t)],
  outcome <- [t \in Callers |-> Told(t)],
  decoded <- {t \in Callers : Main(t) \in replied},
  expired <- ctxDone,
  ended <- shutdown

(* The client keeps the promise of RpcCalls: every call ends at most once, *)
(* with an outcome that has its cause (a decoded reply, an ended context,  *)
(* a closed or lost connection), and its reply is filled in at most once.  *)
KeepsPromise == Promise!Spec

(* What KeepsPromise rests on besides IInv: the cause of ErrShutdown, of a *)
(* decoded reply and of a cancellation.                                    *)
CauseInv ==
  /\ \A o \in Objs : error[o] = "ErrShutdown" => closing \/ shutdown
  /\ \A o \in replied : completed[o] # 0
  /\ \A t \in Callers : pc[t] = "cancel" \/ cur[t] = "cancel" => t \in ctxDone
=============================================================================
