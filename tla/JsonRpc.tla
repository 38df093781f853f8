------------------------------- MODULE JsonRpc -------------------------------
(***************************************************************************)
(* A JSON-RPC connection.  JSON-RPC ids are arbitrary values, so the codec *)
(* of the serving end gives each request a sequence number of its own and  *)
(* keeps the id in a map until the response is written; svc.Pending and    *)
(* _goRPC_.Cancel work with that number.  The calling end uses its own     *)
(* sequence numbers as ids.  This module follows the two numberings        *)
(* through encoding, concurrent handlers and out-of-order responses.       *)
(*                                                                         *)
(* codec says which pair is in use: clientCodec and serverCodec under      *)
(* Client and Server, or jsonCodec at both ends of a BirpcClient           *)
(* connection.  The mutexes of the calling end are RpcClient's subject:    *)
(* here send is one action.  Requests that are refused, and handlers, are  *)
(* those of RpcServer with writing one action.                             *)
(***************************************************************************)
EXTENDS Naturals, Sequences, FiniteSets, Functions

CONSTANTS
  Callers,     \* calls made with Client.Call
  Notes,       \* requests without an id (notifications), from any JSON-RPC client
  Codecs,      \* the codecs considered, "serverCodec" and "jsonCodec"
  EncodeFails, \* whether the arguments of a call may have no JSON encoding
  Cancellable, \* calls whose context may end
  MaxServed    \* bound: how many requests are served at the same time

Main(c) == <<c, "main">>
Cancel(c) == <<c, "cancel">>
Requests == ((Callers \cup Notes) \X {"main"}) \cup (Cancellable \X {"cancel"})

ASSUME JsonAssumption ==
  /\ IsFiniteSet(Callers \cup Notes) /\ Callers \cap Notes = {}
  /\ Codecs \subseteq {"serverCodec", "jsonCodec"}
  /\ EncodeFails \in BOOLEAN /\ Cancellable \subseteq Callers
  /\ MaxServed \in Nat \ {0}

(* The id of a request without one; sequence numbers start at 1.           *)
Null == 0

VARIABLES
  codec,    \* the codecs in use
  cpc,      \* each call: "idle", "wait" or "returned"
  result,   \* what each call was told
  cseq,     \* client.seq
  callSeq,  \* the sequence number of each request of the client, its JSON id
  methods,  \* clientCodec.pending: the ids whose method is remembered
  down,     \* the client's input has ended
  toServer, toClient,  \* the two directions of the connection
  sseq,     \* seq of the serving codec
  ids,      \* its pending: the id of each request being served
  hpc,      \* the handler of each request
  hseq,     \* the sequence number of each request at the server
  outcome,  \* what the method returned: "none", "ok", "null" (a nil reply), "unencodable"
            \* (a reply that has no JSON encoding) or "err" (an error that has a text)
  running,  \* svc.Pending.m: the request whose context a sequence number cancels
  ctxDone   \* requests whose context was cancelled

clientVars == <<cpc, result, cseq, callSeq, methods, down>>
serverVars == <<sseq, ids, hpc, hseq, outcome, running, ctxDone>>
vars == <<codec, clientVars, toServer, toClient, serverVars>>

Init ==
  /\ codec \in Codecs
  /\ cpc = [c \in Callers |-> "idle"] /\ result = [c \in Callers |-> "none"]
  /\ cseq = 0 /\ callSeq = [r \in Requests |-> 0] /\ methods = {} /\ down = FALSE
  /\ toServer = <<>> /\ toClient = <<>>
  /\ sseq = 0 /\ ids = [s \in {} |-> Null]
  /\ hpc = [r \in Requests |-> "none"] /\ hseq = [r \in Requests |-> 0]
  /\ outcome = [r \in Requests |-> "none"]
  /\ running = [s \in {} |-> Main(s)] /\ ctxDone = {}

Put(f, k, v) == [x \in DOMAIN f \cup {k} |-> IF x = k THEN v ELSE f[x]]
Remove(f, k) == Restrict(f, DOMAIN f \ {k})
HGoto(r, label) == hpc' = [hpc EXCEPT ![r] = label]
Tell(c, what) ==
  cpc' = [cpc EXCEPT ![c] = "returned"] /\ result' = [result EXCEPT ![c] = what]

-----------------------------------------------------------------------------
(* The calling end *)

(* client.seq++, and WriteRequest: clientCodec remembers the method, then  *)
(* the request is encoded or (ok is FALSE) is not.                         *)
WriteRequest(r, ok) ==
  /\ cseq' = cseq + 1
  /\ callSeq' = [callSeq EXCEPT ![r] = cseq + 1]
  /\ methods' = IF codec = "serverCodec" THEN methods \cup {cseq + 1} ELSE methods
  /\ toServer' = IF ok THEN Append(toServer, [id |-> cseq + 1, of |-> r]) ELSE toServer
  /\ UNCHANGED <<codec, down, toClient, serverVars>>

Call(c, ok) ==
  /\ cpc[c] = "idle" /\ ~down
  /\ ok \/ EncodeFails
  /\ WriteRequest(Main(c), ok)
  /\ IF ok THEN cpc' = [cpc EXCEPT ![c] = "wait"] /\ UNCHANGED result ELSE Tell(c, "write")

Refused(c) ==
  /\ cpc[c] = "idle" /\ down
  /\ Tell(c, "ErrShutdown")
  /\ UNCHANGED <<codec, cseq, callSeq, methods, down, toServer, toClient, serverVars>>

(* The context of a call that waits ends, and Call sends _goRPC_.Cancel.   *)
CancelCall(c) ==
  /\ cpc[c] = "wait" /\ ~down /\ c \in Cancellable
  /\ WriteRequest(Cancel(c), TRUE)
  /\ Tell(c, "ctx")

Notify(n) ==
  /\ \A i \in DOMAIN toServer : toServer[i].of # Main(n)
  /\ hpc[Main(n)] = "none"
  /\ toServer' = Append(toServer, [id |-> Null, of |-> Main(n)])
  /\ UNCHANGED <<codec, clientVars, toClient, serverVars>>

(* ReadResponseHeader (or ReadHeader) and ReadResponseBody, up to done():  *)
(* the call that waits for the id is told; a reply that is null and has no *)
(* error is an "invalid error", which ends input and every pending call,   *)
(* and so does a reply that cannot be decoded (ok is FALSE).  Errors, and  *)
(* responses nobody waits for, have no body to decode.                     *)
Waiter(id) == {c \in Callers : cpc[c] = "wait" /\ callSeq[Main(c)] = id}
Invalid(m) == ~m.error /\ ~m.result

ReadResponse(ok) ==
  LET m == Head(toClient)
      ends == Invalid(m) \/ ~ok
      told == IF ends THEN {c \in Callers : cpc[c] = "wait"} ELSE Waiter(m.id)
      what == IF Invalid(m) THEN "invalid" ELSE IF ~ok THEN "body"
              ELSE IF m.error THEN "err" ELSE "ok"
  IN
  /\ toClient # <<>> /\ ~down
  /\ ok \/ (m.result /\ Waiter(m.id) # {})
  /\ toClient' = Tail(toClient)
  /\ methods' = methods \ {m.id}
  /\ cpc' = [c \in Callers |-> IF c \in told THEN "returned" ELSE cpc[c]]
  /\ result' = [c \in Callers |-> IF c \in told THEN what ELSE result[c]]
  /\ down' = ends
  /\ UNCHANGED <<codec, cseq, callSeq, toServer, serverVars>>

-----------------------------------------------------------------------------
(* The serving end *)

(* ReadRequestHeader of serverCodec numbers every request; ReadHeader of   *)
(* jsonCodec only those with an id, a notification keeps Seq 0.            *)
Numbered(id) == codec = "serverCodec" \/ id # Null

ReadHeader(label, how) ==
  LET m == Head(toServer) IN
  /\ toServer # <<>> /\ \A r \in Requests : hpc[r] # "reject"
  /\ Cardinality({r \in Requests : hpc[r] \notin {"none", "done"}}) < MaxServed
  /\ toServer' = Tail(toServer)
  /\ sseq' = IF Numbered(m.id) THEN sseq + 1 ELSE sseq
  /\ ids' = IF Numbered(m.id) THEN Put(ids, sseq + 1, m.id) ELSE ids
  /\ hseq' = [hseq EXCEPT ![m.of] = IF Numbered(m.id) THEN sseq + 1 ELSE 0]
  /\ HGoto(m.of, label)
  /\ outcome' = [outcome EXCEPT ![m.of] = how]
  /\ UNCHANGED <<codec, clientVars, toClient, running, ctxDone>>

(* A request that cannot be served (unknown method, missing params) is     *)
(* answered by the reader before it reads on.                              *)
ReadRequest ==
  \/ ReadHeader("start", "none")
  \/ toServer # <<>> /\ Head(toServer).of[2] = "main" /\ ReadHeader("reject", "err")

(* pending.Start(req.Seq)                                                  *)
Start(r) ==
  /\ hpc[r] = "start"
  /\ running' = Put(running, hseq[r], r)
  /\ HGoto(r, "run")
  /\ UNCHANGED <<codec, clientVars, toServer, toClient, sseq, ids, hseq, outcome, ctxDone>>

CancelSeq(s) ==
  /\ running' = Remove(running, s)
  /\ ctxDone' = IF s \in DOMAIN running THEN ctxDone \cup {running[s]} ELSE ctxDone

(* The method returns; GoRPC.Cancel cancels the context found under the    *)
(* number it was sent, the calling end's number of the call to cancel.     *)
Return(r, how) ==
  /\ hpc[r] = "run"
  /\ IF r[2] = "cancel" THEN how = "ok" /\ CancelSeq(callSeq[Main(r[1])])
                        ELSE UNCHANGED <<running, ctxDone>>
  /\ outcome' = [outcome EXCEPT ![r] = how]
  /\ HGoto(r, "respond")
  /\ UNCHANGED <<codec, clientVars, toServer, toClient, sseq, ids, hseq>>

(* The id a response goes out with, and whether its members result and     *)
(* error are there or null.                                                *)
IdOf_Mut(s) == s
IdOf(s) == ids[s]
Response(r) ==
  [id |-> IdOf(hseq[r]),
   result |-> outcome[r] = "ok", error |-> outcome[r] = "err"]

(* delete(c.pending, r.Seq)                                                *)
Forget_Mut(s) == UNCHANGED ids
Forget(s) == ids' = Remove(ids, s)

(* The reader answers what it rejects: sendResponse after readRequest.     *)
Sent_Mut(r) ==
  IF hpc[r] = "reject" \/ outcome[r] = "unencodable" THEN <<>> ELSE <<Response(r)>>
Sent(r) == IF outcome[r] = "unencodable" THEN <<>> ELSE <<Response(r)>>

(* WriteResponse: nothing is written if the number is not in the map, or   *)
(* if the reply cannot be encoded.  By then the id is gone; sendResponse   *)
(* logs the error, and the connection goes on.                             *)
WriteResponse(r) ==
  /\ hpc[r] \in {"respond", "reject"}
  /\ IF hseq[r] \in DOMAIN ids
     THEN Forget(hseq[r]) /\ toClient' = toClient \o Sent(r)
     ELSE UNCHANGED <<ids, toClient>>
  /\ HGoto(r, IF hpc[r] = "reject" THEN "done" ELSE "end")
  /\ UNCHANGED <<codec, clientVars, toServer, sseq, hseq, outcome, running, ctxDone>>

(* The deferred pending.Cancel(req.Seq).                                   *)
End(r) ==
  /\ hpc[r] = "end"
  /\ CancelSeq(hseq[r])
  /\ HGoto(r, "done")
  /\ UNCHANGED <<codec, clientVars, toServer, toClient, sseq, ids, hseq, outcome>>

-----------------------------------------------------------------------------
Finished ==
  /\ \A c \in Callers : cpc[c] = "returned" \/ outcome[Main(c)] = "unencodable"
  /\ \A n \in Notes : hpc[Main(n)] = "done"
  /\ toServer = <<>> /\ (toClient = <<>> \/ down)
  /\ \A r \in Requests : hpc[r] \in {"none", "done"}
  /\ UNCHANGED vars

Handle(r) ==
  \/ Start(r)
  \/ \E how \in {"ok", "null", "unencodable", "err"} : Return(r, how)
  \/ WriteResponse(r)
  \/ End(r)

Next ==
  \/ \E c \in Callers : (\E ok \in BOOLEAN : Call(c, ok)) \/ Refused(c) \/ CancelCall(c)
  \/ \E n \in Notes : Notify(n)
  \/ \E ok \in BOOLEAN : ReadResponse(ok)
  \/ ReadRequest
  \/ \E r \in Requests : Handle(r)
  \/ Finished

(* Both ends read what has arrived and every handler runs to its end.      *)
Fairness ==
  /\ WF_vars(\E ok \in BOOLEAN : ReadResponse(ok)) /\ WF_vars(ReadRequest)
  /\ \A r \in Requests : WF_vars(Handle(r))

Spec == Init /\ [][Next]_vars /\ Fairness

-----------------------------------------------------------------------------
(* Properties *)

(* The variables of the JSON codecs and their users have their types; the  *)
(* id of a response is null or one the client has given out.               *)
JTypeOK ==
  /\ codec \in Codecs /\ down \in BOOLEAN
  /\ cpc \in [Callers -> {"idle", "wait", "returned"}]
  /\ result \in [Callers -> {"none", "ok", "err", "write", "ctx", "invalid", "body",
                          "ErrShutdown"}]
  /\ cseq \in Nat /\ callSeq \in [Requests -> 0 .. cseq] /\ methods \subseteq 1 .. cseq
  /\ sseq \in Nat /\ hseq \in [Requests -> 0 .. sseq]
  /\ \E S \in SUBSET (1 .. sseq) : ids \in [S -> 0 .. cseq]
  /\ \E S \in SUBSET (0 .. sseq) : running \in [S -> Requests]
  /\ hpc \in [Requests -> {"none", "start", "run", "reject", "respond", "end", "done"}]
  /\ outcome \in [Requests -> {"none", "ok", "null", "unencodable", "err"}]
  /\ ctxDone \subseteq Requests
  /\ \A i \in DOMAIN toClient : toClient[i].id \in 0 .. cseq

(* What a caller is told is how its own request ended at the server: the   *)
(* ids lead each response back although the two ends number differently    *)
(* and handlers end in any order.                                          *)
ReplyRoundTrip ==
  \A c \in Callers : result[c] \in {"ok", "err"} => outcome[Main(c)] = result[c]

(* The serving codec holds an id exactly as long as its request is served, *)
(* under the number of that request.                                       *)
IdsHeldWhileServed ==
  /\ \A s \in DOMAIN ids :
       \E r \in Requests : hseq[r] = s /\ hpc[r] \in {"start", "run", "reject", "respond"}
  /\ \A r \in Requests : r[1] \in Callers =>
       (hpc[r] \in {"start", "run", "reject", "respond"} =>
         hseq[r] \in DOMAIN ids /\ ids[hseq[r]] = callSeq[r])

(* Every call returns, also one that the serving end rejects and one that  *)
(* is pending when input ends, but for a call whose reply WriteResponse    *)
(* could not encode: nothing is sent for it, and the caller waits for ever *)
(* although Call "waits for it to complete, and returns its error status". *)
CallsReturn ==
  \A c \in Callers :
    (cpc[c] = "wait") ~> (cpc[c] = "returned" \/ outcome[Main(c)] = "unencodable")

(* What CancelArgs says, "Seq is the sequence number for the rpc.Call to   *)
(* cancel": a method that runs is cancelled only on behalf of its caller.  *)
(* Numbers that differ between the ends break it, and so do notifications: *)
(* all have number 0, and the end of one cancels the other, though         *)
(* Pending.Start assumes "seq is not already in map".                      *)
CancelHitsItsCall ==
  \A r \in ctxDone : hpc[r] = "run" => r[1] \in Callers /\ result[r[1]] = "ctx"
=============================================================================
