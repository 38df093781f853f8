------------------------------- MODULE GobPair -------------------------------
(***************************************************************************)
(* Two ends of a connection with gob codecs: two BirpcClients with         *)
(* gobCodec, or a Client with gobClientCodec and a Server with             *)
(* gobServerCodec.  A message is two gob values, header and body, written  *)
(* one after the other under the mutex of the end (reqMutex, or sending at *)
(* a Server), and a reader that expects one kind of value may find the     *)
(* other.  gob then compares the names of fields: it takes a value for a   *)
(* header, or a header for a value, if the types have a field in common or *)
(* one of them has none.  The transport holds Cap values in each           *)
(* direction; a writer blocks when it is full.  Contexts, the user's Close *)
(* and done channels are those of RpcClient and are left out here.         *)
(***************************************************************************)
EXTENDS Naturals, Sequences, FiniteSets

CONSTANTS
  Calls,   \* invocations of Call, at either end
  Kinds,   \* what they are like, see below
  Codecs,  \* subset of {"gobCodec", "client/server"}
  Cap      \* values the transport holds in each direction

(* "known" a call of a method, "unknown" of a method that does not exist,  *)
(* "unnamed" with an empty ServiceMethod, "unencodable" with arguments gob *)
(* cannot encode, "badReply" of a method with such a reply.                *)
ASSUME PairAssumption ==
  /\ Kinds \subseteq {"known", "unknown", "unnamed", "unencodable", "badReply"}
  /\ Codecs \subseteq {"gobCodec", "client/server"} /\ Cap \in Nat \ {0}
  /\ IsFiniteSet(Calls) /\ Calls # {}

Ends == {"a", "b"}
Peer(e) == CHOOSE x \in Ends : x # e

(* Goroutines that write: callers, handlers, and the readers of the ends.  *)
Caller(c) == <<"call", c>>
Handler(c) == <<"handle", c>>
Reader(e) == <<"input", e>>
Writers == {Caller(c) : c \in Calls} \cup {Handler(c) : c \in Calls} \cup {Reader(e) : e \in Ends}
NoOne == <<"nobody", "">>
Nothing == <<"none", "">>
Error == <<"error", "">>

VARIABLES
  codec, kind, from, \* the codecs; what each call is like, and the end that makes it
  loose,   \* calls whose arguments and reply have no fields, or share just Seq with
           \* the headers, as svc.CancelArgs does
  seq,     \* seq[c]: the call's sequence number
  nseq,    \* nseq[e]: client.seq of an end
  pending, \* calls in the pending map of their end
  res,     \* res[c]: Nothing, Error, or who wrote what was decoded into the reply
  args,    \* args[c]: Nothing, or who wrote what its method was called with
  wpc,     \* where each writer is
  mutex,   \* mutex[e]: holder of reqMutex or sending
  encBuf,  \* encBuf[e]: values in the buffer of the codec
  conn,    \* conn[e]: values on their way to e
  open,    \* the connection is open
  ipc,     \* where the reader of each end is
  msg,     \* msg[e]: the header it has read
  misled,  \* history: ends that have taken a body for a header
  shutdown \* ends whose pending calls have been terminated

initVars == <<codec, kind, from, loose>>
callVars == <<seq, nseq, pending, res, args>>
outVars == <<wpc, mutex, encBuf>>
connVars == <<conn, open>>
readVars == <<ipc, msg, misled, shutdown>>
vars == <<initVars, callVars, outVars, connVars, readVars>>

Buffered == codec = "client/server"
IsClient(e) == Buffered /\ e = "a"
IsServer(e) == Buffered /\ e = "b"
NoMsg == [call |-> NoOne, seq |-> 0, method |-> "", error |-> FALSE]

Init ==
  /\ codec \in Codecs /\ kind \in [Calls -> Kinds]
  /\ from \in [Calls -> IF Buffered THEN {"a"} ELSE Ends]
  /\ loose \in SUBSET Calls
  /\ seq = [c \in Calls |-> 0] /\ nseq = [e \in Ends |-> 0]
  /\ pending = {} /\ res = [c \in Calls |-> Nothing] /\ args = [c \in Calls |-> Nothing]
  /\ wpc = [w \in Writers |-> "none"] /\ mutex = [e \in Ends |-> NoOne]
  /\ encBuf = [e \in Ends |-> <<>>] /\ conn = [e \in Ends |-> <<>>]
  /\ open = TRUE
  /\ ipc = [e \in Ends |-> "header"] /\ msg = [e \in Ends |-> NoMsg]
  /\ misled = {} /\ shutdown = {}

-----------------------------------------------------------------------------
(* What is written *)

End(w) == CASE w[1] = "call" -> from[w[2]]
            [] w[1] = "handle" -> Peer(from[w[2]])
            [] w[1] = "input" -> w[2]

Method(c) == CASE kind[c] = "unnamed" -> "" [] kind[c] = "unknown" -> "unknown"
               [] OTHER -> "known"

(* Request and Response, as ReadHeader decodes them: a message.  Its call  *)
(* is not on the wire, it tells whose it is.                               *)
Header(w) ==
  CASE w[1] = "call" -> [call |-> w, seq |-> seq[w[2]], method |-> Method(w[2]), error |-> FALSE]
    [] w[1] = "handle" -> [call |-> w, seq |-> seq[w[2]], method |-> "", error |-> FALSE]
    [] w[1] = "input" -> [call |-> w, seq |-> msg[w[2]].seq, method |-> "", error |-> TRUE]

Encodable(w) ==
  CASE w[1] = "call" -> kind[w[2]] # "unencodable"
    [] w[1] = "handle" -> kind[w[2]] # "badReply"
    [] w[1] = "input" -> TRUE

(* On the connection: a header, or the body written by w.                  *)
IsHeader(v) == "seq" \in DOMAIN v
Body(w) == [body |-> w]
WriterOf(v) == IF IsHeader(v) THEN v.call ELSE v.body

Goto(w, label) == wpc' = [wpc EXCEPT ![w] = label]
Unlock(w) == mutex' = [mutex EXCEPT ![End(w)] = NoOne]
Room(e) == Len(conn[e]) < Cap
Send(w, values) == conn' = [conn EXCEPT ![Peer(End(w))] = @ \o values]

(* Close of the codec.  An end may come to it twice: gobServerCodec passes *)
(* only the first on to the connection, gobCodec both.                     *)
Close == open' = FALSE

-----------------------------------------------------------------------------
(* Writers: send in a caller, sendResponse in a handler or a reader *)

Start(c) ==
  /\ wpc[Caller(c)] = "none"
  /\ Goto(Caller(c), "lock")
  /\ UNCHANGED <<initVars, callVars, mutex, encBuf, connVars, readVars>>

(* reqMutex.Lock() in send, sending.Lock() in sendResponse.                *)
Unlocked_Mut(e) == TRUE
Unlocked(e) == mutex[e] = NoOne

(* The caller is refused, or numbered and put into pending.                *)
Lock(w) ==
  LET e == End(w) c == w[2] IN
  /\ wpc[w] = "lock" /\ Unlocked(e)
  /\ IF w[1] = "call" /\ e \in shutdown
     THEN /\ res' = [res EXCEPT ![c] = Error] /\ Goto(w, "done")
          /\ UNCHANGED <<mutex, seq, nseq, pending>>
     ELSE /\ mutex' = [mutex EXCEPT ![e] = w] /\ Goto(w, "header")
          /\ IF w[1] = "call"
             THEN /\ nseq' = [nseq EXCEPT ![e] = @ + 1]
                  /\ seq' = [seq EXCEPT ![c] = nseq[e] + 1]
                  /\ pending' = pending \cup {c}
             ELSE UNCHANGED <<seq, nseq, pending>>
          /\ UNCHANGED res
  /\ UNCHANGED <<initVars, args, encBuf, connVars, readVars>>

(* enc.Encode(r): gobCodec encodes straight onto the connection, the other *)
(* codecs into encBuf.                                                     *)
WriteHeader(w) ==
  /\ wpc[w] = "header"
  /\ IF ~Buffered
     THEN open /\ Room(Peer(End(w))) /\ Send(w, <<Header(w)>>) /\ UNCHANGED encBuf
     ELSE encBuf' = [encBuf EXCEPT ![End(w)] = Append(@, Header(w))] /\ UNCHANGED conn
  /\ Goto(w, "body")
  /\ UNCHANGED <<initVars, callVars, mutex, open, readVars>>

(* encBuf holds 4096 bytes: header and body, and headers that failed       *)
(* requests have left, may be more, and what is first is sent before the   *)
(* body is complete.                                                       *)
Spill(w) ==
  /\ wpc[w] = "body" /\ encBuf[End(w)] # <<>>
  /\ open /\ Room(Peer(End(w)))
  /\ Send(w, <<Head(encBuf[End(w)])>>)
  /\ encBuf' = [encBuf EXCEPT ![End(w)] = Tail(@)]
  /\ UNCHANGED <<initVars, callVars, wpc, mutex, open, readVars>>

(* enc.Encode(body) and encBuf.Flush().                                    *)
WriteBody(w) ==
  /\ wpc[w] = "body" /\ Encodable(w)
  /\ open /\ Room(Peer(End(w)))
  /\ Send(w, Append(encBuf[End(w)], Body(w)))
  /\ encBuf' = [encBuf EXCEPT ![End(w)] = <<>>]
  /\ Goto(w, "done") /\ Unlock(w)
  /\ UNCHANGED <<initVars, callVars, open, readVars>>

(* send, once WriteRequest has failed: a call that is still pending gets   *)
(* the error.                                                              *)
Fail(c) ==
  /\ pending' = pending \ {c}
  /\ res' = IF c \in pending THEN [res EXCEPT ![c] = Error] ELSE res
  /\ UNCHANGED <<seq, nseq, args>>

(* WriteRequest cannot encode the body: the header is out, or in encBuf.   *)
RequestFails(w) ==
  /\ wpc[w] = "body" /\ w[1] = "call" /\ ~Encodable(w)
  /\ Fail(w[2])
  /\ Goto(w, "done") /\ Unlock(w)
  /\ UNCHANGED <<initVars, encBuf, connVars, readVars>>

(* WriteResponse cannot encode the body: the header is flushed and, if     *)
(* that succeeds, the connection closed.                                   *)
GiveUp_Mut == UNCHANGED open
GiveUp == Close
ResponseFails(w) ==
  /\ wpc[w] = "body" /\ w[1] = "handle" /\ ~Encodable(w)
  /\ Buffered => open /\ Room(Peer(End(w)))
  /\ Send(w, encBuf[End(w)]) /\ encBuf' = [encBuf EXCEPT ![End(w)] = <<>>]
  /\ GiveUp
  /\ Goto(w, "done") /\ Unlock(w)
  /\ UNCHANGED <<initVars, callVars, readVars>>

(* Nothing can be written to a closed connection.  WriteResponse of        *)
(* gobCodec has nothing to flush, takes that for success and closes.       *)
WriteFails(w) ==
  /\ wpc[w] \in {"header", "body"} /\ ~open
  /\ IF w[1] = "call" THEN Fail(w[2]) ELSE UNCHANGED callVars
  /\ IF w[1] # "call" /\ ~Buffered THEN Close ELSE UNCHANGED open
  /\ Goto(w, "done") /\ Unlock(w)
  /\ UNCHANGED <<initVars, encBuf, conn, readVars>>

Write(w) ==
  \/ WriteHeader(w) \/ Spill(w) \/ WriteBody(w)
  \/ RequestFails(w) \/ ResponseFails(w) \/ WriteFails(w)

-----------------------------------------------------------------------------
(* Readers *)

IGoto(e, label) == ipc' = [ipc EXCEPT ![e] = label]
Next1(e) == Head(conn[e])
Take(e) == conn[e] # <<>> /\ conn' = [conn EXCEPT ![e] = Tail(@)]

(* ReadHeader: a message without ServiceMethod is a response.  At a Server *)
(* ReadRequestHeader takes everything for a request, and getService finds  *)
(* an empty name ill-formed.                                               *)
IsRequest_Mut(e, v) == \A c \in pending : from[c] = e => seq[c] # v.seq
IsRequest(e, v) == v.method # "" \/ IsServer(e)

(* What dec.Decode makes of v where a header is expected.  A body without  *)
(* fields, as invalidRequest is, leaves the header empty; one with a field *)
(* Seq sets that; any other body is an error.                              *)
Seqs(w) == IF w[1] = "input" THEN {0} ELSE {0} \cup {seq[c] : c \in Calls}
AsHeader(v) ==
  CASE IsHeader(v) -> {v}
    [] ~IsHeader(v) /\ (v.body[1] = "input" \/ v.body[2] \in loose) ->
         {[call |-> v.body, seq |-> n, method |-> "", error |-> FALSE] : n \in Seqs(v.body)}
    [] OTHER -> {}

ReadHeader(e) ==
  /\ ipc[e] = "header" /\ Take(e)
  /\ \/ AsHeader(Next1(e)) = {} /\ IGoto(e, "final") /\ UNCHANGED <<msg, misled>>
     \/ \E m \in AsHeader(Next1(e)) :
          /\ msg' = [msg EXCEPT ![e] = m]
          /\ IGoto(e, IF IsRequest(e, m) THEN "args" ELSE "reply")
          /\ misled' = IF IsHeader(Next1(e)) THEN misled ELSE misled \cup {e}
  /\ UNCHANGED <<initVars, callVars, outVars, open, shutdown>>

(* dec.Decode(v) for the arguments or the reply of a call succeeds or not: *)
(* of a header it takes a loose type, of a body who knows.                 *)
Decodes_Mut(v, c, ok) == TRUE
Decodes(v, c, ok) == IsHeader(v) /\ c \notin loose => ~ok

(* The reader becomes a writer: it sends the error itself.                 *)
Reject(e) == IGoto(e, "reject") /\ Goto(Reader(e), "lock")

(* readRequest: the body is decoded, or discarded if there is no method    *)
(* for it, and a handler started.                                          *)
ReadRequest(e, ok) ==
  LET c == msg[e].call[2] IN
  /\ ipc[e] = "args"
  /\ \/ Take(e) /\ Decodes(Next1(e), c, ok)
     \/ ~open /\ ~ok /\ UNCHANGED conn
  /\ IF ok /\ msg[e].method = "known"
     THEN /\ IGoto(e, "header") /\ Goto(Handler(c), "lock")
          /\ args' = [args EXCEPT ![c] = WriterOf(Next1(e))]
     ELSE Reject(e) /\ UNCHANGED args
  /\ UNCHANGED <<initVars, seq, nseq, pending, res, mutex, encBuf, open, msg, misled,
                 shutdown>>

(* sendResponse has returned.                                              *)
Rejected(e) ==
  /\ ipc[e] = "reject" /\ wpc[Reader(e)] = "done"
  /\ IGoto(e, "header") /\ Goto(Reader(e), "none")
  /\ UNCHANGED <<initVars, callVars, mutex, encBuf, connVars, msg, misled, shutdown>>

(* readResponse: the call is taken out of pending, and the body discarded  *)
(* or decoded into the reply.                                              *)
Found(e) == {c \in pending : from[c] = e /\ seq[c] = msg[e].seq}
ReadResponse(e, ok) ==
  LET discard == msg[e].error \/ Found(e) = {}
      v == Next1(e)
  IN
  /\ ipc[e] = "reply"
  /\ \/ Take(e) /\ IF discard THEN ok ELSE \A c \in Found(e) : Decodes(v, c, ok)
     \/ ~open /\ ~ok /\ UNCHANGED conn
  /\ pending' = pending \ Found(e)
  /\ res' = [c \in Calls |-> IF c \notin Found(e) THEN res[c]
                             ELSE IF ok /\ ~discard THEN WriterOf(v) ELSE Error]
  /\ IGoto(e, IF ok THEN "header" ELSE "final")
  /\ UNCHANGED <<initVars, seq, nseq, args, outVars, open, msg, misled, shutdown>>

ReadFails(e) ==
  /\ ipc[e] = "header" /\ ~open
  /\ IGoto(e, "final")
  /\ UNCHANGED <<initVars, callVars, outVars, connVars, msg, misled, shutdown>>

(* The loop has ended: pending calls are terminated under the mutex.  A    *)
(* Server has none.                                                        *)
Terminate(e) ==
  LET mine == {c \in pending : from[c] = e} IN
  /\ ipc[e] = "final" /\ (mutex[e] = NoOne \/ IsServer(e))
  /\ shutdown' = shutdown \cup {e}
  /\ res' = [c \in Calls |-> IF c \in mine THEN Error ELSE res[c]]
  /\ pending' = pending \ mine
  /\ IGoto(e, "wait")
  /\ UNCHANGED <<initVars, seq, nseq, args, outVars, connVars, msg, misled>>

(* wg.Wait() and codec.Close(); a Client does not close.                   *)
Stop(e) ==
  /\ ipc[e] = "wait"
  /\ \A c \in Calls : from[c] # e => wpc[Handler(c)] \in {"none", "done"}
  /\ IF IsClient(e) THEN UNCHANGED open ELSE Close
  /\ IGoto(e, "stopped")
  /\ UNCHANGED <<initVars, callVars, outVars, conn, msg, misled, shutdown>>

Read(e) ==
  \/ ReadHeader(e) \/ Rejected(e) \/ ReadFails(e) \/ Stop(e)
  \/ \E ok \in BOOLEAN : ReadRequest(e, ok) \/ ReadResponse(e, ok)

-----------------------------------------------------------------------------
Reading(e) == ipc[e] \in {"header", "args", "reply"}

(* Both ends have a writer that waits for room, and nobody reads.          *)
WriteCycle ==
  open /\ \A e \in Ends : ~Reading(e) /\ ~Room(e) /\ mutex[e] # NoOne /\ Encodable(mutex[e])

Run ==
  \/ \E w \in Writers : Lock(w) \/ Write(w)
  \/ \E e \in Ends : Read(e) \/ Terminate(e)

Next == Run \/ \E c \in Calls : Start(c)

(* As long as some goroutine can run, one does.  Every goroutine takes a   *)
(* bounded number of steps here, so this is all the fairness it takes.     *)
Spec == Init /\ [][Next]_vars /\ WF_vars(Run)

-----------------------------------------------------------------------------
(* Properties *)

(* The variables of the two ends have their types; whoever is writing      *)
(* holds the mutex of its end, and encBuf is used by the codecs that have  *)
(* one.                                                                    *)
PTypeOK ==
  /\ pending \subseteq Calls /\ shutdown \subseteq Ends /\ open \in BOOLEAN
  /\ loose \subseteq Calls /\ misled \subseteq Ends /\ args \in [Calls -> {Nothing} \cup Writers]
  /\ res \in [Calls -> {Nothing, Error} \cup Writers]
  /\ wpc \in [Writers -> {"none", "lock", "header", "body", "done"}]
  /\ ipc \in [Ends -> {"header", "args", "reply", "reject", "final", "wait", "stopped"}]
  /\ \A w \in Writers : wpc[w] \in {"header", "body"} <=> mutex[End(w)] = w
  /\ \A e \in Ends : Len(conn[e]) <= Cap + Cardinality(Calls)
  /\ ~Buffered => \A e \in Ends : encBuf[e] = <<>>

Started(c) == wpc[Caller(c)] # "none"
Returned(c) == wpc[Caller(c)] = "done" /\ res[c] # Nothing
Unnamed == {c \in Calls : kind[c] = "unnamed"}

(* A call succeeds only with the reply its own method wrote: a header left *)
(* without a body, by either codec, may end the connection but leads no    *)
(* reply to another call.  The exceptions are of gobCodec: a call without  *)
(* method name, which the other end takes for the response to a call of    *)
(* its own, and a loose reply at an end that has taken a body for a        *)
(* header.                                                                 *)
ReplyIsOwn ==
  \A c \in Calls :
    \/ res[c] \in {Nothing, Error, Handler(c)}
    \/ /\ ~Buffered
       /\ \/ \E u \in Unnamed : from[u] # from[c] /\ res[c] = Caller(u)
          \/ c \in loose /\ from[c] \in misled

(* A method runs only with the arguments of the request it was found for,  *)
(* also behind requests that failed to encode and have left a header       *)
(* alone, unless its argument type is one a header can be decoded into.    *)
ArgsAreOwn == \A c \in Calls : args[c] \in {Nothing, Caller(c)} \/ c \in loose

(* Every call ends, whatever cannot be found or encoded, unless both ends  *)
(* are stuck writing, the readers included, as they write the errors of    *)
(* requests they reject; or the call has no method name (gobCodec); or a   *)
(* body was taken for a header, after which an end may wait for a body     *)
(* that nobody will write.  The comment of Call, "Call invokes the named   *)
(* function, waits for it to complete, and returns its error status",      *)
(* knows none of these exceptions.                                         *)
Due(c) == Started(c) /\ (Buffered \/ c \notin Unnamed)
CallsEnd ==
  \A c \in Calls : Due(c) ~> (Returned(c) \/ WriteCycle \/ misled # {})
=============================================================================
