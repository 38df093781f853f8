------------------------------- MODULE HttpDial -------------------------------
(***************************************************************************)
(* How connections come about: Dial and DialHTTP at the client, the Accept *)
(* loops and ServeHTTP at the server.  A connection is a stream in each    *)
(* direction; "CONNECT", "GET", "connected" (the status that ServeHTTP     *)
(* writes) and "status" (any other) are the texts of the handshake, "call" *)
(* and "reply" stand for what the RPC codecs write.  Readers of HTTP are   *)
(* buffered: they take from the stream what happens to be there, and what  *)
(* follows the text they wanted is lost to the RPC codec.                  *)
(***************************************************************************)
EXTENDS Naturals, Sequences

CONSTANT Conns    \* attempts to connect

VARIABLES
  via,      \* via[d]: "Dial", "DialHTTP", or "GET" for some other HTTP client
  srv,      \* srv[d]: who listens: "Accept", "HandleHTTP", an HTTP server without
            \* this handler ("other"), or one that never answers ("mute")
  dpc, spc, \* where the client and the server are with each connection
  cs, sc,   \* the streams from client to server and back
  bufrw,    \* what the HTTP server has read ahead
  lost,     \* lost[d]: RPC values that were read ahead and thrown away
  copen, sopen, \* connections that the client or the server holds open
  listening \* Accept is in its loop, has left it ("left"), or the listener is closed

endVars == <<via, srv>>
clientVars == <<dpc, copen>>
serverVars == <<spc, bufrw, sopen, listening>>
vars == <<endVars, clientVars, serverVars, cs, sc, lost>>

Init ==
  /\ via \in [Conns -> {"Dial", "DialHTTP", "GET"}]
  /\ srv \in [Conns -> {"Accept", "HandleHTTP", "other", "mute"}]
  /\ dpc = [d \in Conns |-> "idle"] /\ spc = [d \in Conns |-> "none"]
  /\ cs = [d \in Conns |-> <<>>] /\ sc = [d \in Conns |-> <<>>]
  /\ bufrw = [d \in Conns |-> <<>>] /\ lost = [d \in Conns |-> {}]
  /\ copen = {} /\ sopen = {} /\ listening = "loop"

Put(f, d, text) == [f EXCEPT ![d] = Append(@, text)]
Drop(s, n) == SubSeq(s, n + 1, Len(s))
Values(s) == {s[i] : i \in DOMAIN s} \cap {"call", "reply"}
Goto(d, label) == dpc' = [dpc EXCEPT ![d] = label]
SGoto(d, label) == spc' = [spc EXCEPT ![d] = label]

-----------------------------------------------------------------------------
(* Client *)

(* net.Dial or net.DialTimeout succeeds, before the server has accepted.   *)
Connect(d) ==
  /\ dpc[d] = "idle" /\ (srv[d] = "Accept" => listening # "closed")
  /\ Goto(d, IF via[d] = "Dial" THEN "rpc" ELSE "write")
  /\ copen' = copen \cup {d} /\ sopen' = sopen \cup {d}
  /\ SGoto(d, "backlog")
  /\ UNCHANGED <<endVars, bufrw, listening, cs, sc, lost>>

(* It fails: nobody listens, or the timeout is over.                       *)
DialFails(d) ==
  /\ dpc[d] = "idle" /\ Goto(d, "failed")
  /\ UNCHANGED <<endVars, copen, serverVars, cs, sc, lost>>

(* What DialHTTPPathTimeout does when it has sent its request.             *)
Await_Mut == "rpc"
Await == "status"

(* io.WriteString; its error is ignored.                                   *)
WriteConnect(d) ==
  /\ dpc[d] = "write"
  /\ cs' = IF d \in sopen THEN Put(cs, d, IF via[d] = "GET" THEN "GET" ELSE "CONNECT") ELSE cs
  /\ Goto(d, Await)
  /\ UNCHANGED <<endVars, copen, serverVars, sc, lost>>

(* conn.Close() after a response that is not the one expected.             *)
Abandon_Mut(d) == copen
Abandon(d) == copen \ {d}

(* http.ReadResponse on a bufio.Reader that is dropped afterwards.         *)
ReadStatus(d, n) ==
  /\ dpc[d] = "status" /\ n \in 1 .. Len(sc[d])
  /\ sc' = [sc EXCEPT ![d] = Drop(@, n)]
  /\ lost' = [lost EXCEPT ![d] = @ \cup Values(SubSeq(sc[d], 1, n))]
  /\ IF Head(sc[d]) = "connected"
     THEN Goto(d, "rpc") /\ UNCHANGED copen
     ELSE Goto(d, "failed") /\ copen' = Abandon(d)
  /\ UNCHANGED <<endVars, serverVars, cs>>

StatusFails(d) ==
  /\ dpc[d] = "status" /\ sc[d] = <<>> /\ d \notin sopen
  /\ Goto(d, "failed") /\ copen' = Abandon(d)
  /\ UNCHANGED <<endVars, serverVars, cs, sc, lost>>

(* A call over the new Client, and how it ends: with the reply, or with an *)
(* error because the connection is closed or garbled.                      *)
Call(d) ==
  /\ dpc[d] = "rpc"
  /\ cs' = IF d \in sopen THEN Put(cs, d, "call") ELSE cs
  /\ Goto(d, "called")
  /\ UNCHANGED <<endVars, copen, serverVars, sc, lost>>

CallEnds(d) ==
  /\ dpc[d] = "called"
  /\ \/ sc[d] # <<>> /\ sc' = [sc EXCEPT ![d] = Tail(@)]
        /\ Goto(d, IF Head(sc[d]) = "reply" THEN "answered" ELSE "broken")
     \/ sc[d] = <<>> /\ d \notin sopen /\ UNCHANGED sc /\ Goto(d, "broken")
  /\ UNCHANGED <<endVars, copen, serverVars, cs, lost>>

ClientCloses(d) ==
  /\ dpc[d] \in {"answered", "broken"} /\ d \in copen
  /\ copen' = copen \ {d}
  /\ UNCHANGED <<endVars, dpc, serverVars, cs, sc, lost>>

-----------------------------------------------------------------------------
(* Server *)

(* lis.Accept(), and a goroutine for the connection.                       *)
Ready_Mut(d) == \A x \in Conns : srv[x] = "Accept" => spc[x] # "serve"
Ready(d) == TRUE
Accept(d) ==
  /\ spc[d] = "backlog" /\ srv[d] = "Accept" /\ listening = "loop" /\ Ready(d)
  /\ SGoto(d, "serve")
  /\ UNCHANGED <<endVars, clientVars, bufrw, sopen, listening, cs, sc, lost>>

(* lis.Accept() fails, because the listener was closed or for a passing   *)
(* reason, and Accept returns.  Accepted connections live on; the others   *)
(* are reset with the listener, or stay in the backlog of an open one.     *)
AcceptFails(how) ==
  /\ listening = "loop" /\ listening' = how
  /\ sopen' = IF how = "left" THEN sopen
               ELSE sopen \ {d \in Conns : srv[d] = "Accept" /\ spc[d] = "backlog"}
  /\ UNCHANGED <<endVars, clientVars, spc, bufrw, cs, sc, lost>>

(* net/http accepts and reads a request, and may read ahead.               *)
HttpRequest(d, n) ==
  /\ spc[d] = "backlog" /\ srv[d] \in {"HandleHTTP", "other"}
  /\ d \in sopen /\ n \in 1 .. Len(cs[d])
  /\ cs' = [cs EXCEPT ![d] = Drop(@, n)]
  /\ bufrw' = [bufrw EXCEPT ![d] = SubSeq(cs[d], 1, n)]
  /\ SGoto(d, "request")
  /\ UNCHANGED <<endVars, clientVars, sopen, listening, sc, lost>>

(* The request goes to ServeHTTP and is a CONNECT.                         *)
IsConnect_Mut(d) == TRUE
IsConnect(d) == Head(bufrw[d]) = "CONNECT"

(* Any other request is answered and the connection closed: by net/http,   *)
(* by the 405 of ServeHTTP, or because Hijack failed.                      *)
Answer(d) ==
  /\ spc[d] = "request"
  /\ sc' = IF d \in sopen THEN Put(sc, d, "status") ELSE sc
  /\ sopen' = sopen \ {d} /\ SGoto(d, "end")
  /\ UNCHANGED <<endVars, clientVars, bufrw, listening, cs, lost>>

(* Hijack: ServeHTTP takes the connection and drops the buffered reader.   *)
Hijack(d) ==
  /\ spc[d] = "request" /\ srv[d] = "HandleHTTP" /\ IsConnect(d)
  /\ lost' = [lost EXCEPT ![d] = @ \cup Values(bufrw[d])]
  /\ SGoto(d, "hijacked")
  /\ UNCHANGED <<endVars, clientVars, bufrw, sopen, listening, cs, sc>>

(* io.WriteString(conn, "HTTP/1.0 " + connected), then ServeConn.          *)
Text_Mut == <<>>
Text == <<"connected">>
WriteStatus(d) ==
  /\ spc[d] = "hijacked"
  /\ sc' = IF d \in sopen THEN [sc EXCEPT ![d] = @ \o Text] ELSE sc
  /\ SGoto(d, "serve")
  /\ UNCHANGED <<endVars, clientVars, bufrw, sopen, listening, cs, lost>>

(* ServeConn answers a call, and ends when the client hangs up.  gob takes *)
(* the "C" of CONNECT for the length of a message that never becomes       *)
(* complete: ServeConn and the DialHTTP at the other end wait for each     *)
(* other.                                                                  *)
Serve(d) ==
  /\ spc[d] = "serve" /\ d \in sopen
  /\ \/ /\ cs[d] # <<>> /\ Head(cs[d]) = "call"
        /\ cs' = [cs EXCEPT ![d] = Tail(@)] /\ sc' = Put(sc, d, "reply")
        /\ UNCHANGED <<spc, sopen>>
     \/ /\ d \notin copen /\ (cs[d] # <<>> => Head(cs[d]) # "call")
        /\ sopen' = sopen \ {d} /\ SGoto(d, "end")
        /\ UNCHANGED <<cs, sc>>
  /\ UNCHANGED <<endVars, clientVars, bufrw, listening, lost>>

(* The text of a longer request is a complete message, but not a gob one.  *)
NotGob(d) ==
  /\ spc[d] = "serve" /\ d \in sopen /\ cs[d] # <<>> /\ Head(cs[d]) = "GET"
  /\ sopen' = sopen \ {d} /\ SGoto(d, "end")
  /\ UNCHANGED <<endVars, clientVars, bufrw, listening, cs, sc, lost>>

(* The server's end of the connection breaks.                              *)
ServerCloses(d) ==
  /\ d \in sopen /\ sopen' = sopen \ {d}
  /\ UNCHANGED <<endVars, clientVars, spc, bufrw, listening, cs, sc, lost>>

-----------------------------------------------------------------------------
ClientStep(d) ==
  \/ WriteConnect(d) \/ StatusFails(d) \/ CallEnds(d)
  \/ \E n \in 1 .. Len(sc[d]) : ReadStatus(d, n)

ServerStep(d) ==
  \/ Accept(d) \/ Answer(d) \/ Hijack(d) \/ WriteStatus(d) \/ Serve(d)
  \/ \E n \in 1 .. Len(cs[d]) : HttpRequest(d, n)

Next ==
  \/ \E d \in Conns : \/ Connect(d) \/ DialFails(d) \/ Call(d) \/ ClientCloses(d)
                      \/ ServerCloses(d) \/ NotGob(d) \/ ClientStep(d) \/ ServerStep(d)
  \/ \E how \in {"left", "closed"} : AcceptFails(how)

(* Each end goes on when it can; nobody has to connect, call or hang up.   *)
Fairness == \A d \in Conns : WF_vars(ClientStep(d)) /\ WF_vars(ServerStep(d))

Spec == Init /\ [][Next]_vars /\ Fairness

-----------------------------------------------------------------------------
(* Properties *)

(* The state of a connection has its type; RPC is spoken only with a       *)
(* client that asked for it, and a dial that fails leaves nothing open.    *)
HTypeOK ==
  /\ dpc \in [Conns -> {"idle", "write", "status", "rpc", "called", "answered", "broken", "failed"}]
  /\ spc \in [Conns -> {"none", "backlog", "request", "hijacked", "serve", "end"}]
  /\ copen \subseteq Conns /\ sopen \subseteq Conns /\ listening \in {"loop", "left", "closed"}
  /\ \A d \in Conns : /\ spc[d] = "hijacked" => via[d] = "DialHTTP"
                     /\ dpc[d] = "failed" => d \notin copen

(* Nothing the RPC codecs write ends up in a buffered reader of the        *)
(* handshake, although ServeHTTP drops the one it gets from Hijack and     *)
(* DialHTTPPathTimeout its own.                                            *)
NothingLost == \A d \in Conns : via[d] # "GET" => lost[d] = {}

(* A dial returns, whoever answers, unless the server keeps the connection *)
(* and says nothing, as one behind Accept does: the timeout of             *)
(* DialHTTPPathTimeout is for connecting only.  It succeeds if ServeHTTP   *)
(* has the connection and keeps it.                                        *)
DialReturns ==
  \A d \in Conns :
    /\ (dpc[d] = "write" /\ srv[d] \in {"HandleHTTP", "other"})
         ~> (dpc[d] \in {"rpc", "called", "answered", "broken", "failed"})
    /\ (dpc[d] = "status" /\ via[d] = "DialHTTP" /\ spc[d] = "hijacked")
         ~> (dpc[d] \in {"rpc", "called", "answered", "broken"} \/ d \notin sopen)

(* A call over a new connection is answered, whatever other connections do *)
(* and although Accept may have returned, or the connection is broken; but *)
(* not one that waits to be accepted by an Accept that has returned.       *)
CallAnswered ==
  \A d \in Conns :
    (dpc[d] = "called" /\ (via[d] = "DialHTTP" \/ srv[d] = "Accept"))
      ~> \/ dpc[d] = "answered" \/ d \notin sopen
         \/ spc[d] = "backlog" /\ listening = "left"
=============================================================================
