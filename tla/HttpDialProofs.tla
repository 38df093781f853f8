---------------------------- MODULE HttpDialProofs ----------------------------
(***************************************************************************)
(* Proofs about HttpDial, for any number of connections.                   *)
(***************************************************************************)
EXTENDS HttpDial, TLAPS

Texts == {"CONNECT", "GET", "connected", "status", "call", "reply"}

(* The types of the variables.                                             *)
Shape ==
  /\ dpc \in [Conns -> {"idle", "write", "status", "rpc", "called", "answered", "broken", "failed"}]
  /\ spc \in [Conns -> {"none", "backlog", "request", "hijacked", "serve", "end"}]
  /\ copen \subseteq Conns /\ sopen \subseteq Conns /\ listening \in {"loop", "left", "closed"}
  /\ via \in [Conns -> {"Dial", "DialHTTP", "GET"}]
  /\ cs \in [Conns -> Seq(Texts)] /\ sc \in [Conns -> Seq(Texts)]
  /\ bufrw \in [Conns -> Seq(Texts)] /\ lost \in [Conns -> SUBSET Texts]

(* Nothing is sent to the client before the server has dealt with its      *)
(* request; a client that has not seen the answer has sent its request and *)
(* nothing else, and has been sent the answer at most.                     *)
ConnInv(d) ==
  /\ dpc[d] = "idle" => spc[d] = "none"
  /\ dpc[d] \in {"idle", "failed"} => d \notin copen
  /\ spc[d] \in {"none", "backlog", "request", "hijacked"} => sc[d] = <<>>
  /\ spc[d] = "request" => bufrw[d] # <<>>
  /\ via[d] = "Dial" => dpc[d] \notin {"write", "status"}
  /\ via[d] # "DialHTTP" =>
       /\ cs[d] \in Seq({"GET", "call"}) /\ bufrw[d] \in Seq({"GET", "call"})
       /\ spc[d] # "hijacked"
  /\ via[d] = "DialHTTP" =>
       /\ dpc[d] \in {"idle", "write"} => cs[d] = <<>>
       /\ dpc[d] \in {"status", "failed"} => cs[d] \in {<<>>, <<"CONNECT">>}
       /\ dpc[d] \in {"idle", "write", "status", "failed"} =>
            sc[d] \in {<<>>, <<"status">>, <<"connected">>}
       /\ dpc[d] \notin {"idle", "write", "status", "failed"} => spc[d] \in {"serve", "end"}
       /\ spc[d] = "request" => bufrw[d] = <<"CONNECT">>
  /\ via[d] # "GET" => lost[d] = {}

(* The inductive invariant.                                                *)
HttpInv == Shape /\ \A d \in Conns : ConnInv(d)

-----------------------------------------------------------------------------
(* Streams *)

(* A text put on an empty stream is all there is on it.                    *)
LEMMA PutFacts ==
  ASSUME NEW x
  PROVE  /\ Append(<<>>, x) = <<x>> /\ <<>> \o <<x>> = <<x>>
         /\ Len(<<x>>) = 1 /\ Head(<<x>>) = x /\ Len(<<>>) = 0
OBVIOUS

(* Reading from a stream, as far as n, gives texts that were on it.        *)
LEMMA ReadFacts ==
  ASSUME NEW T, NEW s \in Seq(T), NEW n \in 1 .. Len(s)
  PROVE  /\ s # <<>> /\ SubSeq(s, 1, n) \in Seq(T) /\ SubSeq(s, 1, n) # <<>>
         /\ Drop(s, n) \in Seq(T)
         /\ Len(s) = 1 => SubSeq(s, 1, n) = s /\ Drop(s, n) = <<>>
<1>0. Len(s) \in Nat /\ n \in Nat /\ n >= 1 /\ n <= Len(s)
  OBVIOUS
<1>1. s # <<>>
  BY <1>0
<1>2. SubSeq(s, 1, n) \in Seq(T) /\ Len(SubSeq(s, 1, n)) = n
  BY <1>0
<1>3. SubSeq(s, 1, n) # <<>>
  BY <1>0, <1>2
<1>4. Drop(s, n) \in Seq(T) /\ Len(Drop(s, n)) = Len(s) - n
  BY <1>0 DEF Drop
<1>5. ASSUME Len(s) = 1
      PROVE  SubSeq(s, 1, n) = s /\ Drop(s, n) = <<>>
  <2>1. n = 1
    BY <1>0, <1>5
  <2>2. Drop(s, n) = <<>>
    BY <1>4, <1>5, <2>1
  <2>3. SubSeq(s, 1, n) = s
    BY <1>2, <1>5, <2>1
  <2> QED
    BY <2>2, <2>3
<1> QED
  BY <1>1, <1>2, <1>3, <1>4, <1>5

(* The handshake's texts are not RPC values.                               *)
LEMMA ValuesFacts ==
  /\ \A x \in {"CONNECT", "status", "connected"} : Values(<<x>>) = {}
  /\ \A s : Values(s) \subseteq Texts
BY DEF Values, Texts

-----------------------------------------------------------------------------
(* Steps *)

(* A step on connection d leaves the others alone.                         *)
Only(d) ==
  /\ via' = via
  /\ \A e \in Conns \ {d} :
       /\ dpc'[e] = dpc[e] /\ spc'[e] = spc[e] /\ cs'[e] = cs[e] /\ sc'[e] = sc[e]
       /\ bufrw'[e] = bufrw[e] /\ lost'[e] = lost[e] /\ (e \in copen' <=> e \in copen)

(* So the invariant is to be shown for d.                                  *)
LEMMA OnlyFrame ==
  ASSUME HttpInv, NEW d \in Conns, Only(d), Shape', ConnInv(d)'
  PROVE  HttpInv'
<1>1. ASSUME NEW e \in Conns \ {d} PROVE ConnInv(e)'
  <2>1. ConnInv(e)
    BY DEF HttpInv
  <2>2. /\ via' = via /\ dpc'[e] = dpc[e] /\ spc'[e] = spc[e] /\ cs'[e] = cs[e] /\ sc'[e] = sc[e]
        /\ bufrw'[e] = bufrw[e] /\ lost'[e] = lost[e] /\ (e \in copen' <=> e \in copen)
    BY DEF Only
  <2> QED
    BY <2>1, <2>2 DEF ConnInv
<1> QED
  BY <1>1 DEF HttpInv

(* What the client does before there is a Client.                          *)
LEMMA DialStep ==
  ASSUME HttpInv, NEW d \in Conns,
         Connect(d) \/ DialFails(d) \/ WriteConnect(d) \/ StatusFails(d)
  PROVE  HttpInv'
<1> USE DEF endVars, clientVars, serverVars, Goto, SGoto
<1>0. Shape /\ ConnInv(d)
  BY DEF HttpInv
<1>1. CASE Connect(d)
  <2>1. Shape' /\ Only(d)
    BY <1>0, <1>1 DEF Connect, Shape, Only
  <2>2. /\ dpc[d] = "idle" /\ spc'[d] = "backlog" /\ via' = via
        /\ dpc'[d] = IF via[d] = "Dial" THEN "rpc" ELSE "write"
        /\ cs' = cs /\ sc' = sc /\ bufrw' = bufrw /\ lost' = lost
    BY <1>0, <1>1 DEF Connect, Shape
  <2>3. ConnInv(d)'
    BY <1>0, <2>2 DEF ConnInv
  <2> QED
    BY <2>1, <2>3, OnlyFrame
<1>2. CASE DialFails(d)
  <2>1. Shape' /\ Only(d)
    BY <1>0, <1>2 DEF DialFails, Shape, Only
  <2>2. /\ dpc[d] = "idle" /\ dpc'[d] = "failed" /\ via' = via /\ spc' = spc /\ copen' = copen
        /\ cs' = cs /\ sc' = sc /\ bufrw' = bufrw /\ lost' = lost
    BY <1>0, <1>2 DEF DialFails, Shape
  <2>3. ConnInv(d)'
    BY <1>0, <2>2 DEF ConnInv
  <2> QED
    BY <2>1, <2>3, OnlyFrame
<1>3. CASE WriteConnect(d)
  <2> DEFINE text == IF via[d] = "GET" THEN "GET" ELSE "CONNECT"
  <2>1. /\ dpc[d] = "write" /\ dpc'[d] = "status" /\ via' = via /\ spc' = spc /\ copen' = copen
        /\ sc' = sc /\ bufrw' = bufrw /\ lost' = lost /\ sopen' = sopen /\ listening' = listening
        /\ dpc' = [dpc EXCEPT ![d] = "status"]
        /\ cs' = IF d \in sopen THEN [cs EXCEPT ![d] = Append(@, text)] ELSE cs
    BY <1>0, <1>3 DEF WriteConnect, Shape, Put, Await
  <2>2. text \in Texts /\ cs[d] \in Seq(Texts)
    BY <1>0 DEF Texts, Shape
  <2>3. cs' \in [Conns -> Seq(Texts)] /\ cs'[d] \in {cs[d], Append(cs[d], text)}
    BY <1>0, <2>1, <2>2 DEF Shape
  <2>4. Shape' /\ Only(d)
    BY <1>0, <2>1, <2>3 DEF Shape, Only
  <2>5. via[d] # "DialHTTP" => text = "GET" /\ Append(cs[d], text) \in Seq({"GET", "call"})
    BY <1>0, <2>1 DEF ConnInv, Shape
  <2>6. via[d] = "DialHTTP" => text = "CONNECT" /\ cs[d] = <<>> /\ Append(cs[d], text) = <<"CONNECT">>
    BY <1>0, <2>1, PutFacts DEF ConnInv
  <2> HIDE DEF text
  <2>7. ConnInv(d)'
    BY <1>0, <2>1, <2>3, <2>5, <2>6 DEF ConnInv
  <2> QED
    BY <2>4, <2>7, OnlyFrame
<1>4. CASE StatusFails(d)
  <2>1. Shape' /\ Only(d)
    BY <1>0, <1>4 DEF StatusFails, Shape, Only, Abandon
  <2>2. /\ dpc[d] = "status" /\ dpc'[d] = "failed" /\ via' = via /\ spc' = spc /\ d \notin copen'
        /\ cs' = cs /\ sc' = sc /\ bufrw' = bufrw /\ lost' = lost
    BY <1>0, <1>4 DEF StatusFails, Shape, Abandon
  <2>3. ConnInv(d)'
    BY <1>0, <2>2 DEF ConnInv
  <2> QED
    BY <2>1, <2>3, OnlyFrame
<1> QED
  BY <1>1, <1>2, <1>3, <1>4

(* ReadStatus: with DialHTTP there is one text to be read, the answer, and *)
(* if it is the expected one then the server speaks RPC already.           *)
LEMMA ReadStatusStep ==
  ASSUME HttpInv, NEW d \in Conns, NEW n \in 1 .. Len(sc[d]), ReadStatus(d, n)
  PROVE  HttpInv'
<1> USE DEF endVars, clientVars, serverVars, Goto, SGoto
<1>0. Shape /\ ConnInv(d)
  BY DEF HttpInv
<1> DEFINE ok == Head(sc[d]) = "connected"
<1>1. /\ dpc[d] = "status" /\ via' = via /\ spc' = spc /\ cs' = cs /\ bufrw' = bufrw
      /\ sopen' = sopen /\ listening' = listening
      /\ sc' = [sc EXCEPT ![d] = Drop(sc[d], n)]
      /\ lost' = [lost EXCEPT ![d] = @ \cup Values(SubSeq(sc[d], 1, n))]
      /\ dpc' = [dpc EXCEPT ![d] = IF ok THEN "rpc" ELSE "failed"]
      /\ copen' = IF ok THEN copen ELSE copen \ {d}
  BY <1>0 DEF ReadStatus, Abandon
<1>2. /\ sc[d] \in Seq(Texts) /\ Drop(sc[d], n) \in Seq(Texts) /\ sc[d] # <<>>
      /\ Values(SubSeq(sc[d], 1, n)) \subseteq Texts
      /\ Len(sc[d]) = 1 => SubSeq(sc[d], 1, n) = sc[d] /\ Drop(sc[d], n) = <<>>
  <2>1. sc[d] \in Seq(Texts)
    BY <1>0 DEF Shape
  <2> QED
    BY <2>1, ReadFacts, ValuesFacts
<1>3. /\ sc'[d] = Drop(sc[d], n) /\ dpc'[d] \in {"rpc", "failed"}
      /\ lost'[d] = lost[d] \cup Values(SubSeq(sc[d], 1, n))
      /\ dpc'[d] = "failed" => d \notin copen'
  BY <1>0, <1>1 DEF Shape
<1>4. Shape' /\ Only(d)
  <2>1. sc' \in [Conns -> Seq(Texts)] /\ lost' \in [Conns -> SUBSET Texts] /\ copen' \subseteq Conns
    BY <1>0, <1>1, <1>2 DEF Shape
  <2>2. dpc' \in [Conns -> {"idle", "write", "status", "rpc", "called", "answered", "broken", "failed"}]
    BY <1>0, <1>1 DEF Shape
  <2> HIDE DEF ok
  <2>3. Shape'
    BY <1>0, <1>1, <2>1, <2>2 DEF Shape
  <2>4. Only(d)
    BY <1>0, <1>1 DEF Shape, Only
  <2> QED
    BY <2>3, <2>4
<1>5. spc[d] \in {"serve", "end"}
  BY <1>0, <1>2 DEF ConnInv, Shape
<1>6. ASSUME via[d] = "DialHTTP"
      PROVE  sc'[d] = <<>> /\ lost'[d] = lost[d]
  <2>1. sc[d] \in {<<"status">>, <<"connected">>}
    BY <1>0, <1>1, <1>2, <1>6 DEF ConnInv
  <2>2. Len(sc[d]) = 1 /\ Values(sc[d]) = {}
    BY <2>1, PutFacts, ValuesFacts
  <2> QED
    BY <1>2, <1>3, <2>2
<1>7. ConnInv(d)'
  <2>1. via[d] \in {"DialHTTP", "GET"}
    BY <1>0, <1>1 DEF ConnInv, Shape
  <2> HIDE DEF ok
  <2> QED
    BY <1>0, <1>1, <1>3, <1>5, <1>6, <2>1 DEF ConnInv
<1> QED
  BY <1>4, <1>7, OnlyFrame

(* What a Client does with its connection.                                 *)
LEMMA ClientStepInv ==
  ASSUME HttpInv, NEW d \in Conns, Call(d) \/ CallEnds(d) \/ ClientCloses(d)
  PROVE  HttpInv'
<1> USE DEF endVars, clientVars, serverVars, Goto, SGoto
<1>0. Shape /\ ConnInv(d)
  BY DEF HttpInv
<1>1. CASE Call(d)
  <2>1. /\ dpc[d] = "rpc" /\ via' = via /\ spc' = spc /\ copen' = copen
        /\ sc' = sc /\ bufrw' = bufrw /\ lost' = lost /\ sopen' = sopen /\ listening' = listening
        /\ dpc' = [dpc EXCEPT ![d] = "called"]
        /\ cs' = IF d \in sopen THEN [cs EXCEPT ![d] = Append(@, "call")] ELSE cs
    BY <1>1 DEF Call, Put
  <2>2. "call" \in Texts /\ cs[d] \in Seq(Texts)
    BY <1>0 DEF Texts, Shape
  <2>3. cs' \in [Conns -> Seq(Texts)] /\ cs'[d] \in {cs[d], Append(cs[d], "call")}
    BY <1>0, <2>1, <2>2 DEF Shape
  <2>4. Shape' /\ Only(d) /\ dpc'[d] = "called"
    BY <1>0, <2>1, <2>3 DEF Shape, Only
  <2>5. via[d] # "DialHTTP" => Append(cs[d], "call") \in Seq({"GET", "call"})
    BY <1>0 DEF ConnInv
  <2>6. ConnInv(d)'
    BY <1>0, <2>1, <2>3, <2>4, <2>5 DEF ConnInv
  <2> QED
    BY <2>4, <2>6, OnlyFrame
<1>2. CASE CallEnds(d)
  <2>1. /\ dpc[d] = "called" /\ dpc'[d] \in {"answered", "broken"}
        /\ via' = via /\ spc' = spc /\ copen' = copen /\ cs' = cs
        /\ bufrw' = bufrw /\ lost' = lost /\ sopen' = sopen /\ listening' = listening
        /\ dpc' \in [Conns -> {"idle", "write", "status", "rpc", "called", "answered", "broken", "failed"}]
        /\ \A e \in Conns \ {d} : dpc'[e] = dpc[e]
        /\ sc' = sc \/ (sc[d] # <<>> /\ sc' = [sc EXCEPT ![d] = Tail(sc[d])])
    BY <1>0, <1>2 DEF CallEnds, Shape
  <2>2. sc' \in [Conns -> Seq(Texts)] /\ \A e \in Conns \ {d} : sc'[e] = sc[e]
    <3>1. sc \in [Conns -> Seq(Texts)] /\ (sc[d] # <<>> => Tail(sc[d]) \in Seq(Texts))
      BY <1>0 DEF Shape
    <3> QED
      BY <2>1, <3>1
  <2>3. Shape' /\ Only(d)
    BY <1>0, <2>1, <2>2 DEF Shape, Only
  <2>4. spc[d] \in {"none", "backlog", "request", "hijacked"} => sc'[d] = <<>>
    BY <1>0, <2>1 DEF ConnInv
  <2>5. ConnInv(d)'
    BY <1>0, <2>1, <2>4 DEF ConnInv
  <2> QED
    BY <2>3, <2>5, OnlyFrame
<1>3. CASE ClientCloses(d)
  <2>1. Shape' /\ Only(d)
    BY <1>0, <1>3 DEF ClientCloses, Shape, Only
  <2>2. ConnInv(d)'
    BY <1>0, <1>3 DEF ClientCloses, ConnInv
  <2> QED
    BY <2>1, <2>2, OnlyFrame
<1> QED
  BY <1>1, <1>2, <1>3

(* What the HTTP server and ServeHTTP do: there is nothing to read ahead   *)
(* of a CONNECT, whose sender waits for the answer.                        *)
LEMMA HttpStep ==
  ASSUME HttpInv, NEW d \in Conns,
         Answer(d) \/ Hijack(d) \/ WriteStatus(d) \/ \E n \in 1 .. Len(cs[d]) : HttpRequest(d, n)
  PROVE  HttpInv'
<1> USE DEF endVars, clientVars, serverVars, Goto, SGoto
<1>0. Shape /\ ConnInv(d)
  BY DEF HttpInv
<1>1. ASSUME NEW n \in 1 .. Len(cs[d]), HttpRequest(d, n)
      PROVE  HttpInv'
  <2>1. /\ spc[d] = "backlog" /\ dpc' = dpc /\ copen' = copen /\ sopen' = sopen
        /\ listening' = listening /\ sc' = sc /\ lost' = lost /\ via' = via
        /\ cs' = [cs EXCEPT ![d] = Drop(cs[d], n)] /\ bufrw' = [bufrw EXCEPT ![d] = SubSeq(cs[d], 1, n)]
        /\ spc' = [spc EXCEPT ![d] = "request"]
    BY <1>1 DEF HttpRequest
  <2>2. /\ cs[d] \in Seq(Texts) /\ cs[d] # <<>> /\ Drop(cs[d], n) \in Seq(Texts)
        /\ SubSeq(cs[d], 1, n) \in Seq(Texts) /\ SubSeq(cs[d], 1, n) # <<>>
        /\ Len(cs[d]) = 1 => SubSeq(cs[d], 1, n) = cs[d] /\ Drop(cs[d], n) = <<>>
    <3>1. cs[d] \in Seq(Texts)
      BY <1>0 DEF Shape
    <3> QED
      BY <3>1, ReadFacts
  <2>3. /\ cs'[d] = Drop(cs[d], n) /\ bufrw'[d] = SubSeq(cs[d], 1, n) /\ spc'[d] = "request"
        /\ cs' \in [Conns -> Seq(Texts)] /\ bufrw' \in [Conns -> Seq(Texts)]
    BY <1>0, <2>1, <2>2 DEF Shape
  <2>4. Shape' /\ Only(d)
    BY <1>0, <2>1, <2>3 DEF Shape, Only
  <2>5. via[d] # "DialHTTP" =>
          Drop(cs[d], n) \in Seq({"GET", "call"}) /\ SubSeq(cs[d], 1, n) \in Seq({"GET", "call"})
    <3> DEFINE T == {"GET", "call"}
    <3>1. via[d] # "DialHTTP" => cs[d] \in Seq(T)
      BY <1>0 DEF ConnInv
    <3> HIDE DEF T
    <3>2. via[d] # "DialHTTP" => Drop(cs[d], n) \in Seq(T) /\ SubSeq(cs[d], 1, n) \in Seq(T)
      BY <3>1, ReadFacts
    <3> QED
      BY <3>2 DEF T
  <2>6. ASSUME via[d] = "DialHTTP"
        PROVE  cs[d] = <<"CONNECT">> /\ bufrw'[d] = <<"CONNECT">> /\ cs'[d] = <<>>
    <3>1. cs[d] = <<"CONNECT">>
      BY <1>0, <2>1, <2>2, <2>6 DEF ConnInv, Shape
    <3>2. Len(cs[d]) = 1
      BY <3>1, PutFacts
    <3> QED
      BY <2>2, <2>3, <3>1, <3>2
  <2>7. ConnInv(d)'
    BY <1>0, <2>1, <2>2, <2>3, <2>5, <2>6 DEF ConnInv
  <2> QED
    BY <2>4, <2>7, OnlyFrame
<1>2. CASE Answer(d)
  <2>1. /\ spc[d] = "request" /\ dpc' = dpc /\ copen' = copen /\ sopen' = sopen \ {d}
        /\ listening' = listening /\ cs' = cs /\ bufrw' = bufrw /\ lost' = lost /\ via' = via
        /\ sc' = IF d \in sopen THEN [sc EXCEPT ![d] = Append(sc[d], "status")] ELSE sc
        /\ spc' = [spc EXCEPT ![d] = "end"]
    BY <1>2 DEF Answer, Put
  <2>2. sc[d] = <<>> /\ Append(sc[d], "status") = <<"status">> /\ <<"status">> \in Seq(Texts)
    <3>1. sc[d] = <<>>
      BY <1>0, <2>1 DEF ConnInv
    <3>2. <<"status">> \in Seq(Texts)
      BY DEF Texts
    <3> QED
      BY <3>1, <3>2, PutFacts
  <2>3. /\ sc'[d] \in {<<>>, <<"status">>} /\ spc'[d] = "end" /\ sc' \in [Conns -> Seq(Texts)]
    BY <1>0, <2>1, <2>2 DEF Shape
  <2>4. Shape' /\ Only(d)
    BY <1>0, <2>1, <2>3 DEF Shape, Only
  <2>5. ConnInv(d)'
    BY <1>0, <2>1, <2>3 DEF ConnInv
  <2> QED
    BY <2>4, <2>5, OnlyFrame
<1>3. CASE Hijack(d)
  <2>1. /\ spc[d] = "request" /\ dpc' = dpc /\ copen' = copen /\ sopen' = sopen
        /\ listening' = listening /\ cs' = cs /\ bufrw' = bufrw /\ sc' = sc /\ via' = via
        /\ lost' = [lost EXCEPT ![d] = @ \cup Values(bufrw[d])]
        /\ spc' = [spc EXCEPT ![d] = "hijacked"] /\ Head(bufrw[d]) = "CONNECT"
    BY <1>3 DEF Hijack, IsConnect
  <2>2. via[d] = "DialHTTP"
    <3> SUFFICES ASSUME via[d] # "DialHTTP" PROVE FALSE
      OBVIOUS
    <3>1. bufrw[d] \in Seq({"GET", "call"}) /\ bufrw[d] # <<>>
      BY <1>0, <2>1 DEF ConnInv
    <3>2. Head(bufrw[d]) \in {"GET", "call"}
      BY <3>1
    <3> QED
      BY <2>1, <3>2
  <2>3. Values(bufrw[d]) = {}
    BY <1>0, <2>1, <2>2, ValuesFacts DEF ConnInv
  <2>4. lost'[d] = lost[d] /\ spc'[d] = "hijacked" /\ lost' \in [Conns -> SUBSET Texts]
    BY <1>0, <2>1, <2>3 DEF Shape
  <2>5. Shape' /\ Only(d)
    BY <1>0, <2>1, <2>4 DEF Shape, Only
  <2>6. ConnInv(d)'
    BY <1>0, <2>1, <2>2, <2>4 DEF ConnInv
  <2> QED
    BY <2>5, <2>6, OnlyFrame
<1>4. CASE WriteStatus(d)
  <2>1. /\ spc[d] = "hijacked" /\ dpc' = dpc /\ copen' = copen /\ sopen' = sopen
        /\ listening' = listening /\ cs' = cs /\ bufrw' = bufrw /\ lost' = lost /\ via' = via
        /\ sc' = IF d \in sopen THEN [sc EXCEPT ![d] = sc[d] \o <<"connected">>] ELSE sc
        /\ spc' = [spc EXCEPT ![d] = "serve"]
    BY <1>4 DEF WriteStatus, Text
  <2>2. sc[d] = <<>> /\ sc[d] \o <<"connected">> = <<"connected">> /\ <<"connected">> \in Seq(Texts)
    <3>1. sc[d] = <<>>
      BY <1>0, <2>1 DEF ConnInv
    <3>2. <<"connected">> \in Seq(Texts)
      BY DEF Texts
    <3> QED
      BY <3>1, <3>2, PutFacts
  <2>3. sc'[d] \in {<<>>, <<"connected">>} /\ spc'[d] = "serve" /\ sc' \in [Conns -> Seq(Texts)]
    BY <1>0, <2>1, <2>2 DEF Shape
  <2>4. Shape' /\ Only(d)
    BY <1>0, <2>1, <2>3 DEF Shape, Only
  <2>5. ConnInv(d)'
    BY <1>0, <2>1, <2>3 DEF ConnInv
  <2> QED
    BY <2>4, <2>5, OnlyFrame
<1> QED
  BY <1>1, <1>2, <1>3, <1>4

(* What the Accept loop and ServeConn do: they answer calls only.          *)
LEMMA ServeStep ==
  ASSUME HttpInv, NEW d \in Conns, Accept(d) \/ Serve(d) \/ NotGob(d) \/ ServerCloses(d)
  PROVE  HttpInv'
<1> USE DEF endVars, clientVars, serverVars, Goto, SGoto
<1>0. Shape /\ ConnInv(d)
  BY DEF HttpInv
<1>1. CASE Accept(d)
  <2>1. /\ spc[d] = "backlog" /\ spc' = [spc EXCEPT ![d] = "serve"]
        /\ UNCHANGED <<via, dpc, copen, bufrw, sopen, listening, cs, sc, lost>>
    BY <1>1 DEF Accept
  <2>2. Shape' /\ Only(d) /\ spc'[d] = "serve"
    BY <1>0, <2>1 DEF Shape, Only
  <2>3. ConnInv(d)'
    BY <1>0, <2>1, <2>2 DEF ConnInv
  <2> QED
    BY <2>2, <2>3, OnlyFrame
<1>2. CASE Serve(d)
  <2>0. spc[d] = "serve" /\ UNCHANGED <<via, dpc, copen, bufrw, listening, lost>>
    BY <1>2 DEF Serve
  <2>1. CASE /\ cs[d] # <<>> /\ Head(cs[d]) = "call"
             /\ cs' = [cs EXCEPT ![d] = Tail(cs[d])] /\ sc' = Put(sc, d, "reply")
             /\ UNCHANGED <<spc, sopen>>
    <3>1. /\ cs \in [Conns -> Seq(Texts)] /\ Tail(cs[d]) \in Seq(Texts) /\ "reply" \in Texts
          /\ sc \in [Conns -> Seq(Texts)]
      BY <1>0, <2>1 DEF Shape, Texts
    <3>2. Append(sc[d], "reply") \in Seq(Texts)
      BY <3>1
    <3>3. /\ cs' \in [Conns -> Seq(Texts)] /\ sc' \in [Conns -> Seq(Texts)]
          /\ cs'[d] = Tail(cs[d])
          /\ \A e \in Conns \ {d} : cs'[e] = cs[e] /\ sc'[e] = sc[e]
      BY <2>1, <3>1, <3>2 DEF Put
    <3>4. Shape' /\ Only(d)
      BY <1>0, <2>0, <2>1, <3>3 DEF Shape, Only
    <3>5. via[d] # "DialHTTP" => Tail(cs[d]) \in Seq({"GET", "call"})
      BY <1>0, <2>1 DEF ConnInv
    <3>6. via[d] = "DialHTTP" => dpc[d] \notin {"idle", "write", "status", "failed"}
      BY <1>0, <2>1, PutFacts DEF ConnInv
    <3>7. ConnInv(d)'
      BY <1>0, <2>0, <2>1, <3>3, <3>5, <3>6 DEF ConnInv
    <3> QED
      BY <3>4, <3>7, OnlyFrame
  <2>2. CASE sopen' = sopen \ {d} /\ spc' = [spc EXCEPT ![d] = "end"] /\ UNCHANGED <<cs, sc>>
    <3>1. Shape' /\ Only(d) /\ spc'[d] = "end"
      BY <1>0, <2>0, <2>2 DEF Shape, Only
    <3>2. ConnInv(d)'
      BY <1>0, <2>0, <2>2, <3>1 DEF ConnInv
    <3> QED
      BY <3>1, <3>2, OnlyFrame
  <2> QED
    BY <1>2, <2>1, <2>2 DEF Serve
<1>3. CASE ServerCloses(d)
  <2>1. Shape' /\ Only(d)
    BY <1>0, <1>3 DEF ServerCloses, Shape, Only
  <2>2. ConnInv(d)'
    BY <1>0, <1>3 DEF ServerCloses, ConnInv
  <2> QED
    BY <2>1, <2>2, OnlyFrame
<1>4. CASE NotGob(d)
  <2>0. /\ spc[d] = "serve" /\ sopen' = sopen \ {d} /\ spc' = [spc EXCEPT ![d] = "end"]
        /\ UNCHANGED <<via, dpc, copen, bufrw, listening, cs, sc, lost>>
    BY <1>4 DEF NotGob
  <2>1. Shape' /\ Only(d) /\ spc'[d] = "end"
    BY <1>0, <2>0 DEF Shape, Only
  <2>2. ConnInv(d)'
    BY <1>0, <2>0, <2>1 DEF ConnInv
  <2> QED
    BY <2>1, <2>2, OnlyFrame
<1> QED
  BY <1>1, <1>2, <1>3, <1>4

-----------------------------------------------------------------------------
(* The theorems *)

(* The invariant holds before anyone connects.                             *)
LEMMA InitInv == Init => HttpInv
<1> SUFFICES ASSUME Init PROVE HttpInv
  OBVIOUS
<1>1. <<>> \in Seq(Texts) /\ <<>> \in Seq({"GET", "call"})
  OBVIOUS
<1>2. Shape
  BY <1>1 DEF Init, Shape
<1>3. ASSUME NEW d \in Conns PROVE ConnInv(d)
  BY <1>1 DEF Init, ConnInv
<1> QED
  BY <1>2, <1>3 DEF HttpInv

(* Every step preserves it.                                                *)
LEMMA NextInv == HttpInv /\ [Next]_vars => HttpInv'
<1> SUFFICES ASSUME HttpInv, [Next]_vars PROVE HttpInv'
  OBVIOUS
<1>1. ASSUME NEW d \in Conns,
             \/ Connect(d) \/ DialFails(d) \/ Call(d) \/ ClientCloses(d)
             \/ ServerCloses(d) \/ NotGob(d) \/ ClientStep(d) \/ ServerStep(d)
      PROVE  HttpInv'
  BY <1>1, DialStep, ReadStatusStep, ClientStepInv, HttpStep, ServeStep DEF ClientStep, ServerStep
<1>2. ASSUME NEW how \in {"left", "closed"}, AcceptFails(how)
      PROVE  HttpInv'
  <2>1. /\ listening' = how /\ sopen' \subseteq sopen
        /\ UNCHANGED <<via, dpc, copen, spc, bufrw, cs, sc, lost>>
    BY <1>2 DEF AcceptFails, endVars, clientVars
  <2> QED
    BY <2>1 DEF HttpInv, Shape, ConnInv
<1>3. CASE UNCHANGED vars
  BY <1>3 DEF vars, endVars, clientVars, serverVars, HttpInv, Shape, ConnInv
<1> QED
  BY <1>1, <1>2, <1>3 DEF Next

(* HttpInv holds in every reachable state of the dials and the listeners.  *)
THEOREM HttpInvariance == Spec => []HttpInv
BY InitInv, NextInv, PTL DEF Spec

(* The variables keep their types; ServeHTTP hijacks only connections of   *)
(* DialHTTP, and a dial that has failed has closed its connection.         *)
THEOREM TypeCorrect == Spec => []HTypeOK
<1>1. HttpInv => HTypeOK
  BY DEF HttpInv, Shape, ConnInv, HTypeOK
<1> QED
  BY <1>1, HttpInvariance, PTL

(* The buffered readers that ServeHTTP and DialHTTPPathTimeout drop never  *)
(* hold anything of the RPC conversation.                                  *)
THEOREM NothingIsLost == Spec => []NothingLost
<1>1. HttpInv => NothingLost
  BY DEF HttpInv, ConnInv, NothingLost
<1> QED
  BY <1>1, HttpInvariance, PTL
=============================================================================
