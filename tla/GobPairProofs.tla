---------------------------- MODULE GobPairProofs ----------------------------
(***************************************************************************)
(* Proofs about GobPair, for any finite number of calls of any kind, from  *)
(* either end, over either pair of codecs and a transport of any capacity. *)
(***************************************************************************)
EXTENDS GobPair, FiniteSetTheorems, SequenceTheorems, TLAPS

Headers == [call : Writers, seq : Nat, method : {"", "unknown", "known"}, error : BOOLEAN]
Bodies == [body : Writers]
Values == Headers \cup Bodies
Labels == {"none", "lock", "header", "body", "done"}
ReaderLabels == {"header", "args", "reply", "reject", "final", "wait", "stopped"}

(* The types of the variables.  A Server makes no calls, and only a codec  *)
(* with a buffer has something in it.                                      *)
Shape ==
  /\ codec \in {"gobCodec", "client/server"}
  /\ kind \in [Calls -> Kinds] /\ from \in [Calls -> Ends] /\ loose \subseteq Calls
  /\ Buffered => \A c \in Calls : from[c] = "a"
  /\ seq \in [Calls -> Nat] /\ nseq \in [Ends -> Nat] /\ pending \subseteq Calls
  /\ res \in [Calls -> {Nothing, Error} \cup Writers]
  /\ args \in [Calls -> {Nothing} \cup Writers]
  /\ wpc \in [Writers -> Labels] /\ mutex \in [Ends -> Writers \cup {NoOne}]
  /\ encBuf \in [Ends -> Seq(Headers)] /\ conn \in [Ends -> Seq(Values)]
  /\ ~Buffered => \A e \in Ends : encBuf[e] = <<>>
  /\ open \in BOOLEAN
  /\ ipc \in [Ends -> ReaderLabels] /\ msg \in [Ends -> Headers \cup {NoMsg}]
  /\ misled \subseteq Ends /\ shutdown \subseteq Ends

(* The numbers of the calls of an end are different.                       *)
SeqInv ==
  /\ \A c \in Calls : seq[c] <= nseq[from[c]] /\ (c \in pending => seq[c] # 0)
  /\ \A c, d \in Calls : from[c] = from[d] /\ seq[c] = seq[d] /\ seq[c] # 0 => c = d

(* The mutex is held by who writes.  A handler runs after its caller has   *)
(* written the request, and a reader writes only what it rejects, which a  *)
(* Client does not.                                                        *)
ControlInv ==
  /\ \A w \in Writers : wpc[w] \in {"header", "body"} <=> mutex[End(w)] = w
  /\ \A c \in Calls : wpc[Handler(c)] # "none" => wpc[Caller(c)] = "done"
  /\ \A e \in Ends : /\ ipc[e] # "reject" => wpc[Reader(e)] = "none"
                     /\ IsClient(e) => ipc[e] \notin {"args", "reject"} /\ e \notin misled

(* The header a reader has, and what it takes for a response.              *)
Expecting(e) == ipc[e] \in {"args", "reply"}
MsgInv ==
  \A e \in Ends : /\ Expecting(e) => msg[e] \in Headers
                  /\ ipc[e] = "reply" => msg[e].method = "" /\ ~IsServer(e)

-----------------------------------------------------------------------------
(* All that an end has still to take in, in order: the header its reader   *)
(* has, if it expects the body, what is on the connection, and, as long as *)
(* that is open, what is in the buffer of the other end.                   *)
Read1(e) == IF Expecting(e) THEN <<msg[e]>> ELSE <<>>
Buf(e) == IF open THEN encBuf[Peer(e)] ELSE <<>>
Str(e) == Read1(e) \o (conn[e] \o Buf(e))

(* What may come first: a Client finds a header as long as it reads, an    *)
(* end that has been misled may have a body for a header, and other ends   *)
(* may find either.                                                        *)
Mode(e) ==
  IF Expecting(e) /\ e \in misled THEN "fake"
  ELSE IF IsClient(e) /\ ipc[e] \in {"header", "reply"} THEN "header" ELSE "any"

(* A header that is on its way to an end, or has been read there.          *)
GoodHeader(h, e) ==
  /\ End(h.call) = Peer(e)
  /\ h.call[1] = "call" => wpc[h.call] \in {"body", "done"} /\ h.method = Method(h.call[2])
  /\ h.call[1] = "handle" => wpc[Caller(h.call[2])] = "done"
  /\ h.call[1] # "input" => h.seq = seq[h.call[2]]
  /\ h.call[1] # "call" => h.method = ""
  /\ h.call[1] = "input" => h.error /\ ~IsClient(h.call[2])

GoodBody(w, e) == End(w) = Peer(e) /\ (w[1] = "call" => wpc[w] = "done")

(* The request whose header this is could not be encoded.                  *)
Alone(h) == h.call[1] = "call" /\ ~Encodable(h.call) /\ wpc[h.call] = "done"

(* The first header is a body that has been taken for one.                 *)
Fake(s, m) == m = "fake" /\ s[1].method = ""

(* A body comes right after its own header, and a header without a body is *)
(* that of such a request.                                                 *)
PlaceOK(s, e, m, i) ==
  IF IsHeader(s[i])
  THEN /\ GoodHeader(s[i], e) \/ (i = 1 /\ Fake(s, m))
       /\ i # 1 /\ IsHeader(s[i - 1]) => Alone(s[i - 1]) \/ (i = 2 /\ Fake(s, m))
  ELSE /\ GoodBody(s[i].body, e)
       /\ IF i = 1 THEN m = "any"
          ELSE IsHeader(s[i - 1]) /\ GoodHeader(s[i - 1], e) /\ s[i - 1].call = s[i].body
StrOK(s, e, m) == \A i \in DOMAIN s : PlaceOK(s, e, m, i)

(* A request is there once, and its handler not started.                   *)
KnownAt(s, i) == IsHeader(s[i]) /\ s[i].method = "known"
KnownOK(s) ==
  /\ \A i \in DOMAIN s : KnownAt(s, i) => wpc[Handler(s[i].call[2])] = "none"
  /\ \A i, j \in DOMAIN s : KnownAt(s, i) /\ KnownAt(s, j) /\ s[i].call = s[j].call => i = j

(* The last header belongs to a writer that is about to write the body, or *)
(* failed to encode it; and the header of such a writer is the last, if it *)
(* has not been taken for something else.                                  *)
LastOK(s, m) ==
  s # <<>> /\ IsHeader(s[Len(s)]) =>
    wpc[s[Len(s)].call] = "body" \/ Alone(s[Len(s)]) \/ (Len(s) = 1 /\ Fake(s, m))
ReadyOK(s, e, m) ==
  \A w \in Writers : wpc[w] = "body" /\ End(w) = Peer(e) =>
    IF s = <<>> THEN m = "any"
    ELSE IsHeader(s[Len(s)]) /\ GoodHeader(s[Len(s)], e) /\ s[Len(s)].call = w

Stream(e) ==
  \A s \in {Str(e)}, m \in {Mode(e)} :
    StrOK(s, e, m) /\ KnownOK(s) /\ (open => LastOK(s, m) /\ ReadyOK(s, e, m))
StreamInv == \A e \in Ends : Stream(e)

-----------------------------------------------------------------------------
(* What the buffers hold: at a Client headers of different requests, at a  *)
(* Server nothing between two responses.                                   *)
ClientBuf ==
  /\ \A i \in DOMAIN encBuf["a"] : encBuf["a"][i].call[1] = "call"
                                   /\ wpc[encBuf["a"][i].call] \in {"body", "done"}
  /\ \A i, j \in DOMAIN encBuf["a"] : encBuf["a"][i].call = encBuf["a"][j].call => i = j
ServerBuf ==
  open /\ encBuf["b"] # <<>> =>
    Len(encBuf["b"]) = 1 /\ \E w \in Writers : End(w) = "b" /\ wpc[w] = "body"
BufInv == ClientBuf /\ ServerBuf

LenInv == \A e \in Ends : Len(conn[e]) <= Cap + Cardinality(Calls)

(* The inductive invariant.                                                *)
PairInv ==
  /\ Shape /\ SeqInv /\ ControlInv /\ MsgInv /\ StreamInv /\ BufInv /\ LenInv
  /\ ReplyIsOwn /\ ArgsAreOwn

-----------------------------------------------------------------------------
(* Ends, writers and values *)

LEMMA EndsFacts ==
  ASSUME NEW e \in Ends
  PROVE  /\ Peer(e) \in Ends /\ Peer(e) # e /\ Peer(Peer(e)) = e
         /\ \A x \in Ends : x = e \/ x = Peer(e)
<1>1. "a" \in Ends /\ "b" \in Ends /\ "a" # "b" /\ \A x \in Ends : x = "a" \/ x = "b"
  BY DEF Ends
<1>2. ASSUME NEW d \in Ends PROVE Peer(d) \in Ends /\ Peer(d) # d
  <2>1. \E x \in Ends : x # d
    BY <1>1
  <2> QED
    BY <2>1 DEF Peer
<1>3. \A d, x, y \in Ends : x # d /\ y # d => x = y
  BY <1>1
<1> QED
  BY <1>2, <1>3

LEMMA WriterFacts ==
  /\ \A c \in Calls : /\ Caller(c) \in Writers /\ Caller(c)[1] = "call" /\ Caller(c)[2] = c
                      /\ Handler(c) \in Writers /\ Handler(c)[1] = "handle" /\ Handler(c)[2] = c
  /\ \A e \in Ends : Reader(e) \in Writers /\ Reader(e)[1] = "input" /\ Reader(e)[2] = e
  /\ \A w \in Writers :
       \/ w[1] = "call" /\ w[2] \in Calls /\ w = Caller(w[2])
       \/ w[1] = "handle" /\ w[2] \in Calls /\ w = Handler(w[2])
       \/ w[1] = "input" /\ w[2] \in Ends /\ w = Reader(w[2])
  /\ NoOne \notin Writers
BY DEF Caller, Handler, Reader, Writers, NoOne

LEMMA EndFacts ==
  ASSUME from \in [Calls -> Ends]
  PROVE  /\ \A c \in Calls : End(Caller(c)) = from[c] /\ End(Handler(c)) = Peer(from[c])
         /\ \A e \in Ends : End(Reader(e)) = e
         /\ \A w \in Writers : End(w) \in Ends
<1>1. \A c \in Calls : End(Caller(c)) = from[c] /\ End(Handler(c)) = Peer(from[c])
  BY WriterFacts DEF End
<1>2. \A e \in Ends : End(Reader(e)) = e
  BY WriterFacts DEF End
<1>3. ASSUME NEW w \in Writers PROVE End(w) \in Ends
  BY <1>1, <1>2, WriterFacts, EndsFacts
<1> QED
  BY <1>1, <1>2, <1>3

LEMMA HeaderType ==
  ASSUME NEW h \in Headers
  PROVE  /\ IsHeader(h) /\ h.call \in Writers /\ h.seq \in Nat /\ h.error \in BOOLEAN
         /\ h \in Values
<1>1. IsHeader(h)
  BY DEF Headers, IsHeader
<1>2. h.call \in Writers /\ h.seq \in Nat
  BY DEF Headers
<1>3. h.error \in BOOLEAN
  BY DEF Headers
<1> QED
  BY <1>1, <1>2, <1>3 DEF Values

LEMMA BodyType ==
  ASSUME NEW w \in Writers
  PROVE  Body(w) \in Values /\ ~IsHeader(Body(w)) /\ Body(w).body = w
<1>1. Body(w) \in Bodies
  BY DEF Body, Bodies
<1>2. ~IsHeader(Body(w))
  BY DEF Body, IsHeader
<1> QED
  BY <1>1, <1>2 DEF Values, Body

LEMMA ValueFacts ==
  ASSUME NEW v \in Values
  PROVE  /\ IsHeader(v) => v \in Headers
         /\ ~IsHeader(v) => v.body \in Writers /\ v = Body(v.body)
<1>1. CASE v \in Headers
  BY <1>1, HeaderType
<1>2. CASE v \in Bodies
  BY <1>2 DEF Bodies, Body, IsHeader
<1> QED
  BY <1>1, <1>2 DEF Values

(* Two writers that are busy at the same end are one.                      *)
LEMMA OneWriter ==
  ASSUME ControlInv, NEW v \in Writers, NEW w \in Writers, End(v) = End(w),
         wpc[v] \in {"header", "body"}, wpc[w] \in {"header", "body"}
  PROVE  v = w
BY DEF ControlInv

LEMMA MakeHeader ==
  ASSUME NEW w \in Writers, NEW n \in Nat, NEW m \in {"", "unknown", "known"}
  PROVE  /\ [call |-> w, seq |-> n, method |-> m, error |-> FALSE] \in Headers
         /\ [call |-> w, seq |-> n, method |-> m, error |-> TRUE] \in Headers
BY DEF Headers

(* What a writer writes as its header.                                     *)
LEMMA HeaderFacts ==
  ASSUME Shape, NEW w \in Writers
  PROVE  /\ Header(w) \in Headers /\ Header(w).call = w
         /\ w[1] = "call" => Header(w).method = Method(w[2])
         /\ w[1] # "call" => Header(w).method = ""
         /\ w[1] # "input" => Header(w).seq = seq[w[2]]
         /\ w[1] = "input" => Header(w).error
<1>1. \A c \in Calls : Method(c) \in {"", "unknown", "known"}
  BY DEF Method
<1>2. \A e \in Ends : msg[e].seq \in Nat
  <2>1. \A e \in Ends : msg[e] \in Headers \/ msg[e] = NoMsg
    BY DEF Shape
  <2>2. NoMsg.seq \in Nat
    BY DEF NoMsg
  <2> QED
    BY <2>1, <2>2, HeaderType
<1>3. CASE w[1] = "call"
  <2>1. Header(w) = [call |-> w, seq |-> seq[w[2]], method |-> Method(w[2]), error |-> FALSE]
    BY <1>3 DEF Header
  <2>2. w[2] \in Calls /\ seq[w[2]] \in Nat
    BY <1>3, WriterFacts DEF Shape
  <2> DEFINE n == seq[w[2]]
             m == Method(w[2])
  <2>3. n \in Nat /\ m \in {"", "unknown", "known"}
    BY <1>1, <2>2
  <2> HIDE DEF n, m
  <2>4. Header(w) = [call |-> w, seq |-> n, method |-> m, error |-> FALSE]
    BY <2>1 DEF n, m
  <2>5. Header(w) \in Headers
    BY <2>3, <2>4, MakeHeader
  <2>6. Header(w).call = w /\ Header(w).seq = n /\ Header(w).method = m
    BY <2>4
  <2>7. Header(w).error = FALSE
    BY <2>4
  <2> QED
    BY <1>3, <2>5, <2>6, <2>7 DEF n, m
<1>4. CASE w[1] = "handle"
  <2>1. Header(w) = [call |-> w, seq |-> seq[w[2]], method |-> "", error |-> FALSE]
    BY <1>4 DEF Header
  <2>2. w[2] \in Calls /\ seq[w[2]] \in Nat
    BY <1>4, WriterFacts DEF Shape
  <2> DEFINE n == seq[w[2]]
             m == ""
  <2>3. n \in Nat /\ m \in {"", "unknown", "known"}
    BY <2>2
  <2> HIDE DEF n, m
  <2>4. Header(w) = [call |-> w, seq |-> n, method |-> m, error |-> FALSE]
    BY <2>1 DEF n, m
  <2>5. Header(w) \in Headers
    BY <2>3, <2>4, MakeHeader
  <2>6. Header(w).call = w /\ Header(w).seq = n /\ Header(w).method = m
    BY <2>4
  <2>7. Header(w).error = FALSE
    BY <2>4
  <2> QED
    BY <1>4, <2>5, <2>6, <2>7 DEF n, m
<1>5. CASE w[1] = "input"
  <2>1. Header(w) = [call |-> w, seq |-> msg[w[2]].seq, method |-> "", error |-> TRUE]
    BY <1>5 DEF Header
  <2>2. w[2] \in Ends
    BY <1>5, WriterFacts
  <2> DEFINE n == msg[w[2]].seq
             m == ""
  <2>3. n \in Nat /\ m \in {"", "unknown", "known"}
    BY <1>2, <2>2
  <2> HIDE DEF n, m
  <2>4. Header(w) = [call |-> w, seq |-> n, method |-> m, error |-> TRUE]
    BY <2>1 DEF n, m
  <2>5. Header(w) \in Headers
    BY <2>3, <2>4, MakeHeader
  <2>6. Header(w).call = w /\ Header(w).seq = n /\ Header(w).method = m
    BY <2>4
  <2>7. Header(w).error = TRUE
    BY <2>4
  <2> QED
    BY <1>5, <2>5, <2>6, <2>7 DEF n, m
<1> QED
  BY <1>3, <1>4, <1>5, WriterFacts

-----------------------------------------------------------------------------
(* Sequences *)

LEMMA TailFacts ==
  ASSUME NEW T, NEW s \in Seq(T), s # <<>>
  PROVE  /\ Tail(s) \in Seq(T) /\ Len(Tail(s)) = Len(s) - 1 /\ Len(s) \in Nat /\ Len(s) >= 1
         /\ Head(s) = s[1] /\ 1 \in DOMAIN s /\ s[1] \in T
         /\ \A i \in DOMAIN Tail(s) : /\ i \in Nat /\ i >= 1 /\ i + 1 \in DOMAIN s
                                      /\ Tail(s)[i] = s[i + 1]
<1>1. Len(s) \in Nat /\ Len(s) > 0 /\ DOMAIN s = 1 .. Len(s)
  OBVIOUS
<1>2. Tail(s) \in Seq(T) /\ Len(Tail(s)) = Len(s) - 1 /\ DOMAIN Tail(s) = 1 .. Len(s) - 1
  BY <1>1
<1>3. \A i \in 1 .. Len(s) - 1 : Tail(s)[i] = s[i + 1]
  BY <1>1
<1> QED
  BY <1>1, <1>2, <1>3

LEMMA AppendFacts ==
  ASSUME NEW T, NEW s \in Seq(T), NEW e \in T
  PROVE  /\ Append(s, e) \in Seq(T) /\ Len(Append(s, e)) = Len(s) + 1 /\ Len(s) \in Nat
         /\ Append(s, e)[Len(s) + 1] = e
         /\ \A i \in DOMAIN s : Append(s, e)[i] = s[i] /\ i # Len(s) + 1
         /\ \A i \in DOMAIN Append(s, e) : i \in DOMAIN s \/ i = Len(s) + 1
<1>1. Len(s) \in Nat /\ DOMAIN s = 1 .. Len(s)
  OBVIOUS
<1>2. Append(s, e) \in Seq(T) /\ DOMAIN Append(s, e) = 1 .. Len(s) + 1 /\ Len(Append(s, e)) = Len(s) + 1
  OBVIOUS
<1> QED
  BY <1>1, <1>2

LEMMA ConcatFacts ==
  ASSUME NEW T, NEW s \in Seq(T), NEW t \in Seq(T)
  PROVE  /\ s \o t \in Seq(T) /\ Len(s \o t) = Len(s) + Len(t) /\ Len(s) \in Nat /\ Len(t) \in Nat
         /\ \A i \in DOMAIN s : i \in DOMAIN (s \o t) /\ (s \o t)[i] = s[i] /\ i \in Nat /\ i <= Len(s)
         /\ \A i \in DOMAIN (s \o t) : i \in Nat /\ (i \notin DOMAIN s =>
              i - Len(s) \in DOMAIN t /\ (s \o t)[i] = t[i - Len(s)])
<1>1. Len(s) \in Nat /\ DOMAIN s = 1 .. Len(s) /\ Len(t) \in Nat /\ DOMAIN t = 1 .. Len(t)
  OBVIOUS
<1>2. s \o t \in Seq(T) /\ DOMAIN (s \o t) = 1 .. Len(s) + Len(t) /\ Len(s \o t) = Len(s) + Len(t)
  OBVIOUS
<1>3. \A i \in 1 .. Len(s) + Len(t) : (s \o t)[i] = IF i <= Len(s) THEN s[i] ELSE t[i - Len(s)]
  BY <1>1
<1> QED
  BY <1>1, <1>2, <1>3
Prefix(t, s) == \A i \in DOMAIN t : i \in DOMAIN s /\ t[i] = s[i]

(* The three parts of a stream, as values move from one to the next.       *)
LEMMA Joined ==
  ASSUME NEW T, NEW x \in Seq(T), NEW y \in Seq(T), NEW z \in Seq(T)
  PROVE  /\ x \o (y \o z) \in Seq(T) /\ x \o y \in Seq(T) /\ y \o z \in Seq(T)
         /\ x \o (y \o z) = (x \o y) \o z
         /\ x \o <<>> = x /\ <<>> \o x = x
BY ConcatProperties, ConcatAssociative, ConcatEmptySeq

LEMMA JoinAppend ==
  ASSUME NEW T, NEW x \in Seq(T), NEW y \in Seq(T), NEW v \in T
  PROVE  x \o Append(y, v) = Append(x \o y, v) /\ Append(x, v) \in Seq(T)
<1>1. <<v>> \in Seq(T)
  OBVIOUS
<1>2. Append(y, v) = y \o <<v>> /\ x \o y \in Seq(T)
  BY AppendIsConcat, ConcatProperties
<1>3. Append(x \o y, v) = (x \o y) \o <<v>>
  BY <1>2, AppendIsConcat
<1> QED
  BY <1>1, <1>2, <1>3, ConcatAssociative, AppendProperties

LEMMA JoinFirst ==
  ASSUME NEW T, NEW x \in Seq(T), x # <<>>, NEW y \in Seq(T)
  PROVE  /\ x = <<Head(x)>> \o Tail(x) /\ Head(x) \in T /\ Tail(x) \in Seq(T)
         /\ x \o y = <<Head(x)>> \o (Tail(x) \o y)
         /\ x \o y # <<>> /\ Tail(x \o y) = Tail(x) \o y /\ (x \o y)[1] = Head(x)
<1>1. Head(x) \in T /\ Tail(x) \in Seq(T) /\ <<Head(x)>> \in Seq(T)
  BY HeadTailProperties
<1>2. x = <<Head(x)>> \o Tail(x)
  <2>1. Len(<<Head(x)>> \o Tail(x)) = Len(x)
    BY <1>1
  <2>2. \A i \in 1 .. Len(x) : (<<Head(x)>> \o Tail(x))[i] = x[i]
    BY <1>1
  <2> QED
    BY <1>1, <2>1, <2>2, SeqEqual, ConcatProperties
<1>3. x \o y = <<Head(x)>> \o (Tail(x) \o y)
  BY <1>1, <1>2, ConcatAssociative
<1>4. Len(x \o y) = Len(x) + Len(y) /\ Len(x) > 0 /\ x \o y \in Seq(T) /\ (x \o y)[1] = x[1]
  BY ConcatProperties
<1>5. x \o y # <<>> /\ (x \o y)[1] = Head(x)
  BY <1>4
<1>6. Tail(x \o y) = Tail(x) \o y
  <2>1. /\ Len(Tail(x \o y)) = Len(Tail(x) \o y) /\ Tail(x \o y) \in Seq(T)
        /\ Tail(x) \o y \in Seq(T)
    BY <1>1, <1>4, <1>5
  <2>2. \A i \in 1 .. Len(Tail(x \o y)) : Tail(x \o y)[i] = (Tail(x) \o y)[i]
    BY <1>1, <1>4
  <2> QED
    BY <2>1, <2>2, SeqEqual
<1> QED
  BY <1>1, <1>2, <1>3, <1>5, <1>6

LEMMA JoinOne ==
  ASSUME NEW T, NEW v \in T, NEW y \in Seq(T)
  PROVE  /\ <<v>> \o y \in Seq(T) /\ <<v>> \o y # <<>> /\ Tail(<<v>> \o y) = y
         /\ (<<v>> \o y)[1] = v /\ Len(<<v>> \o y) = Len(y) + 1
         /\ \A i \in DOMAIN y : i \in Nat /\ (<<v>> \o y)[i + 1] = y[i]
<1>1. <<v>> \in Seq(T) /\ Len(<<v>>) = 1 /\ <<v>>[1] = v
  OBVIOUS
<1>2. <<v>> \o y \in Seq(T) /\ Len(<<v>> \o y) = Len(y) + 1 /\ (<<v>> \o y)[1] = v
  BY <1>1, ConcatProperties
<1>3. \A i \in DOMAIN y : i \in Nat /\ (<<v>> \o y)[i + 1] = y[i]
  BY <1>1
<1>4. Tail(<<v>> \o y) = y
  <2>1. Tail(<<v>> \o y) \in Seq(T) /\ Len(Tail(<<v>> \o y)) = Len(y)
    BY <1>2
  <2>2. \A i \in 1 .. Len(y) : Tail(<<v>> \o y)[i] = y[i]
    BY <1>2, <1>3
  <2> QED
    BY <2>1, <2>2, SeqEqual
<1> QED
  BY <1>2, <1>3, <1>4

LEMMA JoinPrefix ==
  ASSUME NEW T, NEW x \in Seq(T), NEW y \in Seq(T)
  PROVE  Prefix(x, x \o y)
BY ConcatProperties DEF Prefix

(* The types of a stream and its parts.                                    *)
LEMMA StrType ==
  ASSUME Shape, MsgInv, NEW e \in Ends
  PROVE  /\ Read1(e) \in Seq(Values) /\ conn[e] \in Seq(Values) /\ Buf(e) \in Seq(Values)
         /\ encBuf[Peer(e)] \in Seq(Values) /\ Str(e) \in Seq(Values)
<1>1. conn[e] \in Seq(Values) /\ encBuf[Peer(e)] \in Seq(Headers)
  BY EndsFacts DEF Shape
<1>2. encBuf[Peer(e)] \in Seq(Values)
  BY <1>1, SeqMonotonic DEF Values
<1>3. Buf(e) \in Seq(Values)
  BY <1>2 DEF Buf
<1>4. Read1(e) \in Seq(Values)
  <2>1. CASE Expecting(e)
    <3>1. msg[e] \in Values
      BY <2>1, HeaderType DEF MsgInv
    <3>2. <<msg[e]>> \in Seq(Values)
      BY <3>1
    <3> QED
      BY <2>1, <3>2 DEF Read1
  <2>2. CASE ~Expecting(e)
    BY <2>2 DEF Read1
  <2> QED
    BY <2>1, <2>2
<1>5. Str(e) \in Seq(Values)
  BY <1>1, <1>3, <1>4, Joined DEF Str
<1> QED
  BY <1>1, <1>2, <1>3, <1>4, <1>5

(* Nothing moves, but the connection may be closed.                        *)
LEMMA StrSame ==
  ASSUME Shape, MsgInv, NEW e \in Ends, Read1(e)' = Read1(e), conn'[e] = conn[e],
         encBuf'[Peer(e)] = encBuf[Peer(e)], open \in BOOLEAN, open' \in BOOLEAN, open' => open
  PROVE  Prefix(Str(e)', Str(e)) /\ (open' => Str(e)' = Str(e)) /\ Str(e)' \in Seq(Values)
<1>0. /\ Read1(e) \in Seq(Values) /\ conn[e] \in Seq(Values) /\ Buf(e) \in Seq(Values)
      /\ Str(e) \in Seq(Values)
  BY StrType
<1>1. CASE Buf(e)' = Buf(e)
  <2>1. Str(e)' = Str(e)
    BY <1>1 DEF Str
  <2> QED
    BY <1>0, <2>1 DEF Prefix
<1>2. CASE open /\ ~open'
  <2>1. Buf(e)' = <<>>
    BY <1>2 DEF Buf
  <2>2. Str(e)' = Read1(e) \o (conn[e] \o <<>>)
    BY <2>1 DEF Str
  <2>3. Str(e)' = Read1(e) \o conn[e]
    BY <1>0, <2>2, Joined
  <2>4. Str(e) = (Read1(e) \o conn[e]) \o Buf(e) /\ Read1(e) \o conn[e] \in Seq(Values)
    <3>1. PICK x \in Seq(Values), y \in Seq(Values), z \in Seq(Values) :
            x = Read1(e) /\ y = conn[e] /\ z = Buf(e)
      BY <1>0
    <3>2. x \o (y \o z) = (x \o y) \o z /\ x \o y \in Seq(Values)
      BY Joined
    <3> QED
      BY <3>1, <3>2 DEF Str
  <2> QED
    BY <1>0, <1>2, <2>3, <2>4, JoinPrefix
<1>3. open' = open => Buf(e)' = Buf(e)
  BY DEF Buf
<1> QED
  BY <1>1, <1>2, <1>3

-----------------------------------------------------------------------------
(* What a step keeps *)

(* Callers that have written a header have their number for good, and one  *)
(* that is done stays so.                                                  *)
Kept ==
  /\ UNCHANGED initVars
  /\ \A c \in Calls :
       /\ wpc[Caller(c)] \in {"body", "done"} => wpc'[Caller(c)] \in {"body", "done"} /\ seq'[c] = seq[c]
       /\ wpc[Caller(c)] = "done" => wpc'[Caller(c)] = "done"

(* No handler is started at e.                                             *)
NoStart(e) ==
  \A c \in Calls : End(Caller(c)) = Peer(e) /\ wpc[Handler(c)] = "none" => wpc'[Handler(c)] = "none"

(* Nothing is written to e; at most a request fails to encode.             *)
Settled(e) ==
  \A w \in Writers : End(w) = Peer(e) =>
    /\ wpc'[w] = "body" => wpc[w] = "body"
    /\ wpc[w] = "body" => wpc'[w] = "body" \/ (w[1] = "call" /\ ~Encodable(w) /\ wpc'[w] = "done")

LEMMA ConstFacts ==
  ASSUME UNCHANGED initVars
  PROVE  /\ \A w : End(w)' = End(w) /\ Encodable(w)' = Encodable(w)
         /\ \A c : Method(c)' = Method(c)
         /\ \A e : IsClient(e)' = IsClient(e) /\ IsServer(e)' = IsServer(e)
         /\ Buffered' = Buffered
<1>1. codec' = codec /\ kind' = kind /\ from' = from
  BY DEF initVars
<1>2. \A w : End(w)' = End(w)
  BY <1>1 DEF End
<1>3. \A w : Encodable(w)' = Encodable(w)
  BY <1>1 DEF Encodable
<1>4. \A c : Method(c)' = Method(c)
  BY <1>1 DEF Method
<1>5. Buffered' = Buffered
  BY <1>1 DEF Buffered
<1> QED
  BY <1>2, <1>3, <1>4, <1>5 DEF IsClient, IsServer

LEMMA HeaderKept ==
  ASSUME Kept, NEW h \in Headers, NEW e \in Ends, GoodHeader(h, e)
  PROVE  GoodHeader(h, e)'
<1>1. /\ h.call \in Writers
      /\ h.call[1] = "call" => h.call[2] \in Calls /\ h.call = Caller(h.call[2])
      /\ h.call[1] = "handle" => h.call[2] \in Calls
      /\ h.call[1] # "input" => h.call[1] = "call" \/ h.call[1] = "handle"
  BY HeaderType, WriterFacts
<1>2. UNCHANGED initVars
  BY DEF Kept
<1>3. /\ End(h.call)' = End(h.call) /\ Method(h.call[2])' = Method(h.call[2])
      /\ IsClient(h.call[2])' = IsClient(h.call[2])
  BY <1>2, ConstFacts
<1>4. h.call[1] = "call" => wpc'[h.call] \in {"body", "done"} /\ seq'[h.call[2]] = seq[h.call[2]]
  BY <1>1 DEF Kept, GoodHeader
<1>5. h.call[1] = "handle" => wpc'[Caller(h.call[2])] = "done"
  BY <1>1 DEF Kept, GoodHeader
<1>6. h.call[1] = "handle" => seq'[h.call[2]] = seq[h.call[2]]
  BY <1>1 DEF Kept, GoodHeader
<1> QED
  BY <1>1, <1>3, <1>4, <1>5, <1>6 DEF GoodHeader

LEMMA BodyKept ==
  ASSUME Kept, NEW w \in Writers, NEW e \in Ends, GoodBody(w, e)
  PROVE  GoodBody(w, e)'
<1>1. End(w)' = End(w)
  BY ConstFacts DEF Kept
<1>2. w[1] = "call" => wpc'[w] = "done"
  BY WriterFacts DEF Kept, GoodBody
<1> QED
  BY <1>1, <1>2 DEF GoodBody

LEMMA AloneKept ==
  ASSUME Kept, NEW h \in Headers, Alone(h)
  PROVE  Alone(h)'
<1>1. Encodable(h.call)' = Encodable(h.call)
  BY ConstFacts DEF Kept
<1>2. h.call[1] = "call" => h.call[2] \in Calls /\ h.call = Caller(h.call[2])
  BY HeaderType, WriterFacts
<1>3. wpc'[h.call] = "done"
  BY <1>2 DEF Kept, Alone
<1> QED
  BY <1>1, <1>3 DEF Alone

-----------------------------------------------------------------------------
(* Streams *)

LEMMA FakeFacts ==
  /\ \A s, m : Fake(s, m) => m = "fake"
  /\ \A s, t, m : s[1] = t[1] => Fake(s, m) = Fake(t, m)
BY DEF Fake

LEMMA StrKept ==
  ASSUME Kept, NEW e \in Ends, NEW s \in Seq(Values), NEW m, StrOK(s, e, m)
  PROVE  StrOK(s, e, m)'
<1> SUFFICES ASSUME NEW i \in DOMAIN s PROVE PlaceOK(s, e, m, i)'
  BY DEF StrOK
<1>1. PlaceOK(s, e, m, i)
  BY DEF StrOK
<1>2. s[i] \in Values /\ (i # 1 => s[i - 1] \in Values)
  OBVIOUS
<1>3. CASE IsHeader(s[i])
  <2>1. GoodHeader(s[i], e) => GoodHeader(s[i], e)'
    BY <1>2, <1>3, ValueFacts, HeaderKept
  <2>2. i # 1 /\ IsHeader(s[i - 1]) /\ Alone(s[i - 1]) => Alone(s[i - 1])'
    BY <1>2, ValueFacts, AloneKept
  <2> QED
    BY <1>1, <1>3, <2>1, <2>2 DEF PlaceOK
<1>4. CASE ~IsHeader(s[i])
  <2>1. GoodBody(s[i].body, e)'
    BY <1>1, <1>2, <1>4, ValueFacts, BodyKept DEF PlaceOK
  <2>2. i # 1 => GoodHeader(s[i - 1], e)'
    BY <1>1, <1>2, <1>4, ValueFacts, HeaderKept DEF PlaceOK
  <2> QED
    BY <1>1, <1>4, <2>1, <2>2 DEF PlaceOK
<1> QED
  BY <1>3, <1>4

(* A stream that may begin with anything, or with a header.                *)
LEMMA StrWeaker ==
  ASSUME NEW e, NEW s \in Seq(Values), NEW m, NEW n, StrOK(s, e, m),
         n = m \/ m = "header" \/ (m = "any" /\ n = "fake" /\ s # <<>> /\ IsHeader(s[1]))
  PROVE  StrOK(s, e, n)
<1> SUFFICES ASSUME NEW i \in DOMAIN s PROVE PlaceOK(s, e, n, i)
  BY DEF StrOK
<1>1. PlaceOK(s, e, m, i) /\ (Fake(s, m) => Fake(s, n))
  BY FakeFacts DEF StrOK
<1>2. i = 1 /\ ~IsHeader(s[i]) /\ m = "any" => n = "any"
  OBVIOUS
<1> QED
  BY <1>1, <1>2 DEF PlaceOK

LEMMA StrPrefix ==
  ASSUME NEW e, NEW s \in Seq(Values), NEW t \in Seq(Values), Prefix(t, s), NEW m, StrOK(s, e, m)
  PROVE  StrOK(t, e, m)
<1> SUFFICES ASSUME NEW i \in DOMAIN t PROVE PlaceOK(t, e, m, i)
  BY DEF StrOK
<1>1. i \in DOMAIN s /\ t[i] = s[i] /\ PlaceOK(s, e, m, i)
  BY DEF StrOK, Prefix
<1>2. i # 1 => i - 1 \in DOMAIN t
  OBVIOUS
<1>3. i # 1 => t[i - 1] = s[i - 1]
  BY <1>2 DEF Prefix
<1>4. Fake(t, m) = Fake(s, m)
  <2>1. 1 \in DOMAIN t
    OBVIOUS
  <2> QED
    BY <2>1, FakeFacts DEF Prefix
<1> QED
  BY <1>1, <1>3, <1>4 DEF PlaceOK

LEMMA StrTail ==
  ASSUME NEW e, NEW s \in Seq(Values), NEW m, StrOK(s, e, m), s # <<>>
  PROVE  StrOK(Tail(s), e, "any")
<1> DEFINE t == Tail(s)
<1>1. /\ t \in Seq(Values)
      /\ \A i \in DOMAIN t : i \in Nat /\ i >= 1 /\ i + 1 \in DOMAIN s /\ t[i] = s[i + 1]
  BY TailFacts
<1> HIDE DEF t
<1> SUFFICES ASSUME NEW i \in DOMAIN t PROVE PlaceOK(t, e, "any", i)
  BY DEF StrOK, t
<1>2. PlaceOK(s, e, m, i + 1) /\ t[i] = s[i + 1] /\ i + 1 # 1 /\ (i + 1) - 1 = i /\ (i # 1 => i + 1 # 2)
  BY <1>1 DEF StrOK
<1>3. i # 1 => i - 1 \in DOMAIN t
  BY <1>1
<1>4. i # 1 => t[i - 1] = s[i]
  <2>1. i # 1 => t[i - 1] = s[(i - 1) + 1]
    BY <1>1, <1>3
  <2> QED
    BY <1>1, <2>1
<1> QED
  BY <1>2, <1>4, FakeFacts DEF PlaceOK

(* A Client that has read a response is at the next header.                *)
LEMMA StrClient ==
  ASSUME NEW e, NEW s \in Seq(Values), StrOK(s, e, "header"), s # <<>>, Tail(s) # <<>>,
         ~IsHeader(s[2])
  PROVE  StrOK(Tail(Tail(s)), e, "header")
<1>1. Tail(s) \in Seq(Values) /\ StrOK(Tail(s), e, "any")
  BY StrTail, TailFacts
<1>2. PICK t \in Seq(Values) : t = Tail(Tail(s)) /\ StrOK(t, e, "any")
  BY <1>1, StrTail, TailFacts
<1>3. t # <<>> => 3 \in DOMAIN s /\ t[1] = s[3]
  BY <1>1, <1>2, TailFacts
<1>4. t # <<>> => IsHeader(t[1])
  <2>1. t # <<>> => PlaceOK(s, e, "header", 3)
    BY <1>3 DEF StrOK
  <2> QED
    BY <1>3, <2>1 DEF PlaceOK
<1>5. ASSUME NEW i \in DOMAIN t PROVE PlaceOK(t, e, "header", i)
  <2>1. PlaceOK(t, e, "any", i) /\ t # <<>>
    BY <1>2 DEF StrOK
  <2>2. i = 1 => IsHeader(t[i])
    BY <1>4, <2>1
  <2> QED
    BY <2>1, <2>2, FakeFacts DEF PlaceOK
<1> QED
  BY <1>2, <1>5 DEF StrOK

(* A body is taken for a header.                                           *)
Blank(h) == h.method = ""

LEMMA StrFake ==
  ASSUME NEW e, NEW s \in Seq(Values), NEW m, StrOK(s, e, m), s # <<>>, ~IsHeader(s[1]),
         NEW t \in Seq(Values), Len(t) = Len(s), IsHeader(t[1]), Blank(t[1]),
         \A i \in 2 .. Len(s) : t[i] = s[i]
  PROVE  StrOK(t, e, "fake")
<1> SUFFICES ASSUME NEW i \in DOMAIN t PROVE PlaceOK(t, e, "fake", i)
  BY DEF StrOK
<1>0. DOMAIN s = 1 .. Len(s) /\ DOMAIN t = 1 .. Len(s) /\ Len(s) \in Nat
  OBVIOUS
<1>9. Fake(t, "fake")
  BY DEF Fake, Blank
<1>1. i \in DOMAIN s /\ PlaceOK(s, e, m, i) /\ i \in Nat
  BY <1>0 DEF StrOK
<1>2. CASE i = 1
  BY <1>2, <1>9 DEF PlaceOK
<1>3. CASE i = 2
  <2>1. IsHeader(s[2]) /\ t[2] = s[2] /\ 2 - 1 = 1
    <3>1. t[2] = s[2] /\ PlaceOK(s, e, m, 2) /\ 2 # 1 /\ 2 - 1 = 1
      BY <1>1, <1>3
    <3> QED
      BY <3>1 DEF PlaceOK
  <2> QED
    BY <1>1, <1>3, <1>9, <2>1 DEF PlaceOK
<1>4. CASE i # 1 /\ i # 2
  <2>1. i - 1 \in DOMAIN t /\ i - 1 # 1
    BY <1>0, <1>1, <1>4
  <2>2. t[i] = s[i] /\ t[i - 1] = s[i - 1]
    BY <1>4, <2>1
  <2> QED
    BY <1>1, <1>4, <2>2 DEF PlaceOK
<1> QED
  BY <1>2, <1>3, <1>4

(* A header, or the body that belongs to the last one, is written.         *)
LEMMA StrHeader ==
  ASSUME NEW e, NEW s \in Seq(Values), NEW m, StrOK(s, e, m)', NEW h \in Headers,
         GoodHeader(h, e)',
         s # <<>> /\ IsHeader(s[Len(s)]) => Alone(s[Len(s)])' \/ (Len(s) = 1 /\ Fake(s, m))
  PROVE  StrOK(Append(s, h), e, m)'
<1> DEFINE t == Append(s, h)
<1>1. /\ t \in Seq(Values) /\ Len(s) \in Nat /\ t[Len(s) + 1] = h /\ IsHeader(h)
      /\ \A i \in DOMAIN s : t[i] = s[i] /\ i # Len(s) + 1
      /\ \A i \in DOMAIN t : i \in DOMAIN s \/ i = Len(s) + 1
  BY HeaderType, AppendFacts
<1> HIDE DEF t
<1> SUFFICES ASSUME NEW i \in DOMAIN t PROVE PlaceOK(t, e, m, i)'
  BY DEF StrOK, t
<1>9. s # <<>> => Fake(t, m) = Fake(s, m)
  <2>1. s # <<>> => 1 \in DOMAIN s
    OBVIOUS
  <2>2. s # <<>> => t[1] = s[1]
    BY <1>1, <2>1
  <2> QED
    BY <2>2, FakeFacts
<1>2. CASE i \in DOMAIN s
  <2>1. PlaceOK(s, e, m, i)' /\ t[i] = s[i] /\ (i # 1 => i - 1 \in DOMAIN s) /\ s # <<>>
    BY <1>1, <1>2 DEF StrOK
  <2>2. i # 1 => t[i - 1] = s[i - 1]
    BY <1>1, <2>1
  <2>3. Fake(t, m)' = Fake(s, m)'
    BY <1>9, <2>1 DEF Fake
  <2> QED
    BY <2>1, <2>2, <2>3 DEF PlaceOK
<1>3. CASE i = Len(s) + 1
  <2>1. i # 1 => i - 1 = Len(s) /\ Len(s) \in DOMAIN s /\ s # <<>>
    BY <1>1, <1>3
  <2>2. i # 1 => t[i - 1] = s[Len(s)]
    BY <1>1, <2>1
  <2>3. Len(s) = 1 => i = 2 /\ Fake(t, m)' = Fake(s, m)'
    <3>1. Len(s) = 1 => i = 2 /\ s # <<>>
      BY <1>3
    <3> QED
      BY <3>1, <1>9 DEF Fake
  <2>4. Fake(s, m)' = Fake(s, m)
    BY DEF Fake
  <2> QED
    BY <1>1, <1>3, <2>1, <2>2, <2>3, <2>4 DEF PlaceOK
<1> QED
  BY <1>1, <1>2, <1>3

LEMMA StrBody ==
  ASSUME NEW e, NEW s \in Seq(Values), NEW m, StrOK(s, e, m)', NEW w \in Writers,
         GoodBody(w, e)',
         IF s = <<>> THEN m = "any"
         ELSE IsHeader(s[Len(s)]) /\ GoodHeader(s[Len(s)], e)' /\ s[Len(s)].call = w
  PROVE  StrOK(Append(s, Body(w)), e, m)'
<1> DEFINE t == Append(s, Body(w))
<1>1. /\ t \in Seq(Values) /\ Len(s) \in Nat /\ t[Len(s) + 1] = Body(w)
      /\ \A i \in DOMAIN s : t[i] = s[i] /\ i # Len(s) + 1
      /\ \A i \in DOMAIN t : i \in DOMAIN s \/ i = Len(s) + 1
  BY BodyType, AppendFacts
<1> HIDE DEF t
<1>0. ~IsHeader(Body(w)) /\ Body(w).body = w
  BY BodyType
<1> SUFFICES ASSUME NEW i \in DOMAIN t PROVE PlaceOK(t, e, m, i)'
  BY DEF StrOK, t
<1>9. s # <<>> => Fake(t, m) = Fake(s, m)
  <2>1. s # <<>> => 1 \in DOMAIN s
    OBVIOUS
  <2>2. s # <<>> => t[1] = s[1]
    BY <1>1, <2>1
  <2> QED
    BY <2>2, FakeFacts
<1>2. CASE i \in DOMAIN s
  <2>1. PlaceOK(s, e, m, i)' /\ t[i] = s[i] /\ (i # 1 => i - 1 \in DOMAIN s) /\ s # <<>>
    BY <1>1, <1>2 DEF StrOK
  <2>2. i # 1 => t[i - 1] = s[i - 1]
    BY <1>1, <2>1
  <2>3. Fake(t, m)' = Fake(s, m)'
    BY <1>9, <2>1 DEF Fake
  <2> QED
    BY <2>1, <2>2, <2>3 DEF PlaceOK
<1>3. CASE i = Len(s) + 1
  <2>1. i # 1 => i - 1 = Len(s) /\ Len(s) \in DOMAIN s /\ s # <<>>
    BY <1>1, <1>3
  <2>2. i # 1 => t[i - 1] = s[Len(s)]
    BY <1>1, <2>1
  <2>3. i = 1 => s = <<>>
    BY <1>1, <1>3
  <2> QED
    BY <1>0, <1>1, <1>3, <2>1, <2>2, <2>3 DEF PlaceOK
<1> QED
  BY <1>1, <1>2, <1>3

(* Requests that stay; their handlers are not started.                    *)
LEMMA KnownFrom ==
  ASSUME NEW s \in Seq(Values), NEW t \in Seq(Values), NEW k \in Nat, KnownOK(s),
         \A i \in DOMAIN t : KnownAt(t, i) => i + k \in DOMAIN s /\ t[i] = s[i + k],
         \A i \in DOMAIN t : KnownAt(t, i) /\ wpc[Handler(t[i].call[2])] = "none" =>
                               wpc'[Handler(t[i].call[2])] = "none"
  PROVE  KnownOK(t)'
<1>1. ASSUME NEW i \in DOMAIN t, KnownAt(t, i) PROVE wpc'[Handler(t[i].call[2])] = "none"
  <2>1. i + k \in DOMAIN s /\ t[i] = s[i + k]
    BY <1>1
  <2>2. KnownAt(s, i + k)
    BY <1>1, <2>1 DEF KnownAt
  <2>3. wpc[Handler(t[i].call[2])] = "none"
    BY <2>1, <2>2 DEF KnownOK
  <2> QED
    BY <1>1, <2>3
<1>2. ASSUME NEW i \in DOMAIN t, NEW j \in DOMAIN t, KnownAt(t, i), KnownAt(t, j),
             t[i].call = t[j].call
      PROVE  i = j
  <2>1. i + k \in DOMAIN s /\ t[i] = s[i + k] /\ j + k \in DOMAIN s /\ t[j] = s[j + k]
    BY <1>2
  <2>2. KnownAt(s, i + k) /\ KnownAt(s, j + k) /\ s[i + k].call = s[j + k].call
    BY <1>2, <2>1 DEF KnownAt
  <2>3. i + k = j + k
    BY <2>1, <2>2 DEF KnownOK
  <2>4. i \in Nat /\ j \in Nat
    OBVIOUS
  <2> QED
    BY <2>3, <2>4
<1> QED
  BY <1>1, <1>2 DEF KnownOK

LEMMA KnownAppend ==
  ASSUME NEW s \in Seq(Values), KnownOK(s)', NEW v \in Values,
         IsHeader(v) /\ v.method = "known" =>
           /\ wpc'[Handler(v.call[2])] = "none"
           /\ \A i \in DOMAIN s : KnownAt(s, i) => s[i].call # v.call
  PROVE  KnownOK(Append(s, v))'
<1> DEFINE t == Append(s, v)
<1>1. /\ t \in Seq(Values) /\ Len(s) \in Nat /\ t[Len(s) + 1] = v
      /\ \A i \in DOMAIN s : t[i] = s[i] /\ i # Len(s) + 1
      /\ \A i \in DOMAIN t : i \in DOMAIN s \/ i = Len(s) + 1
  BY AppendFacts
<1> HIDE DEF t
<1>2. /\ \A i \in DOMAIN s : KnownAt(t, i) <=> KnownAt(s, i)
      /\ KnownAt(t, Len(s) + 1) <=> IsHeader(v) /\ v.method = "known"
  BY <1>1 DEF KnownAt
<1>3. ASSUME NEW i \in DOMAIN t, KnownAt(t, i) PROVE wpc'[Handler(t[i].call[2])] = "none"
  <2>1. CASE i \in DOMAIN s
    BY <1>1, <1>2, <1>3, <2>1 DEF KnownOK
  <2>2. CASE i = Len(s) + 1
    BY <1>1, <1>2, <1>3, <2>2
  <2> QED
    BY <1>1, <2>1, <2>2
<1>4. ASSUME NEW i \in DOMAIN t, NEW j \in DOMAIN t, KnownAt(t, i), KnownAt(t, j),
             t[i].call = t[j].call
      PROVE  i = j
  <2>1. CASE i \in DOMAIN s /\ j \in DOMAIN s
    BY <1>1, <1>2, <1>4, <2>1 DEF KnownOK
  <2>2. CASE i \in DOMAIN s /\ j = Len(s) + 1
    BY <1>1, <1>2, <1>4, <2>2
  <2>3. CASE i = Len(s) + 1 /\ j \in DOMAIN s
    BY <1>1, <1>2, <1>4, <2>3
  <2>4. CASE i = Len(s) + 1 /\ j = Len(s) + 1
    BY <2>4
  <2> QED
    BY <1>1, <2>1, <2>2, <2>3, <2>4
<1> QED
  BY <1>3, <1>4 DEF KnownOK, t

(* Where there is a method, there is a caller.                             *)
LEMMA KnownCaller ==
  ASSUME NEW e \in Ends, NEW s \in Seq(Values), NEW m, StrOK(s, e, m),
         NEW i \in DOMAIN s, KnownAt(s, i)
  PROVE  /\ s[i].call[2] \in Calls /\ s[i].call = Caller(s[i].call[2])
         /\ GoodHeader(s[i], e) /\ wpc[s[i].call] \in {"body", "done"}
         /\ End(Caller(s[i].call[2])) = Peer(e)
<1>1. PICK h \in Headers : h = s[i] /\ h.method = "known"
  BY ValueFacts DEF KnownAt
<1>2. GoodHeader(h, e)
  <2>1. IsHeader(h) /\ PlaceOK(s, e, m, i)
    BY <1>1, HeaderType DEF StrOK
  <2>2. i = 1 => ~Fake(s, m)
    BY <1>1 DEF Fake
  <2> QED
    BY <1>1, <2>1, <2>2 DEF PlaceOK
<1>3. h.call[1] = "call" /\ h.call \in Writers
  BY <1>1, <1>2, HeaderType DEF GoodHeader
<1>4. h.call[2] \in Calls /\ h.call = Caller(h.call[2])
  BY <1>3, WriterFacts
<1>5. wpc[h.call] \in {"body", "done"}
  BY <1>2, <1>3 DEF GoodHeader
<1>6. End(Caller(h.call[2])) = Peer(e)
  BY <1>2, <1>4 DEF GoodHeader
<1> QED
  BY <1>1, <1>2, <1>4, <1>5, <1>6

LEMMA StreamUse ==
  ASSUME NEW e \in Ends, Stream(e), NEW s, s = Str(e), NEW m, m = Mode(e)
  PROVE  StrOK(s, e, m) /\ KnownOK(s) /\ (open => LastOK(s, m) /\ ReadyOK(s, e, m))
BY DEF Stream

LEMMA StreamFrom ==
  ASSUME NEW e \in Ends, NEW s, s = Str(e)', NEW m, m = Mode(e)',
         StrOK(s, e, m)', KnownOK(s)', open' => LastOK(s, m)' /\ ReadyOK(s, e, m)'
  PROVE  Stream(e)'
<1> SUFFICES ASSUME NEW t \in {Str(e)'}, NEW n \in {Mode(e)'}
             PROVE  StrOK(t, e, n)' /\ KnownOK(t)' /\ (open' => LastOK(t, n)' /\ ReadyOK(t, e, n)')
  BY DEF Stream
<1>1. t = s /\ n = m
  OBVIOUS
<1> QED
  BY <1>1

(* The last value of a stream; a header there is good, or a fake.          *)
LEMMA LastFacts ==
  ASSUME NEW e \in Ends, NEW s \in Seq(Values), NEW m, StrOK(s, e, m), s # <<>>
  PROVE  /\ Len(s) \in DOMAIN s /\ s[Len(s)] \in Values
         /\ IsHeader(s[Len(s)]) =>
              s[Len(s)] \in Headers /\ (GoodHeader(s[Len(s)], e) \/ (Len(s) = 1 /\ Fake(s, m)))
<1>1. Len(s) \in DOMAIN s /\ s[Len(s)] \in Values
  OBVIOUS
<1>2. PlaceOK(s, e, m, Len(s))
  BY <1>1 DEF StrOK
<1> QED
  BY <1>1, <1>2, ValueFacts DEF PlaceOK

(* Nothing is added to what an end will read, and it goes on reading, or   *)
(* ends.                                                                   *)
LEMMA StreamQuiet ==
  ASSUME Kept, NEW e \in Ends, NoStart(e), open' => Settled(e), Stream(e), open' => open,
         NEW s \in Seq(Values), s = Str(e), NEW t \in Seq(Values), t = Str(e)',
         Prefix(t, s), open' => t = s,
         \/ Mode(e)' = Mode(e)
         \/ Mode(e) = "header" /\ Mode(e)' = "any"
         \/ Mode(e) = "any" /\ Mode(e)' = "fake" /\ t = s /\ s # <<>> /\ IsHeader(s[1])
  PROVE  Stream(e)'
<1>1. PICK m, n : m = Mode(e) /\ n = Mode(e)'
  OBVIOUS
<1>2. StrOK(s, e, m) /\ KnownOK(s) /\ (open => LastOK(s, m) /\ ReadyOK(s, e, m))
  BY <1>1, StreamUse
<1>3. StrOK(t, e, n)'
  <2>1. StrOK(t, e, m)
    BY <1>2, StrPrefix
  <2>2. StrOK(t, e, n)
    BY <1>1, <2>1, StrWeaker
  <2> QED
    BY <2>2, StrKept
<1>4. KnownOK(t)'
  <2>1. ASSUME NEW i \in DOMAIN t, KnownAt(t, i)
        PROVE  /\ i + 0 \in DOMAIN s /\ t[i] = s[i + 0]
               /\ wpc[Handler(t[i].call[2])] = "none" => wpc'[Handler(t[i].call[2])] = "none"
    <3>1. i \in DOMAIN s /\ t[i] = s[i] /\ i + 0 = i
      BY DEF Prefix
    <3>2. KnownAt(s, i)
      BY <2>1, <3>1 DEF KnownAt
    <3>3. t[i].call[2] \in Calls /\ End(Caller(t[i].call[2])) = Peer(e)
      BY <1>2, <3>1, <3>2, KnownCaller
    <3> QED
      BY <3>1, <3>3 DEF NoStart
  <2> QED
    BY <1>2, <2>1, KnownFrom
<1>5. ASSUME open' PROVE LastOK(s, n)' /\ ReadyOK(s, e, n)'
  <2>0. LastOK(s, m) /\ ReadyOK(s, e, m) /\ Settled(e) /\ (Fake(s, m) => Fake(s, n))
    BY <1>1, <1>2, <1>5, FakeFacts
  <2>1. LastOK(s, n)'
    <3> SUFFICES ASSUME s # <<>>, IsHeader(s[Len(s)])
                 PROVE  wpc'[s[Len(s)].call] = "body" \/ Alone(s[Len(s)])' \/ (Len(s) = 1 /\ Fake(s, n))
      BY DEF LastOK
    <3>1. PICK h \in Headers : h = s[Len(s)] /\ (GoodHeader(h, e) \/ (Len(s) = 1 /\ Fake(s, m)))
      BY <1>2, LastFacts
    <3>2. CASE Len(s) = 1 /\ Fake(s, m)
      BY <2>0, <3>2
    <3>3. CASE wpc[h.call] = "body" /\ GoodHeader(h, e)
      <4>1. wpc'[h.call] = "body" \/ (h.call[1] = "call" /\ ~Encodable(h.call) /\ wpc'[h.call] = "done")
        BY <2>0, <3>3, HeaderType DEF Settled, GoodHeader
      <4>2. Encodable(h.call)' = Encodable(h.call)
        BY ConstFacts DEF Kept
      <4>3. wpc'[h.call] = "body" \/ Alone(h)'
        BY <4>1, <4>2 DEF Alone
      <4> QED
        BY <3>1, <4>3
    <3>4. CASE Alone(h)
      BY <3>1, <3>4, AloneKept
    <3> QED
      BY <2>0, <3>1, <3>2, <3>3, <3>4 DEF LastOK
  <2>2. ReadyOK(s, e, n)'
    <3> SUFFICES ASSUME NEW w \in Writers, wpc'[w] = "body", End(w)' = Peer(e)
                 PROVE  IF s = <<>> THEN n = "any"
                        ELSE IsHeader(s[Len(s)]) /\ GoodHeader(s[Len(s)], e)' /\ s[Len(s)].call = w
      BY DEF ReadyOK
    <3>1. End(w) = Peer(e) /\ wpc[w] = "body"
      BY <2>0, ConstFacts DEF Kept, Settled
    <3>2. CASE s = <<>>
      BY <1>1, <2>0, <3>1, <3>2 DEF ReadyOK
    <3>3. CASE s # <<>>
      <4>1. IsHeader(s[Len(s)]) /\ GoodHeader(s[Len(s)], e) /\ s[Len(s)].call = w
        BY <2>0, <3>1, <3>3 DEF ReadyOK
      <4>2. s[Len(s)] \in Headers
        BY <1>2, <3>3, <4>1, LastFacts
      <4> QED
        BY <3>3, <4>1, <4>2, HeaderKept
    <3> QED
      BY <3>2, <3>3
  <2> QED
    BY <2>1, <2>2
<1> QED
  BY <1>1, <1>3, <1>4, <1>5, StreamFrom

(* A writer has written its header.                                        *)
LEMMA StreamHeader ==
  ASSUME Kept, ControlInv, NEW e \in Ends, NoStart(e), Stream(e), open, Mode(e)' = Mode(e),
         NEW s \in Seq(Values), s = Str(e),
         NEW w \in Writers, End(w) = Peer(e), wpc[w] = "header", wpc'[w] = "body",
         \A v \in Writers : v # w => wpc'[v] = wpc[v],
         NEW h \in Headers, h.call = w, GoodHeader(h, e)', Append(s, h) = Str(e)'
  PROVE  Stream(e)'
<1>1. PICK m : m = Mode(e) /\ m = Mode(e)'
  OBVIOUS
<1>2. StrOK(s, e, m) /\ KnownOK(s) /\ LastOK(s, m)
  BY <1>1, StreamUse
<1>3. StrOK(s, e, m)'
  BY <1>2, StrKept
<1>4. PICK t \in Seq(Values) : t = Append(s, h)
  BY HeaderType, AppendFacts
<1>5. /\ Len(s) \in Nat /\ t # <<>> /\ Len(t) = Len(s) + 1 /\ t[Len(t)] = h /\ IsHeader(h)
  BY <1>4, HeaderType, AppendFacts
<1>6. StrOK(t, e, m)'
  <2>1. ASSUME s # <<>>, IsHeader(s[Len(s)])
        PROVE  Alone(s[Len(s)])' \/ (Len(s) = 1 /\ Fake(s, m))
    <3>1. PICK g \in Headers : g = s[Len(s)] /\ (GoodHeader(g, e) \/ (Len(s) = 1 /\ Fake(s, m)))
      BY <1>2, <2>1, LastFacts
    <3>2. wpc[g.call] = "body" \/ Alone(g) \/ (Len(s) = 1 /\ Fake(s, m))
      BY <1>2, <2>1, <3>1 DEF LastOK
    <3>3. ~(wpc[g.call] = "body" /\ GoodHeader(g, e))
      <4> SUFFICES ASSUME wpc[g.call] = "body", GoodHeader(g, e) PROVE FALSE
        OBVIOUS
      <4>1. g.call \in Writers /\ End(g.call) = Peer(e)
        BY HeaderType DEF GoodHeader
      <4> QED
        BY <4>1, OneWriter
    <3> QED
      BY <3>1, <3>2, <3>3, AloneKept
  <2> QED
    BY <1>3, <1>4, <2>1, StrHeader
<1>7. KnownOK(t)'
  <2>1. KnownOK(s)'
    <3>1. \A i \in DOMAIN s : KnownAt(s, i) =>
            s[i].call[2] \in Calls /\ End(Caller(s[i].call[2])) = Peer(e)
      BY <1>2, KnownCaller
    <3> QED
      BY <1>2, <3>1 DEF KnownOK, NoStart
  <2>2. h \in Values
    BY HeaderType
  <2>3. ASSUME h.method = "known"
        PROVE  /\ wpc'[Handler(h.call[2])] = "none"
               /\ \A i \in DOMAIN s : KnownAt(s, i) => s[i].call # h.call
    <3>1. w[1] = "call"
      BY <2>3 DEF GoodHeader
    <3>2. w[2] \in Calls /\ w = Caller(w[2])
      BY <3>1, WriterFacts
    <3>3. wpc[Handler(w[2])] = "none"
      BY <3>2 DEF ControlInv
    <3>4. \A i \in DOMAIN s : KnownAt(s, i) => wpc[s[i].call] \in {"body", "done"}
      BY <1>2, KnownCaller
    <3>5. \A i \in DOMAIN s : KnownAt(s, i) => s[i].call # w
      BY <3>4
    <3> QED
      BY <3>2, <3>3, <3>5 DEF NoStart
  <2> QED
    BY <1>4, <2>1, <2>2, <2>3, KnownAppend
<1>8. LastOK(t, m)'
  BY <1>5 DEF LastOK
<1>9. ReadyOK(t, e, m)'
  <2> SUFFICES ASSUME NEW v \in Writers, wpc'[v] = "body", End(v)' = Peer(e)
               PROVE  IsHeader(t[Len(t)]) /\ GoodHeader(t[Len(t)], e)' /\ t[Len(t)].call = v
    BY <1>5 DEF ReadyOK
  <2>1. End(v) = Peer(e)
    BY ConstFacts DEF Kept
  <2>2. v = w
    BY <2>1, OneWriter
  <2> QED
    BY <1>5, <2>2
<1> QED
  BY <1>1, <1>4, <1>6, <1>7, <1>8, <1>9, StreamFrom

(* ... and its body.                                                       *)
LEMMA StreamBody ==
  ASSUME Kept, ControlInv, NEW e \in Ends, NoStart(e), Stream(e), open, Mode(e)' = Mode(e),
         NEW s \in Seq(Values), s = Str(e),
         NEW w \in Writers, End(w) = Peer(e), wpc[w] = "body", wpc'[w] = "done",
         \A v \in Writers : v # w => wpc'[v] = wpc[v], Append(s, Body(w)) = Str(e)'
  PROVE  Stream(e)'
<1>1. PICK m : m = Mode(e) /\ m = Mode(e)'
  OBVIOUS
<1>2. StrOK(s, e, m) /\ KnownOK(s) /\ ReadyOK(s, e, m)
  BY <1>1, StreamUse
<1>3. StrOK(s, e, m)'
  BY <1>2, StrKept
<1>4. PICK t \in Seq(Values) : t = Append(s, Body(w))
  BY BodyType, AppendFacts
<1>5. /\ Len(s) \in Nat /\ t # <<>> /\ Len(t) = Len(s) + 1 /\ t[Len(t)] = Body(w)
      /\ ~IsHeader(Body(w)) /\ Body(w) \in Values
  BY <1>4, BodyType, AppendFacts
<1>6. StrOK(t, e, m)'
  <2>1. GoodBody(w, e)'
    BY ConstFacts DEF Kept, GoodBody
  <2>2. ASSUME s # <<>>
        PROVE  IsHeader(s[Len(s)]) /\ GoodHeader(s[Len(s)], e)' /\ s[Len(s)].call = w
    <3>1. IsHeader(s[Len(s)]) /\ GoodHeader(s[Len(s)], e) /\ s[Len(s)].call = w
      BY <1>2, <2>2 DEF ReadyOK
    <3>2. s[Len(s)] \in Headers
      BY <1>2, <2>2, <3>1, LastFacts
    <3> QED
      BY <3>1, <3>2, HeaderKept
  <2>3. s = <<>> => m = "any"
    BY <1>2 DEF ReadyOK
  <2> QED
    BY <1>3, <1>4, <2>1, <2>2, <2>3, StrBody
<1>7. KnownOK(t)'
  <2>1. KnownOK(s)'
    <3>1. \A i \in DOMAIN s : KnownAt(s, i) =>
            s[i].call[2] \in Calls /\ End(Caller(s[i].call[2])) = Peer(e)
      BY <1>2, KnownCaller
    <3> QED
      BY <1>2, <3>1 DEF KnownOK, NoStart
  <2> QED
    BY <1>4, <1>5, <2>1, KnownAppend
<1>8. LastOK(t, m)'
  BY <1>5 DEF LastOK
<1>9. ReadyOK(t, e, m)'
  <2> SUFFICES ASSUME NEW v \in Writers, wpc'[v] = "body", End(v)' = Peer(e)
               PROVE  FALSE
    BY <1>5 DEF ReadyOK
  <2>1. End(v) = Peer(e) /\ v # w
    BY ConstFacts DEF Kept
  <2>2. wpc[v] = "body"
    BY <2>1
  <2> QED
    BY <2>1, <2>2, OneWriter
<1> QED
  BY <1>1, <1>4, <1>6, <1>7, <1>8, <1>9, StreamFrom

-----------------------------------------------------------------------------
(* The other parts of the invariant *)

LEMMA SeqKept ==
  ASSUME PairInv, UNCHANGED <<initVars, seq, nseq>>, pending' \subseteq pending
  PROVE  SeqInv'
BY DEF PairInv, SeqInv, initVars

(* Calls that end with an error have nobody else's reply.                  *)
LEMMA ResKept ==
  ASSUME PairInv, UNCHANGED initVars, misled \subseteq misled',
         \A c \in Calls : res'[c] = res[c] \/ res'[c] = Error
  PROVE  ReplyIsOwn'
<1>1. Buffered' = Buffered /\ Unnamed' = Unnamed /\ from' = from /\ loose' = loose
  BY DEF Buffered, Unnamed, initVars
<1> QED
  BY <1>1 DEF PairInv, ReplyIsOwn

LEMMA ArgsKept ==
  ASSUME PairInv, UNCHANGED <<initVars, args>>
  PROVE  ArgsAreOwn'
BY DEF PairInv, ArgsAreOwn, initVars

LEMMA CloseFacts ==
  ASSUME PairInv, UNCHANGED open \/ Close
  PROVE  open' \in BOOLEAN /\ (open' => open)
<1>1. open \in BOOLEAN
  BY DEF PairInv, Shape
<1>2. CASE UNCHANGED open
  BY <1>1, <1>2, Zenon
<1>3. CASE Close
  BY <1>3, Zenon DEF Close
<1> QED
  BY <1>2, <1>3, Zenon

(* Nothing happens at the reader of an end.                                *)
LEMMA ReaderSame ==
  ASSUME UNCHANGED initVars, NEW e \in Ends, ipc'[e] = ipc[e], msg'[e] = msg[e],
         e \in misled' <=> e \in misled
  PROVE  Mode(e)' = Mode(e) /\ Read1(e)' = Read1(e)
<1>1. Expecting(e)' = Expecting(e)
  BY DEF Expecting
<1>2. IsClient(e)' = IsClient(e)
  BY ConstFacts
<1> QED
  BY <1>1, <1>2 DEF Mode, Read1

LEMMA MsgSame ==
  ASSUME PairInv, UNCHANGED <<initVars, ipc, msg>>
  PROVE  MsgInv'
<1>1. \A e : IsServer(e)' = IsServer(e)
  BY ConstFacts
<1> QED
  BY <1>1 DEF PairInv, MsgInv, Expecting

(* Writers move, one at a time, and the mutexes with them.                 *)
Moves(w, l) == wpc'[w] = l /\ \A v \in Writers : v # w => wpc'[v] = wpc[v]
Holds(w, l) ==
  /\ l \in {"header", "body"} <=> mutex'[End(w)] = w
  /\ \A v \in Writers : v # w => (mutex'[End(v)] = v <=> mutex[End(v)] = v)

LEMMA GotoFacts ==
  ASSUME PairInv, NEW w \in Writers, NEW l \in Labels, Goto(w, l)
  PROVE  Moves(w, l) /\ wpc' \in [Writers -> Labels]
BY DEF PairInv, Shape, Goto, Moves

(* A writer that lets the mutex go leaves nobody else's.                   *)
LEMMA UnlockFacts ==
  ASSUME PairInv, NEW w \in Writers, wpc[w] \in {"header", "body"}, Unlock(w)
  PROVE  Holds(w, "done") /\ mutex' \in [Ends -> Writers \cup {NoOne}]
<1>1. mutex \in [Ends -> Writers \cup {NoOne}] /\ from \in [Calls -> Ends]
  BY DEF PairInv, Shape
<1>2. \A v \in Writers : End(v) \in Ends /\ v # NoOne
  BY <1>1, EndFacts, WriterFacts
<1>3. mutex[End(w)] = w /\ mutex' = [mutex EXCEPT ![End(w)] = NoOne]
  BY DEF PairInv, ControlInv, Unlock
<1> QED
  BY <1>1, <1>2, <1>3 DEF Holds

LEMMA MoveControl ==
  ASSUME PairInv, UNCHANGED <<initVars, ipc, misled>>, NEW w \in Writers, NEW l,
         Moves(w, l), Holds(w, l),
         w[1] = "call" => (wpc[w] = "done" => l = "done"),
         w[1] # "call" => wpc[w] # "none"
  PROVE  ControlInv'
<1>1. \A v : End(v)' = End(v) /\ IsClient(v)' = IsClient(v)
  BY ConstFacts
<1>2. \A v \in Writers : wpc'[v] \in {"header", "body"} <=> mutex'[End(v)] = v
  BY DEF PairInv, ControlInv, Moves, Holds
<1>3. ASSUME NEW c \in Calls, wpc'[Handler(c)] # "none" PROVE wpc'[Caller(c)] = "done"
  <2>1. wpc[Handler(c)] # "none" /\ Caller(c) \in Writers /\ Caller(c)[1] = "call"
    BY <1>3, WriterFacts DEF Moves
  <2>2. wpc[Caller(c)] = "done"
    BY <2>1 DEF PairInv, ControlInv
  <2> QED
    BY <2>1, <2>2 DEF Moves
<1>4. ASSUME NEW e \in Ends, ipc'[e] # "reject" PROVE wpc'[Reader(e)] = "none"
  <2>1. wpc[Reader(e)] = "none" /\ Reader(e) \in Writers /\ Reader(e)[1] # "call"
    BY <1>4, WriterFacts DEF PairInv, ControlInv
  <2> QED
    BY <2>1 DEF Moves
<1>5. \A e \in Ends : IsClient(e)' => ipc'[e] \notin {"args", "reject"} /\ e \notin misled'
  BY <1>1 DEF PairInv, ControlInv
<1> QED
  BY <1>1, <1>2, <1>3, <1>4, <1>5 DEF ControlInv

(* A writer that moves on is no caller that goes back.                     *)
LEMMA MoveKept ==
  ASSUME PairInv, UNCHANGED initVars, NEW w \in Writers, NEW l, Moves(w, l),
         w[1] = "call" => (wpc[w] = "body" => l \in {"body", "done"}) /\ (wpc[w] = "done" => l = "done"),
         w[1] # "call" => wpc[w] # "none",
         \A c \in Calls : wpc[Caller(c)] \in {"body", "done"} => seq'[c] = seq[c]
  PROVE  Kept /\ \A e \in Ends : NoStart(e)
<1>1. \A c \in Calls : /\ Caller(c) \in Writers /\ Caller(c)[1] = "call"
                       /\ Handler(c) \in Writers /\ Handler(c)[1] # "call"
  BY WriterFacts
<1>2. Kept
  BY <1>1 DEF Kept, Moves
<1>3. \A e \in Ends : NoStart(e)
  BY <1>1 DEF NoStart, Moves
<1> QED
  BY <1>2, <1>3

(* The stream to an end to which nothing is written, and where nothing is  *)
(* read.                                                                   *)
LEMMA StreamIdle ==
  ASSUME PairInv, Kept, NEW e \in Ends, NoStart(e),
         ipc'[e] = ipc[e], msg'[e] = msg[e], e \in misled' <=> e \in misled, open' \in BOOLEAN, open' => open, open' => Settled(e),
         conn'[e] = conn[e], encBuf'[Peer(e)] = encBuf[Peer(e)]
  PROVE  Stream(e)'
<1>1. UNCHANGED initVars
  BY DEF Kept
<1>2. Mode(e)' = Mode(e) /\ Read1(e)' = Read1(e)
  BY <1>1, ReaderSame
<1>3. Shape /\ MsgInv /\ Stream(e) /\ open \in BOOLEAN
  BY DEF PairInv, StreamInv, Shape
<1>4. /\ Prefix(Str(e)', Str(e)) /\ (open' => Str(e)' = Str(e)) /\ Str(e)' \in Seq(Values)
      /\ Str(e) \in Seq(Values)
  BY <1>2, <1>3, StrSame, StrType
<1>5. PICK s \in Seq(Values), t \in Seq(Values) : s = Str(e) /\ t = Str(e)'
  BY <1>4
<1> QED
  BY <1>2, <1>3, <1>4, <1>5, StreamQuiet

(* A writer is at one end, and those of the other do not notice.           *)
LEMMA StreamBack ==
  ASSUME PairInv, Kept, UNCHANGED <<ipc, msg, misled>>, NEW w \in Writers, NEW l,
         Moves(w, l), open' \in BOOLEAN, open' => open, NEW e \in Ends, e = End(w), NoStart(e),
         conn'[e] = conn[e], encBuf'[Peer(e)] = encBuf[Peer(e)]
  PROVE  Stream(e)'
<1>1. Settled(e)
  <2>1. \A v \in Writers : End(v) = Peer(e) => v # w
    BY EndsFacts
  <2> QED
    BY <2>1 DEF Settled, Moves
<1> QED
  BY <1>1, StreamIdle

LEMMA ClientBufKept ==
  ASSUME PairInv, Kept, encBuf'["a"] = encBuf["a"]
  PROVE  ClientBuf'
<1>1. "a" \in Ends
  BY DEF Ends
<1>2. encBuf["a"] \in Seq(Headers)
  BY <1>1 DEF PairInv, Shape
<1>3. ASSUME NEW i \in DOMAIN encBuf["a"]
      PROVE  encBuf["a"][i].call[1] = "call" /\ wpc'[encBuf["a"][i].call] \in {"body", "done"}
  <2>1. PICK h \in Headers : h = encBuf["a"][i]
    BY <1>2
  <2>2. h.call \in Writers /\ h.call[1] = "call" /\ wpc[h.call] \in {"body", "done"}
    BY <2>1, HeaderType DEF PairInv, BufInv, ClientBuf
  <2>3. h.call[2] \in Calls /\ h.call = Caller(h.call[2])
    BY <2>2, WriterFacts
  <2>4. wpc'[h.call] \in {"body", "done"}
    BY <2>2, <2>3 DEF Kept
  <2> QED
    BY <2>1, <2>2, <2>4
<1>4. \A i, j \in DOMAIN encBuf["a"] : encBuf["a"][i].call = encBuf["a"][j].call => i = j
  BY DEF PairInv, BufInv, ClientBuf
<1> QED
  BY <1>3, <1>4 DEF ClientBuf

LEMMA ServerBufKept ==
  ASSUME PairInv, UNCHANGED initVars, encBuf'["b"] = encBuf["b"], open' => open,
         \A w \in Writers : open' /\ Buffered /\ End(w) = "b" /\ wpc[w] = "body" => wpc'[w] = "body"
  PROVE  ServerBuf'
<1> SUFFICES ASSUME open', encBuf["b"] # <<>>
             PROVE  Len(encBuf["b"]) = 1 /\ \E w \in Writers : End(w)' = "b" /\ wpc'[w] = "body"
  BY DEF ServerBuf
<1>1. "b" \in Ends /\ \A w : End(w)' = End(w)
  BY ConstFacts DEF Ends
<1>2. Buffered
  BY <1>1 DEF PairInv, Shape
<1>3. Len(encBuf["b"]) = 1 /\ \E w \in Writers : End(w) = "b" /\ wpc[w] = "body"
  BY DEF PairInv, BufInv, ServerBuf
<1> QED
  BY <1>1, <1>2, <1>3

(* A writer moves without writing anything.                                *)
LEMMA IdleStep ==
  ASSUME PairInv, NEW w \in Writers, NEW l \in {"lock", "header", "done"}, Moves(w, l), Holds(w, l),
         UNCHANGED <<initVars, args, encBuf, conn, ipc, msg, misled>>,
         w[1] # "call" => wpc[w] # "none",
         w[1] = "call" => (wpc[w] \in {"body", "done"} => l = "done"),
         \A c \in Calls : wpc[Caller(c)] \in {"body", "done"} => seq'[c] = seq[c],
         open' => open, open' /\ wpc[w] = "body" => w[1] = "call" /\ ~Encodable(w) /\ l = "done",
         Shape', SeqInv', ReplyIsOwn'
  PROVE  PairInv'
<1>1. Kept /\ \A e \in Ends : NoStart(e)
  BY MoveKept
<1>2. ControlInv'
  BY MoveControl
<1>3. MsgInv' /\ ArgsAreOwn'
  BY MsgSame, ArgsKept
<1>4. open' \in BOOLEAN
  BY DEF Shape
<1>5. ASSUME NEW e \in Ends PROVE Stream(e)'
  <2>1. open' => Settled(e)
    BY DEF Settled, Moves
  <2> QED
    BY <1>1, <1>4, <2>1, StreamIdle
<1>6. ClientBuf'
  BY <1>1, ClientBufKept
<1>7. ServerBuf'
  <2>1. ASSUME NEW v \in Writers, open', Buffered, End(v) = "b", wpc[v] = "body"
        PROVE  wpc'[v] = "body"
    <3>1. v[1] # "call"
      <4>1. v[1] = "call" => v[2] \in Calls /\ v = Caller(v[2])
        BY WriterFacts
      <4>2. \A c \in Calls : End(Caller(c)) = "a"
        BY <2>1, EndFacts DEF PairInv, Shape
      <4> QED
        BY <2>1, <4>1, <4>2
    <3> QED
      BY <2>1, <3>1 DEF Moves
  <2> QED
    BY <2>1, ServerBufKept
<1>8. LenInv'
  BY DEF PairInv, LenInv
<1> QED
  BY <1>2, <1>3, <1>5, <1>6, <1>7, <1>8 DEF PairInv, StreamInv, BufInv

-----------------------------------------------------------------------------
(* Writers *)

LEMMA StartStep ==
  ASSUME PairInv, NEW c \in Calls, Start(c)
  PROVE  PairInv'
<1>1. PICK w \in Writers : w = Caller(c) /\ w[1] = "call"
  BY WriterFacts
<1>2. /\ wpc[w] = "none" /\ Goto(w, "lock")
      /\ UNCHANGED <<initVars, callVars, mutex, encBuf, connVars, readVars>>
  BY <1>1 DEF Start
<1>3. Moves(w, "lock") /\ wpc' \in [Writers -> Labels]
  BY <1>2, GotoFacts DEF Labels
<1>4. Holds(w, "lock")
  BY <1>2 DEF PairInv, ControlInv, Holds
<1>5. Shape'
  BY <1>2, <1>3 DEF PairInv, Shape, Buffered, initVars, callVars, connVars, readVars
<1>6. SeqInv' /\ ReplyIsOwn'
  BY <1>2, SeqKept, ResKept DEF readVars, callVars, connVars
<1> QED
  BY <1>1, <1>2, <1>3, <1>4, <1>5, <1>6, IdleStep DEF callVars, connVars, readVars

(* A call that is refused.                                                 *)
LEMMA RefuseStep ==
  ASSUME PairInv, NEW w \in Writers, wpc[w] = "lock", w[1] = "call",
         res' = [res EXCEPT ![w[2]] = Error], Goto(w, "done"),
         UNCHANGED <<mutex, seq, nseq, pending>>, UNCHANGED <<initVars, args, encBuf, connVars, readVars>>
  PROVE  PairInv'
<1>1. Moves(w, "done") /\ wpc' \in [Writers -> Labels]
  BY GotoFacts DEF Labels
<1>2. Holds(w, "done")
  BY DEF PairInv, ControlInv, Holds
<1>3. res \in [Calls -> {Nothing, Error} \cup Writers]
  BY DEF PairInv, Shape
<1>4. /\ res' \in [Calls -> {Nothing, Error} \cup Writers]
      /\ \A c \in Calls : res'[c] = res[c] \/ res'[c] = Error
  BY <1>3
<1>5. Shape'
  BY <1>1, <1>4 DEF PairInv, Shape, Buffered, initVars, connVars, readVars
<1>6. SeqInv' /\ ReplyIsOwn'
  BY <1>4, SeqKept, ResKept DEF readVars, connVars
<1> QED
  BY <1>1, <1>2, <1>5, <1>6, IdleStep DEF connVars, readVars

(* The mutex is taken; a caller gets the next number of its end.           *)
LEMMA LockedStep ==
  ASSUME PairInv, NEW w \in Writers, wpc[w] = "lock", mutex[End(w)] = NoOne,
         mutex' = [mutex EXCEPT ![End(w)] = w], Goto(w, "header"),
         IF w[1] = "call"
         THEN /\ nseq' = [nseq EXCEPT ![End(w)] = @ + 1]
              /\ seq' = [seq EXCEPT ![w[2]] = nseq[End(w)] + 1]
              /\ pending' = pending \cup {w[2]}
         ELSE UNCHANGED <<seq, nseq, pending>>,
         UNCHANGED res, UNCHANGED <<initVars, args, encBuf, connVars, readVars>>
  PROVE  PairInv'
<1>1. Moves(w, "header") /\ wpc' \in [Writers -> Labels]
  BY GotoFacts DEF Labels
<1>2. /\ mutex \in [Ends -> Writers \cup {NoOne}] /\ from \in [Calls -> Ends]
      /\ seq \in [Calls -> Nat] /\ nseq \in [Ends -> Nat] /\ pending \subseteq Calls
  BY DEF PairInv, Shape
<1>3. \A v \in Writers : End(v) \in Ends /\ v # NoOne
  BY <1>2, EndFacts, WriterFacts
<1>4. Holds(w, "header") /\ mutex' \in [Ends -> Writers \cup {NoOne}]
  BY <1>2, <1>3 DEF Holds
<1>5. CASE w[1] = "call"
  <2>1. PICK c \in Calls : c = w[2] /\ w = Caller(c)
    BY <1>5, WriterFacts
  <2>2. PICK e \in Ends : e = End(w) /\ e = from[c]
    BY <1>2, <1>3, <2>1, EndFacts
  <2>3. nseq[e] \in Nat
    BY <1>2
  <2>4. /\ nseq' \in [Ends -> Nat] /\ nseq'[e] = nseq[e] + 1
        /\ \A d \in Ends : d # e => nseq'[d] = nseq[d]
    BY <1>2, <1>5, <2>2, <2>3
  <2>5. /\ seq' \in [Calls -> Nat] /\ seq'[c] = nseq[e] + 1
        /\ \A d \in Calls : d # c => seq'[d] = seq[d]
    BY <1>2, <1>5, <2>1, <2>2, <2>3
  <2>6. pending' = pending \cup {c} /\ from' = from
    BY <1>5, <2>1 DEF initVars
  <2>7. \A d \in Calls : seq[d] \in Nat /\ seq[d] <= nseq[from[d]]
    BY <1>2 DEF PairInv, SeqInv
  <2>8. SeqInv'
    <3>1. \A d \in Calls : seq'[d] <= nseq'[from[d]]
      <4>1. \A d \in Calls : nseq[from[d]] \in Nat /\ nseq[from[d]] <= nseq'[from[d]]
        BY <1>2, <2>3, <2>4
      <4>2. \A d \in Calls : d # c => seq'[d] <= nseq'[from[d]]
        BY <1>2, <2>4, <2>5, <2>7, <4>1
      <4> QED
        BY <2>2, <2>3, <2>4, <2>5, <4>2
    <3>2. \A d \in Calls : d \in pending' => seq'[d] # 0
      BY <2>3, <2>5, <2>6 DEF PairInv, SeqInv
    <3>3. \A d \in Calls : d # c /\ from[d] = e => seq'[d] # seq'[c]
      BY <2>3, <2>5, <2>7
    <3>4. \A d, x \in Calls : from[d] = from[x] /\ seq'[d] = seq'[x] /\ seq'[d] # 0 => d = x
      BY <2>2, <2>5, <3>3 DEF PairInv, SeqInv
    <3> QED
      BY <2>6, <3>1, <3>2, <3>4 DEF SeqInv
  <2>9. Shape'
    BY <1>1, <1>4, <2>4, <2>5, <2>6 DEF PairInv, Shape, Buffered, initVars, connVars, readVars
  <2>10. ReplyIsOwn'
    BY ResKept DEF readVars, connVars
  <2>11. \A d \in Calls : wpc[Caller(d)] \in {"body", "done"} => seq'[d] = seq[d]
    BY <2>1, <2>5
  <2> QED
    BY <1>1, <1>4, <2>8, <2>9, <2>10, <2>11, IdleStep DEF connVars, readVars
<1>6. CASE w[1] # "call"
  <2>1. UNCHANGED <<seq, nseq, pending>>
    BY <1>6
  <2>2. Shape'
    BY <1>1, <1>4, <2>1 DEF PairInv, Shape, Buffered, initVars, connVars, readVars
  <2>3. SeqInv' /\ ReplyIsOwn'
    BY <2>1, SeqKept, ResKept DEF readVars, connVars
  <2> QED
    BY <1>1, <1>4, <1>6, <2>1, <2>2, <2>3, IdleStep DEF connVars, readVars
<1> QED
  BY <1>5, <1>6

LEMMA LockStep ==
  ASSUME PairInv, NEW w \in Writers, Lock(w)
  PROVE  PairInv'
<1>1. CASE w[1] = "call" /\ End(w) \in shutdown
  BY <1>1, RefuseStep DEF Lock
<1>2. CASE ~(w[1] = "call" /\ End(w) \in shutdown)
  BY <1>2, LockedStep DEF Lock, Unlocked
<1> QED
  BY <1>1, <1>2

LEMMA FailFacts ==
  ASSUME PairInv, NEW c \in Calls, Fail(c) \/ UNCHANGED callVars
  PROVE  /\ UNCHANGED <<seq, nseq, args>> /\ pending' \subseteq pending
         /\ res' \in [Calls -> {Nothing, Error} \cup Writers]
         /\ \A d \in Calls : res'[d] = res[d] \/ res'[d] = Error
<1>1. res \in [Calls -> {Nothing, Error} \cup Writers]
  BY DEF PairInv, Shape
<1>2. CASE Fail(c)
  <2>1. res' = [res EXCEPT ![c] = Error] \/ res' = res
    BY <1>2 DEF Fail
  <2> QED
    BY <1>1, <1>2, <2>1 DEF Fail
<1>3. CASE UNCHANGED callVars
  BY <1>1, <1>3 DEF callVars
<1> QED
  BY <1>2, <1>3

LEMMA RequestFailsStep ==
  ASSUME PairInv, NEW w \in Writers, RequestFails(w)
  PROVE  PairInv'
<1>1. /\ wpc[w] = "body" /\ w[1] = "call" /\ ~Encodable(w) /\ Fail(w[2]) /\ Goto(w, "done") /\ Unlock(w)
      /\ UNCHANGED <<initVars, encBuf, connVars, readVars>>
  BY DEF RequestFails
<1>2. PICK c \in Calls : c = w[2] /\ w = Caller(c)
  BY <1>1, WriterFacts
<1>3. /\ UNCHANGED <<seq, nseq, args>> /\ pending' \subseteq pending
      /\ res' \in [Calls -> {Nothing, Error} \cup Writers]
      /\ \A d \in Calls : res'[d] = res[d] \/ res'[d] = Error
  BY <1>1, <1>2, FailFacts
<1>4. Moves(w, "done") /\ wpc' \in [Writers -> Labels]
  BY <1>1, GotoFacts DEF Labels
<1>5. Holds(w, "done") /\ mutex' \in [Ends -> Writers \cup {NoOne}]
  BY <1>1, UnlockFacts
<1>6. Shape'
  BY <1>1, <1>3, <1>4, <1>5 DEF PairInv, Shape, Buffered, initVars, connVars, readVars
<1>7. SeqInv' /\ ReplyIsOwn'
  BY <1>1, <1>3, SeqKept, ResKept DEF readVars, connVars
<1> QED
  BY <1>1, <1>3, <1>4, <1>5, <1>6, <1>7, IdleStep DEF connVars, readVars

LEMMA WriteFailsStep ==
  ASSUME PairInv, NEW w \in Writers, WriteFails(w)
  PROVE  PairInv'
<1>1. /\ wpc[w] \in {"header", "body"} /\ ~open /\ Goto(w, "done") /\ Unlock(w)
      /\ UNCHANGED <<initVars, encBuf, conn, readVars>>
  BY DEF WriteFails
<1>2. /\ UNCHANGED <<seq, nseq, args>> /\ pending' \subseteq pending
      /\ res' \in [Calls -> {Nothing, Error} \cup Writers]
      /\ \A d \in Calls : res'[d] = res[d] \/ res'[d] = Error
  <2>1. CASE w[1] = "call"
    <3>1. PICK c \in Calls : c = w[2]
      BY <2>1, WriterFacts
    <3> QED
      BY <2>1, <3>1, FailFacts DEF WriteFails
  <2>2. CASE w[1] # "call"
    BY <2>2 DEF WriteFails, callVars, PairInv, Shape
  <2> QED
    BY <2>1, <2>2
<1>3. Moves(w, "done") /\ wpc' \in [Writers -> Labels]
  BY <1>1, GotoFacts DEF Labels
<1>4. Holds(w, "done") /\ mutex' \in [Ends -> Writers \cup {NoOne}]
  BY <1>1, UnlockFacts
<1>6. UNCHANGED open \/ Close
  BY DEF WriteFails
<1>7. /\ open' \in BOOLEAN /\ (open' => open)
  BY <1>1, <1>6, CloseFacts
<1>8. Shape'
  BY <1>1, <1>2, <1>3, <1>4, <1>7 DEF PairInv, Shape, Buffered, initVars, readVars
<1>9. SeqInv' /\ ReplyIsOwn'
  BY <1>1, <1>2, SeqKept, ResKept DEF readVars
<1> QED
  BY <1>1, <1>2, <1>3, <1>4, <1>7, <1>8, <1>9, IdleStep DEF readVars

(* What a writer writes first.                                             *)
LEMMA NewHeader ==
  ASSUME PairInv, NEW w \in Writers, wpc[w] = "header", Moves(w, "body"), UNCHANGED <<initVars, seq>>,
         NEW h, h = Header(w), NEW p \in Ends, p = Peer(End(w))
  PROVE  h \in Headers /\ h.call = w /\ GoodHeader(h, p)'
<1>0. Shape /\ from \in [Calls -> Ends]
  BY DEF PairInv, Shape
<1>1. /\ h \in Headers /\ h.call = w
      /\ w[1] = "call" => h.method = Method(w[2])
      /\ w[1] # "call" => h.method = ""
      /\ w[1] # "input" => h.seq = seq[w[2]]
      /\ w[1] = "input" => h.error
  BY <1>0, HeaderFacts
<1>2. /\ \A c : Method(c)' = Method(c) /\ IsClient(c)' = IsClient(c)
      /\ End(w)' = End(w)
  BY ConstFacts
<1>3. End(w) = Peer(p)
  BY <1>0, EndFacts, EndsFacts
<1>4. ASSUME w[1] = "handle" PROVE wpc'[Caller(w[2])] = "done"
  <2>1. w[2] \in Calls /\ w = Handler(w[2])
    BY <1>4, WriterFacts
  <2>2. wpc[Caller(w[2])] = "done" /\ Caller(w[2]) \in Writers
    BY <2>1, WriterFacts DEF PairInv, ControlInv
  <2> QED
    BY <2>2 DEF Moves
<1>5. ASSUME w[1] = "input" PROVE ~IsClient(w[2])
  <2>1. w[2] \in Ends /\ w = Reader(w[2])
    BY <1>5, WriterFacts
  <2> QED
    BY <2>1 DEF PairInv, ControlInv
<1>6. wpc'[w] = "body"
  BY DEF Moves
<1> QED
  BY <1>1, <1>2, <1>3, <1>4, <1>5, <1>6 DEF GoodHeader

(* What is left to show when a writer at e has written to p.               *)
LEMMA WroteStep ==
  ASSUME PairInv, NEW w \in Writers, NEW l \in {"body", "done"}, wpc[w] \in {"header", "body"},
         Moves(w, l), Holds(w, l), UNCHANGED <<initVars, callVars, ipc, msg, misled>>,
         open' => open, NEW e \in Ends, e = End(w), NEW p \in Ends, p = Peer(e),
         conn'[e] = conn[e], encBuf'[p] = encBuf[p],
         Kept /\ NoStart(p) => Stream(p)',
         Shape', ClientBuf', ServerBuf', Len(conn'[p]) <= Cap + Cardinality(Calls)
  PROVE  PairInv'
<1>1. Kept /\ \A d \in Ends : NoStart(d)
  BY MoveKept DEF callVars
<1>2. ControlInv' /\ MsgInv'
  BY MoveControl, MsgSame
<1>3. SeqInv' /\ ReplyIsOwn' /\ ArgsAreOwn'
  BY SeqKept, ResKept, ArgsKept DEF callVars
<1>4. open' \in BOOLEAN
  BY DEF Shape
<1>5. Stream(e)'
  BY <1>1, <1>4, StreamBack
<1>6. \A d \in Ends : d = e \/ d = p
  BY EndsFacts
<1>7. StreamInv'
  BY <1>1, <1>5, <1>6 DEF StreamInv
<1>8. LenInv'
  BY <1>6 DEF PairInv, LenInv
<1> QED
  BY <1>2, <1>3, <1>7, <1>8 DEF PairInv, BufInv

(* Values of the two ends, named.                                          *)
LEMMA WriterEnds ==
  ASSUME PairInv, NEW w \in Writers
  PROVE  /\ End(w) \in Ends /\ Peer(End(w)) \in Ends /\ Peer(End(w)) # End(w)
         /\ Peer(Peer(End(w))) = End(w)
         /\ Cardinality(Calls) \in Nat /\ Cap \in Nat
BY EndFacts, EndsFacts, PairAssumption, FS_CardinalityType DEF PairInv, Shape

(* gobCodec writes the header to the connection.                           *)
LEMMA DirectHeaderStep ==
  ASSUME PairInv, NEW w \in Writers, WriteHeader(w), ~Buffered
  PROVE  PairInv'
<1>0. PICK e \in Ends, p \in Ends : e = End(w) /\ p = Peer(e) /\ p # e /\ Peer(p) = e
  BY WriterEnds
<1>1. /\ wpc[w] = "header" /\ Goto(w, "body") /\ open /\ Len(conn[p]) < Cap
      /\ conn' = [conn EXCEPT ![p] = conn[p] \o <<Header(w)>>] /\ encBuf' = encBuf
      /\ UNCHANGED <<initVars, callVars, mutex, open, readVars>>
  BY <1>0 DEF WriteHeader, Room, Send
<1>2. Moves(w, "body") /\ wpc' \in [Writers -> Labels]
  BY <1>1, GotoFacts DEF Labels
<1>3. Holds(w, "body")
  BY <1>1 DEF PairInv, ControlInv, Holds
<1>4. PICK h \in Headers : h = Header(w) /\ h.call = w /\ GoodHeader(h, p)'
  BY <1>0, <1>1, <1>2, NewHeader DEF callVars
<1>5. /\ conn[p] \in Seq(Values) /\ conn \in [Ends -> Seq(Values)] /\ encBuf[e] = <<>>
      /\ h \in Values /\ Shape /\ MsgInv /\ ControlInv /\ Stream(p)
  BY <1>4, HeaderType DEF PairInv, Shape, StreamInv
<1>6. conn[p] \o <<h>> = Append(conn[p], h) /\ Append(conn[p], h) \in Seq(Values)
  BY <1>5, AppendIsConcat, JoinAppend
<1>7. conn' \in [Ends -> Seq(Values)] /\ conn'[p] = Append(conn[p], h) /\ conn'[e] = conn[e]
  BY <1>0, <1>1, <1>4, <1>5, <1>6
<1>8. Shape'
  BY <1>1, <1>2, <1>7 DEF PairInv, Shape, Buffered, initVars, callVars, readVars
<1>9. ASSUME Kept, NoStart(p) PROVE Stream(p)'
  <2>1. Mode(p)' = Mode(p) /\ Read1(p)' = Read1(p)
    BY <1>1, ReaderSame DEF readVars
  <2>2. PICK x \in Seq(Values), y \in Seq(Values) : x = Read1(p) /\ y = conn[p]
    BY <1>5, StrType
  <2>3. Buf(p) = <<>> /\ Buf(p)' = <<>>
    BY <1>0, <1>1, <1>5 DEF Buf
  <2>4. x \o (y \o <<>>) = x \o y /\ x \o (Append(y, h) \o <<>>) = Append(x \o y, h)
        /\ x \o y \in Seq(Values)
    <3>1. Append(y, h) \in Seq(Values) /\ x \o Append(y, h) = Append(x \o y, h)
      BY <1>5, JoinAppend
    <3>2. y \o <<>> = y /\ Append(y, h) \o <<>> = Append(y, h) /\ x \o y \in Seq(Values)
      BY <3>1, Joined
    <3> QED
      BY <3>1, <3>2
  <2>5. PICK s \in Seq(Values) : s = Str(p) /\ Append(s, h) = Str(p)'
    BY <1>7, <2>1, <2>2, <2>3, <2>4 DEF Str
  <2> QED
    BY <1>0, <1>1, <1>2, <1>4, <1>5, <1>9, <2>1, <2>5, StreamHeader DEF Moves
<1>10. ClientBuf' /\ ServerBuf'
  <2>1. encBuf["a"] = <<>> /\ encBuf["b"] = <<>>
    BY DEF PairInv, Shape, Ends
  <2> QED
    BY <1>1, <2>1 DEF ClientBuf, ServerBuf
<1>11. Len(conn'[p]) <= Cap + Cardinality(Calls)
  BY <1>1, <1>5, <1>7, WriterEnds
<1> QED
  BY <1>0, <1>1, <1>2, <1>3, <1>7, <1>8, <1>9, <1>10, <1>11, WroteStep DEF readVars

(* At a Client only callers write.                                         *)
LEMMA ClientWriter ==
  ASSUME PairInv, Buffered, NEW w \in Writers, wpc[w] # "none", End(w) = "a"
  PROVE  w[1] = "call"
<1>1. "a" \in Ends /\ Peer("a") # "a"
  <2>1. "a" \in Ends
    BY DEF Ends
  <2> QED
    BY <2>1, EndsFacts
<1>2. from \in [Calls -> Ends] /\ \A c \in Calls : from[c] = "a"
  BY DEF PairInv, Shape
<1>3. w[1] # "handle"
  BY <1>1, <1>2, WriterFacts, EndFacts
<1>4. w[1] # "input"
  <2> SUFFICES ASSUME w[1] = "input" PROVE FALSE
    OBVIOUS
  <2>1. w = Reader("a")
    BY <1>2, WriterFacts, EndFacts
  <2>2. IsClient("a")
    BY DEF IsClient
  <2> QED
    BY <1>1, <2>1, <2>2 DEF PairInv, ControlInv
<1> QED
  BY <1>3, <1>4, WriterFacts

(* The other codecs write it to the buffer.                                *)
LEMMA BufferHeaderStep ==
  ASSUME PairInv, NEW w \in Writers, WriteHeader(w), Buffered
  PROVE  PairInv'
<1>0. PICK e \in Ends, p \in Ends : e = End(w) /\ p = Peer(e) /\ p # e /\ Peer(p) = e
  BY WriterEnds
<1>1. /\ wpc[w] = "header" /\ Goto(w, "body") /\ conn' = conn
      /\ encBuf' = [encBuf EXCEPT ![e] = Append(encBuf[e], Header(w))]
      /\ UNCHANGED <<initVars, callVars, mutex, open, readVars>>
  BY <1>0 DEF WriteHeader
<1>2. Moves(w, "body") /\ wpc' \in [Writers -> Labels]
  BY <1>1, GotoFacts DEF Labels
<1>3. Holds(w, "body")
  BY <1>1 DEF PairInv, ControlInv, Holds
<1>4. PICK h \in Headers : h = Header(w) /\ h.call = w /\ GoodHeader(h, p)'
  BY <1>0, <1>1, <1>2, NewHeader DEF callVars
<1>5. /\ conn[p] \in Seq(Values) /\ encBuf \in [Ends -> Seq(Headers)] /\ encBuf[e] \in Seq(Headers)
      /\ h \in Values /\ Shape /\ MsgInv /\ ControlInv /\ Stream(p) /\ open \in BOOLEAN
  BY <1>4, HeaderType DEF PairInv, Shape, StreamInv
<1>6. Append(encBuf[e], h) \in Seq(Headers)
  BY <1>5, AppendFacts
<1>7. /\ encBuf' \in [Ends -> Seq(Headers)] /\ encBuf'[e] = Append(encBuf[e], h)
      /\ encBuf'[p] = encBuf[p]
  BY <1>0, <1>1, <1>4, <1>5, <1>6
<1>8. Shape'
  BY <1>1, <1>2, <1>7 DEF PairInv, Shape, Buffered, initVars, callVars, readVars
<1>9. ASSUME Kept, NoStart(p) PROVE Stream(p)'
  <2>1. Mode(p)' = Mode(p) /\ Read1(p)' = Read1(p)
    BY <1>1, ReaderSame DEF readVars
  <2>2. PICK x \in Seq(Values), y \in Seq(Values), z \in Seq(Values) :
          x = Read1(p) /\ y = conn[p] /\ z = encBuf[e]
    BY <1>0, <1>5, StrType
  <2>3. CASE open
    <3>1. Buf(p) = z /\ Buf(p)' = Append(z, h)
      BY <1>0, <1>1, <1>7, <2>2, <2>3 DEF Buf
    <3>2. x \o (y \o Append(z, h)) = Append(x \o (y \o z), h) /\ x \o (y \o z) \in Seq(Values)
      <4>1. y \o z \in Seq(Values) /\ x \o (y \o z) \in Seq(Values)
        BY Joined
      <4>2. y \o Append(z, h) = Append(y \o z, h)
        BY <1>5, JoinAppend
      <4>3. x \o Append(y \o z, h) = Append(x \o (y \o z), h)
        BY <1>5, <4>1, JoinAppend
      <4> QED
        BY <4>1, <4>2, <4>3
    <3>3. PICK s \in Seq(Values) : s = Str(p) /\ Append(s, h) = Str(p)'
      BY <1>1, <2>1, <2>2, <3>1, <3>2 DEF Str
    <3> QED
      BY <1>0, <1>1, <1>2, <1>4, <1>5, <1>9, <2>1, <2>3, <3>3, StreamHeader DEF Moves
  <2>4. CASE ~open
    <3>1. Buf(p) = <<>> /\ Buf(p)' = <<>>
      BY <1>1, <2>4 DEF Buf
    <3>2. PICK s \in Seq(Values) : s = Str(p) /\ s = Str(p)'
      BY <1>1, <1>5, <2>1, <3>1, StrType DEF Str
    <3>3. Prefix(s, s)
      BY DEF Prefix
    <3>4. open' = open
      BY <1>1
    <3> QED
      BY <1>5, <1>9, <2>1, <2>4, <3>2, <3>3, <3>4, StreamQuiet
  <2> QED
    BY <2>3, <2>4
<1>10. /\ "a" \in Ends /\ "b" \in Ends /\ "a" # "b" /\ (e = "a" \/ e = "b")
  BY DEF Ends
<1>11. CASE e = "a"
  <2>1. w[1] = "call"
    BY <1>0, <1>1, <1>11, ClientWriter
  <2>2. Kept
    BY <1>1, <1>2, MoveKept DEF callVars
  <2>3. ClientBuf'
    <3>1. PICK z \in Seq(Headers) : z = encBuf["a"] /\ encBuf'["a"] = Append(z, h)
      BY <1>5, <1>7, <1>11
    <3>2. /\ Len(z) \in Nat /\ Append(z, h)[Len(z) + 1] = h
          /\ \A i \in DOMAIN z : Append(z, h)[i] = z[i] /\ i # Len(z) + 1
          /\ \A i \in DOMAIN Append(z, h) : i \in DOMAIN z \/ i = Len(z) + 1
      BY AppendFacts
    <3>3. ASSUME NEW i \in DOMAIN z
          PROVE  /\ z[i].call[1] = "call" /\ wpc[z[i].call] \in {"body", "done"}
                 /\ wpc'[z[i].call] \in {"body", "done"}
      <4>1. PICK g \in Headers : g = z[i]
        OBVIOUS
      <4>2. g.call \in Writers /\ g.call[1] = "call" /\ wpc[g.call] \in {"body", "done"}
        BY <3>1, <4>1, HeaderType DEF PairInv, BufInv, ClientBuf
      <4>3. wpc'[g.call] = wpc[g.call]
        BY <1>1, <1>2, <4>2 DEF Moves
      <4> QED
        BY <4>1, <4>2, <4>3
    <3>4. \A i, j \in DOMAIN z : z[i].call = z[j].call => i = j
      BY <3>1 DEF PairInv, BufInv, ClientBuf
    <3>5. \A i \in DOMAIN z : z[i].call # h.call
      BY <1>1, <1>4, <3>3
    <3> DEFINE t == Append(z, h)
    <3>6. \A i \in DOMAIN t : t[i].call[1] = "call" /\ wpc'[t[i].call] \in {"body", "done"}
      BY <1>2, <1>4, <2>1, <3>2, <3>3 DEF Moves
    <3>7. \A i, j \in DOMAIN t : t[i].call = t[j].call => i = j
      BY <3>2, <3>4, <3>5
    <3> QED
      BY <3>1, <3>6, <3>7 DEF ClientBuf
  <2>4. ServerBuf'
    <3>1. encBuf'["b"] = encBuf["b"]
      BY <1>0, <1>7, <1>10, <1>11, EndsFacts
    <3> QED
      BY <1>1, <1>2, <3>1, ServerBufKept DEF Moves
  <2>5. Len(conn'[p]) <= Cap + Cardinality(Calls)
    BY <1>1 DEF PairInv, LenInv
  <2> QED
    BY <1>0, <1>1, <1>2, <1>3, <1>7, <1>8, <1>9, <2>3, <2>4, <2>5, WroteStep DEF readVars
<1>12. CASE e = "b"
  <2>1. Kept
    BY <1>1, <1>2, MoveKept DEF callVars
  <2>2. ClientBuf'
    <3>1. encBuf'["a"] = encBuf["a"]
      BY <1>0, <1>7, <1>10, <1>12, EndsFacts
    <3> QED
      BY <2>1, <3>1, ClientBufKept
  <2>3. ServerBuf'
    <3> SUFFICES ASSUME open'
                 PROVE  Len(encBuf'["b"]) = 1 /\ \E v \in Writers : End(v)' = "b" /\ wpc'[v] = "body"
      BY DEF ServerBuf
    <3>1. encBuf["b"] = <<>>
      <4> SUFFICES ASSUME encBuf["b"] # <<>> PROVE FALSE
        OBVIOUS
      <4>1. PICK v \in Writers : End(v) = "b" /\ wpc[v] = "body"
        BY <1>1 DEF PairInv, BufInv, ServerBuf
      <4> QED
        BY <1>0, <1>1, <1>5, <1>12, <4>1, OneWriter
    <3>2. Len(encBuf'["b"]) = 1
      <4>1. encBuf'["b"] = Append(<<>>, h)
        BY <1>7, <1>12, <3>1
      <4>2. Len(Append(<<>>, h)) = 1
        OBVIOUS
      <4> QED
        BY <4>1, <4>2
    <3>3. End(w)' = "b" /\ wpc'[w] = "body"
      BY <1>0, <1>1, <1>2, <1>12, ConstFacts DEF Moves
    <3> QED
      BY <3>2, <3>3
  <2>4. Len(conn'[p]) <= Cap + Cardinality(Calls)
    BY <1>1 DEF PairInv, LenInv
  <2> QED
    BY <1>0, <1>1, <1>2, <1>3, <1>7, <1>8, <1>9, <2>2, <2>3, <2>4, WroteStep DEF readVars
<1> QED
  BY <1>10, <1>11, <1>12

(* The buffer runs over.                                                   *)
LEMMA SpillStep ==
  ASSUME PairInv, NEW w \in Writers, Spill(w)
  PROVE  PairInv'
<1>0. PICK e \in Ends, p \in Ends : e = End(w) /\ p = Peer(e) /\ p # e /\ Peer(p) = e
  BY WriterEnds
<1>1. /\ wpc[w] = "body" /\ encBuf[e] # <<>> /\ open /\ Len(conn[p]) < Cap
      /\ conn' = [conn EXCEPT ![p] = conn[p] \o <<Head(encBuf[e])>>]
      /\ encBuf' = [encBuf EXCEPT ![e] = Tail(encBuf[e])]
      /\ UNCHANGED <<initVars, callVars, wpc, mutex, open, readVars>>
  BY <1>0 DEF Spill, Room, Send
<1>2. /\ conn[p] \in Seq(Values) /\ encBuf[e] \in Seq(Headers) /\ Shape /\ MsgInv /\ open \in BOOLEAN
      /\ conn \in [Ends -> Seq(Values)] /\ encBuf \in [Ends -> Seq(Headers)] /\ Stream(p)
  BY DEF PairInv, Shape, StreamInv
<1>3. PICK h \in Headers : h = Head(encBuf[e]) /\ Tail(encBuf[e]) \in Seq(Headers)
  BY <1>1, <1>2, TailFacts
<1>4. h \in Values
  BY HeaderType
<1>5. conn[p] \o <<h>> = Append(conn[p], h) /\ Append(conn[p], h) \in Seq(Values)
  BY <1>2, <1>4, AppendIsConcat, JoinAppend
<1>6. /\ conn' \in [Ends -> Seq(Values)] /\ conn'[p] = Append(conn[p], h) /\ conn'[e] = conn[e]
      /\ encBuf' \in [Ends -> Seq(Headers)] /\ encBuf'[e] = Tail(encBuf[e]) /\ encBuf'[p] = encBuf[p]
  BY <1>0, <1>1, <1>2, <1>3, <1>5
<1>7. Buffered
  BY <1>1, <1>2 DEF Shape
<1>8. Shape'
  BY <1>1, <1>6, <1>7 DEF PairInv, Shape, Buffered, initVars, callVars, readVars
<1>9. Kept /\ \A d \in Ends : NoStart(d) /\ Settled(d)
  BY <1>1 DEF Kept, NoStart, Settled, callVars
<1>10. Stream(e)'
  BY <1>0, <1>1, <1>2, <1>6, <1>9, StreamIdle DEF readVars
<1>11. Stream(p)'
  <2>1. Mode(p)' = Mode(p) /\ Read1(p)' = Read1(p)
    BY <1>1, ReaderSame DEF readVars
  <2>2. PICK x \in Seq(Values), y \in Seq(Values), z \in Seq(Values) :
          x = Read1(p) /\ y = conn[p] /\ z = encBuf[e]
    BY <1>0, <1>2, StrType
  <2>3. Buf(p) = z /\ Buf(p)' = Tail(z)
    BY <1>0, <1>1, <1>6, <2>2 DEF Buf
  <2>4. Append(y, h) \o Tail(z) = y \o z
    <3>1. z = <<h>> \o Tail(z) /\ Tail(z) \in Seq(Values) /\ <<h>> \in Seq(Values)
      BY <1>1, <1>3, <1>4, <2>2, JoinFirst
    <3>2. Append(y, h) = y \o <<h>>
      BY <1>4, AppendIsConcat
    <3>3. y \o (<<h>> \o Tail(z)) = (y \o <<h>>) \o Tail(z)
      BY <3>1, Joined
    <3> QED
      BY <3>1, <3>2, <3>3
  <2>5. x \o (y \o z) \in Seq(Values)
    BY Joined
  <2>6. PICK s \in Seq(Values) : s = Str(p) /\ s = Str(p)'
    BY <1>6, <2>1, <2>2, <2>3, <2>4, <2>5 DEF Str
  <2>7. Prefix(s, s)
    BY DEF Prefix
  <2> QED
    BY <1>1, <1>2, <1>9, <2>1, <2>6, <2>7, StreamQuiet
<1>12. \A d \in Ends : d = e \/ d = p
  BY <1>0, EndsFacts
<1>13. /\ "a" \in Ends /\ "b" \in Ends /\ "a" # "b" /\ (e = "a" \/ e = "b")
  BY DEF Ends
<1>14. PICK z \in Seq(Headers) : z = encBuf[e] /\ z # <<>> /\ encBuf'[e] = Tail(z)
  BY <1>1, <1>2, <1>6
<1>15. ClientBuf' /\ ServerBuf'
  <2>1. CASE e = "a"
    <3>1. ServerBuf'
      <4>1. encBuf'["b"] = encBuf["b"]
        BY <1>6, <1>12, <1>13, <2>1
      <4> QED
        BY <1>1, <4>1, ServerBufKept
    <3>2. \A i \in DOMAIN Tail(z) : i \in Nat /\ i + 1 \in DOMAIN z /\ Tail(z)[i] = z[i + 1]
      BY <1>14, TailFacts
    <3>3. /\ \A i \in DOMAIN z : z[i].call[1] = "call" /\ wpc[z[i].call] \in {"body", "done"}
          /\ \A i, j \in DOMAIN z : z[i].call = z[j].call => i = j
      BY <1>14, <2>1 DEF PairInv, BufInv, ClientBuf
    <3>4. \A i \in DOMAIN Tail(z) :
            Tail(z)[i].call[1] = "call" /\ wpc'[Tail(z)[i].call] \in {"body", "done"}
      BY <1>1, <3>2, <3>3
    <3>5. ASSUME NEW i \in DOMAIN Tail(z), NEW j \in DOMAIN Tail(z),
                 Tail(z)[i].call = Tail(z)[j].call
          PROVE  i = j
      <4>1. i + 1 = j + 1
        BY <3>2, <3>3, <3>5
      <4> QED
        BY <3>2, <4>1
    <3> QED
      BY <1>14, <2>1, <3>1, <3>4, <3>5 DEF ClientBuf
  <2>2. CASE e = "b"
    <3>1. ClientBuf'
      <4>1. encBuf'["a"] = encBuf["a"]
        BY <1>6, <1>12, <1>13, <2>2
      <4> QED
        BY <1>9, <4>1, ClientBufKept
    <3>2. Len(z) = 1
      BY <1>1, <1>14, <2>2 DEF PairInv, BufInv, ServerBuf
    <3>3. Tail(z) = <<>>
      <4>1. Tail(z) \in Seq(Headers) /\ Len(Tail(z)) = 0
        BY <1>14, <3>2
      <4> QED
        BY <4>1, EmptySeq
    <3> QED
      BY <1>14, <2>2, <3>1, <3>3 DEF ServerBuf
  <2> QED
    BY <1>13, <2>1, <2>2
<1>16. ControlInv'
  <2>1. \A v : End(v)' = End(v) /\ IsClient(v)' = IsClient(v)
    BY <1>1, ConstFacts
  <2> QED
    BY <1>1, <2>1 DEF PairInv, ControlInv, readVars
<1>17. MsgInv' /\ SeqInv' /\ ReplyIsOwn' /\ ArgsAreOwn'
  BY <1>1, MsgSame, SeqKept, ResKept, ArgsKept DEF callVars, readVars
<1>18. LenInv'
  <2>1. Len(conn'[p]) <= Cap + Cardinality(Calls)
    BY <1>1, <1>2, <1>6, WriterEnds
  <2> QED
    BY <1>6, <1>12, <2>1 DEF PairInv, LenInv
<1> QED
  BY <1>8, <1>10, <1>11, <1>12, <1>15, <1>16, <1>17, <1>18 DEF PairInv, StreamInv, BufInv

(* A buffer never holds more headers than there are calls.                 *)
LEMMA BufLen ==
  ASSUME PairInv, open, NEW e \in Ends
  PROVE  Len(encBuf[e]) \in Nat /\ Len(encBuf[e]) <= Cardinality(Calls)
<1>0. /\ IsFiniteSet(Calls) /\ Cardinality(Calls) \in Nat /\ Cardinality(Calls) # 0
      /\ "a" \in Ends /\ "b" \in Ends /\ (e = "a" \/ e = "b")
  BY PairAssumption, FS_CardinalityType, FS_EmptySet DEF Ends
<1>1. encBuf[e] \in Seq(Headers) /\ Len(encBuf[e]) \in Nat
  BY DEF PairInv, Shape
<1>2. CASE e = "a"
  <2>1. ASSUME NEW i \in DOMAIN encBuf[e]
        PROVE  encBuf[e][i].call[2] \in Calls /\ encBuf[e][i].call = Caller(encBuf[e][i].call[2])
    <3>1. PICK h \in Headers : h = encBuf[e][i]
      BY <1>1
    <3>2. h.call \in Writers /\ h.call[1] = "call"
      BY <1>2, <3>1, HeaderType DEF PairInv, BufInv, ClientBuf
    <3> QED
      BY <3>1, <3>2, WriterFacts
  <2>2. PICK n \in Nat : n = Len(encBuf[e]) /\ DOMAIN encBuf[e] = 1 .. n
    BY <1>1
  <2> DEFINE f == [i \in 1 .. n |-> encBuf[e][i].call[2]]
  <2>3. f \in [1 .. n -> Calls]
    BY <2>1, <2>2
  <2>4. ASSUME NEW i \in 1 .. n, NEW j \in 1 .. n, f[i] = f[j] PROVE i = j
    <3>1. encBuf[e][i].call[2] = encBuf[e][j].call[2]
      BY <2>4
    <3>2. encBuf[e][i].call = encBuf[e][j].call
      BY <2>1, <2>2, <3>1
    <3> QED
      BY <1>2, <2>2, <3>2 DEF PairInv, BufInv, ClientBuf
  <2> HIDE DEF f
  <2>5. f \in Injection(1 .. n, Calls)
    <3>1. DOMAIN f = 1 .. n
      BY <2>3
    <3> QED
      BY <2>3, <2>4, <3>1 DEF Injection, IsInjective
  <2>6. Cardinality(1 .. n) <= Cardinality(Calls)
    BY <1>0, <2>5, FS_Injection
  <2>7. Cardinality(1 .. n) = n
    <3>1. Cardinality(1 .. n) = IF 1 > n THEN 0 ELSE n - 1 + 1
      BY FS_Interval
    <3> QED
      BY <3>1
  <2> QED
    BY <2>2, <2>6, <2>7
<1>3. CASE e = "b" /\ encBuf[e] # <<>>
  <2>1. Len(encBuf["b"]) = 1
    BY <1>3 DEF PairInv, BufInv, ServerBuf
  <2> QED
    BY <1>0, <1>3, <2>1
<1>4. CASE encBuf[e] = <<>>
  BY <1>0, <1>4
<1> QED
  BY <1>0, <1>1, <1>2, <1>3, <1>4

(* A buffer is flushed.                                                    *)
LEMMA FlushBuf ==
  ASSUME PairInv, Kept, NEW w \in Writers, NEW l, Moves(w, l), open' => open,
         encBuf' = [encBuf EXCEPT ![End(w)] = <<>>]
  PROVE  /\ encBuf' \in [Ends -> Seq(Headers)] /\ ClientBuf' /\ ServerBuf'
         /\ encBuf'[End(w)] = <<>> /\ encBuf'[Peer(End(w))] = encBuf[Peer(End(w))]
<1>0. PICK e \in Ends, p \in Ends : e = End(w) /\ p = Peer(e) /\ p # e
  BY WriterEnds
<1>1. encBuf \in [Ends -> Seq(Headers)] /\ <<>> \in Seq(Headers)
  BY DEF PairInv, Shape
<1>2. encBuf' \in [Ends -> Seq(Headers)] /\ encBuf'[e] = <<>> /\ encBuf'[p] = encBuf[p]
  BY <1>0, <1>1
<1>3. /\ "a" \in Ends /\ "b" \in Ends /\ "a" # "b" /\ (e = "a" \/ e = "b")
      /\ \A d \in Ends : d = e \/ d = p
  BY <1>0, EndsFacts DEF Ends
<1>4. CASE e = "a"
  <2>1. ClientBuf'
    BY <1>2, <1>4 DEF ClientBuf
  <2>2. encBuf'["b"] = encBuf["b"]
    BY <1>2, <1>3, <1>4
  <2>3. ServerBuf'
    BY <1>0, <1>3, <1>4, <2>2, ServerBufKept DEF Moves, Kept
  <2> QED
    BY <1>0, <1>2, <2>1, <2>3
<1>5. CASE e = "b"
  <2>1. ServerBuf'
    BY <1>2, <1>5 DEF ServerBuf
  <2>2. encBuf'["a"] = encBuf["a"]
    BY <1>2, <1>3, <1>5
  <2>3. ClientBuf'
    BY <2>2, ClientBufKept
  <2> QED
    BY <1>0, <1>2, <2>1, <2>3
<1> QED
  BY <1>3, <1>4, <1>5

LEMMA WriteBodyStep ==
  ASSUME PairInv, NEW w \in Writers, WriteBody(w)
  PROVE  PairInv'
<1>0. PICK e \in Ends, p \in Ends : e = End(w) /\ p = Peer(e) /\ p # e /\ Peer(p) = e
  BY WriterEnds
<1>1. /\ wpc[w] = "body" /\ Goto(w, "done") /\ Unlock(w) /\ open /\ Len(conn[p]) < Cap
      /\ conn' = [conn EXCEPT ![p] = conn[p] \o Append(encBuf[e], Body(w))]
      /\ encBuf' = [encBuf EXCEPT ![e] = <<>>]
      /\ UNCHANGED <<initVars, callVars, open, readVars>>
  BY <1>0 DEF WriteBody, Room, Send
<1>2. Moves(w, "done") /\ wpc' \in [Writers -> Labels]
  BY <1>1, GotoFacts DEF Labels
<1>3. Holds(w, "done") /\ mutex' \in [Ends -> Writers \cup {NoOne}]
  BY <1>1, UnlockFacts
<1>4. Kept /\ \A d \in Ends : NoStart(d)
  BY <1>1, <1>2, MoveKept DEF callVars
<1>5. /\ encBuf' \in [Ends -> Seq(Headers)] /\ ClientBuf' /\ ServerBuf'
      /\ encBuf'[e] = <<>> /\ encBuf'[p] = encBuf[p]
  BY <1>0, <1>1, <1>2, <1>4, FlushBuf
<1>6. /\ conn[p] \in Seq(Values) /\ conn \in [Ends -> Seq(Values)] /\ Body(w) \in Values
      /\ Shape /\ MsgInv /\ ControlInv /\ Stream(p)
  BY BodyType DEF PairInv, Shape, StreamInv
<1>7. PICK x \in Seq(Values), y \in Seq(Values), z \in Seq(Values) :
        x = Read1(p) /\ y = conn[p] /\ z = encBuf[e]
  BY <1>0, <1>6, StrType
<1>8. Append(z, Body(w)) \in Seq(Values) /\ y \o Append(z, Body(w)) \in Seq(Values)
  BY <1>6, JoinAppend, Joined
<1>9. conn' \in [Ends -> Seq(Values)] /\ conn'[p] = y \o Append(z, Body(w)) /\ conn'[e] = conn[e]
  BY <1>0, <1>1, <1>6, <1>7, <1>8
<1>10. Shape'
  <2>1. ~Buffered => \A d \in Ends : encBuf'[d] = <<>>
    BY <1>0, <1>5, EndsFacts DEF PairInv, Shape
  <2> QED
    BY <1>1, <1>2, <1>3, <1>5, <1>9, <2>1 DEF PairInv, Shape, Buffered, initVars, callVars, readVars
<1>11. Stream(p)'
  <2>1. Mode(p)' = Mode(p) /\ Read1(p)' = Read1(p)
    BY <1>1, ReaderSame DEF readVars
  <2>2. Buf(p) = z /\ Buf(p)' = <<>>
    BY <1>0, <1>1, <1>5, <1>7 DEF Buf
  <2>3. /\ x \o (y \o z) \in Seq(Values)
        /\ x \o ((y \o Append(z, Body(w))) \o <<>>) = Append(x \o (y \o z), Body(w))
    <3>1. y \o z \in Seq(Values) /\ x \o (y \o z) \in Seq(Values)
      BY Joined
    <3>2. (y \o Append(z, Body(w))) \o <<>> = y \o Append(z, Body(w))
      BY <1>8, Joined
    <3>3. y \o Append(z, Body(w)) = Append(y \o z, Body(w))
      BY <1>6, JoinAppend
    <3>4. x \o Append(y \o z, Body(w)) = Append(x \o (y \o z), Body(w))
      BY <1>6, <3>1, JoinAppend
    <3> QED
      BY <3>1, <3>2, <3>3, <3>4
  <2>4. PICK s \in Seq(Values) : s = Str(p) /\ Append(s, Body(w)) = Str(p)'
    BY <1>7, <1>9, <2>1, <2>2, <2>3 DEF Str
  <2> QED
    BY <1>0, <1>1, <1>2, <1>4, <1>6, <2>1, <2>4, StreamBody DEF Moves
<1>12. Len(conn'[p]) <= Cap + Cardinality(Calls)
  <2>1. Len(z) \in Nat /\ Len(z) <= Cardinality(Calls)
    BY <1>1, <1>7, BufLen
  <2>2. Len(y \o Append(z, Body(w))) = Len(y) + (Len(z) + 1) /\ Len(y) \in Nat
    BY <1>6, <1>8, AppendFacts, ConcatFacts
  <2>3. Len(y) < Cap /\ Cap \in Nat /\ Cardinality(Calls) \in Nat
    BY <1>1, <1>7, WriterEnds
  <2>4. Len(y) + (Len(z) + 1) <= Cap + Cardinality(Calls)
    BY <2>1, <2>2, <2>3
  <2> QED
    BY <1>9, <2>2, <2>4
<1> QED
  BY <1>0, <1>1, <1>2, <1>3, <1>5, <1>9, <1>10, <1>11, <1>12, WroteStep DEF readVars

(* A reply cannot be encoded: the header goes out alone, and that is all.  *)
LEMMA ResponseFailsStep ==
  ASSUME PairInv, NEW w \in Writers, ResponseFails(w)
  PROVE  PairInv'
<1>0. PICK e \in Ends, p \in Ends : e = End(w) /\ p = Peer(e) /\ p # e /\ Peer(p) = e
  BY WriterEnds
<1>1. /\ wpc[w] = "body" /\ w[1] = "handle" /\ Goto(w, "done") /\ Unlock(w) /\ Close
      /\ Buffered => open /\ Len(conn[p]) < Cap
      /\ conn' = [conn EXCEPT ![p] = conn[p] \o encBuf[e]]
      /\ encBuf' = [encBuf EXCEPT ![e] = <<>>]
      /\ UNCHANGED <<initVars, callVars, readVars>>
  BY <1>0 DEF ResponseFails, GiveUp, Room, Send
<1>2. Moves(w, "done") /\ wpc' \in [Writers -> Labels]
  BY <1>1, GotoFacts DEF Labels
<1>3. Holds(w, "done") /\ mutex' \in [Ends -> Writers \cup {NoOne}]
  BY <1>1, UnlockFacts
<1>4. Kept /\ \A d \in Ends : NoStart(d)
  BY <1>1, <1>2, MoveKept DEF callVars
<1>5. open' \in BOOLEAN /\ open' = FALSE
  BY <1>1, CloseFacts DEF Close
<1>6. /\ encBuf' \in [Ends -> Seq(Headers)] /\ ClientBuf' /\ ServerBuf'
      /\ encBuf'[e] = <<>> /\ encBuf'[p] = encBuf[p]
  BY <1>0, <1>1, <1>2, <1>4, <1>5, FlushBuf
<1>7. /\ conn[p] \in Seq(Values) /\ conn \in [Ends -> Seq(Values)]
      /\ Shape /\ MsgInv /\ ControlInv /\ Stream(p)
  BY DEF PairInv, Shape, StreamInv
<1>8. PICK x \in Seq(Values), y \in Seq(Values), z \in Seq(Values) :
        x = Read1(p) /\ y = conn[p] /\ z = encBuf[e]
  BY <1>0, <1>7, StrType
<1>9. y \o z \in Seq(Values)
  BY Joined
<1>10. conn' \in [Ends -> Seq(Values)] /\ conn'[p] = y \o z /\ conn'[e] = conn[e]
  BY <1>0, <1>1, <1>7, <1>8, <1>9
<1>11. ~Buffered => z = <<>> /\ \A d \in Ends : encBuf'[d] = <<>>
  BY <1>0, <1>6, <1>8, EndsFacts DEF PairInv, Shape
<1>12. Shape'
  BY <1>1, <1>2, <1>3, <1>5, <1>6, <1>10, <1>11 DEF PairInv, Shape, Buffered, initVars, callVars, readVars
<1>13. Stream(p)'
  <2>1. Mode(p)' = Mode(p) /\ Read1(p)' = Read1(p)
    BY <1>1, ReaderSame DEF readVars
  <2>2. Buf(p) = z /\ Buf(p)' = <<>>
    <3>1. open => Buf(p) = z
      BY <1>0, <1>8 DEF Buf
    <3>2. ~open => Buf(p) = <<>> /\ z = <<>>
      BY <1>1, <1>11 DEF Buf
    <3> QED
      BY <1>5, <3>1, <3>2 DEF Buf
  <2>3. x \o (y \o z) \in Seq(Values) /\ (y \o z) \o <<>> = y \o z
    BY <1>9, Joined
  <2>4. PICK s \in Seq(Values) : s = Str(p) /\ s = Str(p)'
    BY <1>8, <1>10, <2>1, <2>2, <2>3 DEF Str
  <2>5. Prefix(s, s)
    BY DEF Prefix
  <2> QED
    BY <1>4, <1>5, <1>7, <2>1, <2>4, <2>5, StreamQuiet
<1>14. Len(conn'[p]) <= Cap + Cardinality(Calls)
  <2>0. Cap \in Nat /\ Cardinality(Calls) \in Nat /\ Len(y) \in Nat /\ Len(z) \in Nat
    BY WriterEnds
  <2>1. Len(y \o z) = Len(y) + Len(z)
    BY ConcatFacts
  <2>2. CASE Buffered
    <3>1. Len(z) <= Cardinality(Calls)
      BY <1>1, <1>8, <2>2, BufLen
    <3>2. Len(y) < Cap
      BY <1>1, <1>8, <2>2
    <3>3. Len(y) + Len(z) <= Cap + Cardinality(Calls)
      BY <2>0, <3>1, <3>2
    <3> QED
      BY <1>10, <2>1, <3>3
  <2>3. CASE ~Buffered
    <3>1. y \o z = y
      BY <1>11, <2>3, Joined
    <3>2. Len(y) <= Cap + Cardinality(Calls)
      BY <1>8 DEF PairInv, LenInv
    <3> QED
      BY <1>10, <3>1, <3>2
  <2> QED
    BY <2>2, <2>3
<1>15. open' => open
  BY <1>5
<1> QED
  BY <1>0, <1>1, <1>2, <1>3, <1>6, <1>10, <1>12, <1>13, <1>14, <1>15, WroteStep DEF readVars

LEMMA WriteStep ==
  ASSUME PairInv, NEW w \in Writers, Write(w)
  PROVE  PairInv'
<1>1. WriteHeader(w) => PairInv'
  BY DirectHeaderStep, BufferHeaderStep
<1> QED
  BY <1>1, SpillStep, WriteBodyStep, RequestFailsStep, ResponseFailsStep, WriteFailsStep DEF Write

-----------------------------------------------------------------------------
(* Readers *)

(* A reader has taken, or given up, the first k values.                    *)
LEMMA StreamDrop ==
  ASSUME Kept, NEW e \in Ends, Settled(e), open' => open, Stream(e),
         NEW s \in Seq(Values), s = Str(e), NEW t \in Seq(Values), t = Str(e)',
         NEW k \in Nat, k > 0, Len(s) = Len(t) + k, \A i \in DOMAIN t : t[i] = s[i + k],
         NEW n, n = Mode(e)', StrOK(t, e, n),
         n = "any" \/ (t = <<>> => ~IsHeader(s[Len(s)])),
         \A i \in DOMAIN t : KnownAt(t, i) /\ wpc[Handler(t[i].call[2])] = "none" =>
                               wpc'[Handler(t[i].call[2])] = "none"
  PROVE  Stream(e)'
<1>1. PICK m : m = Mode(e)
  OBVIOUS
<1>2. StrOK(s, e, m) /\ KnownOK(s) /\ (open => LastOK(s, m) /\ ReadyOK(s, e, m))
  BY <1>1, StreamUse
<1>3. StrOK(t, e, n)'
  BY StrKept
<1>4. /\ Len(t) \in Nat /\ Len(s) \in Nat /\ s # <<>> /\ \A i \in DOMAIN t : i + k \in DOMAIN s
      /\ t # <<>> => Len(s) # 1 /\ Len(t) \in DOMAIN t
  <2>1. Len(t) \in Nat /\ Len(s) \in Nat /\ DOMAIN t = 1 .. Len(t) /\ DOMAIN s = 1 .. Len(s)
    OBVIOUS
  <2>2. s # <<>>
    BY <2>1
  <2>3. t # <<>> => Len(t) > 0
    OBVIOUS
  <2> QED
    BY <2>1, <2>2, <2>3
<1>5. t # <<>> => t[Len(t)] = s[Len(s)]
  BY <1>4
<1>6. KnownOK(t)'
  BY <1>2, <1>4, KnownFrom
<1>7. ASSUME open' PROVE LastOK(t, n)' /\ ReadyOK(t, e, n)'
  <2>0. LastOK(s, m) /\ ReadyOK(s, e, m)
    BY <1>2, <1>7
  <2>1. LastOK(t, n)'
    <3> SUFFICES ASSUME t # <<>>, IsHeader(t[Len(t)])
                 PROVE  wpc'[t[Len(t)].call] = "body" \/ Alone(t[Len(t)])'
      BY DEF LastOK
    <3>1. PICK h \in Headers : h = t[Len(t)] /\ h = s[Len(s)] /\ GoodHeader(h, e)
      BY <1>2, <1>4, <1>5, LastFacts
    <3>2. wpc[h.call] = "body" \/ Alone(h)
      BY <1>4, <1>5, <2>0, <3>1 DEF LastOK
    <3>3. wpc[h.call] = "body" => wpc'[h.call] = "body" \/ Alone(h)'
      <4>1. h.call \in Writers /\ End(h.call) = Peer(e) /\ Encodable(h.call)' = Encodable(h.call)
        BY <3>1, HeaderType, ConstFacts DEF GoodHeader, Kept
      <4> QED
        BY <4>1 DEF Settled, Alone
    <3> QED
      BY <3>1, <3>2, <3>3, AloneKept
  <2>2. ReadyOK(t, e, n)'
    <3> SUFFICES ASSUME NEW w \in Writers, wpc'[w] = "body", End(w)' = Peer(e)
                 PROVE  IF t = <<>> THEN n = "any"
                        ELSE IsHeader(t[Len(t)]) /\ GoodHeader(t[Len(t)], e)' /\ t[Len(t)].call = w
      BY DEF ReadyOK
    <3>1. End(w) = Peer(e) /\ wpc[w] = "body"
      BY ConstFacts DEF Kept, Settled
    <3>2. IsHeader(s[Len(s)]) /\ GoodHeader(s[Len(s)], e) /\ s[Len(s)].call = w
      BY <1>4, <2>0, <3>1 DEF ReadyOK
    <3>3. s[Len(s)] \in Headers
      BY <1>2, <1>4, <3>2, LastFacts
    <3>4. GoodHeader(s[Len(s)], e)'
      BY <3>2, <3>3, HeaderKept
    <3>5. CASE t = <<>>
      BY <3>2, <3>5
    <3>6. CASE t # <<>>
      BY <1>5, <3>2, <3>4, <3>6
    <3> QED
      BY <3>5, <3>6
  <2> QED
    BY <2>1, <2>2
<1> QED
  BY <1>3, <1>6, <1>7, StreamFrom

(* A reader has taken a body for a header.                                 *)
LEMMA StreamMisled ==
  ASSUME Kept, NEW e \in Ends, wpc' = wpc, open' = open, Stream(e), Mode(e)' = "fake",
         NEW s \in Seq(Values), s = Str(e), NEW t \in Seq(Values), t = Str(e)',
         s # <<>>, ~IsHeader(s[1]), Len(t) = Len(s), IsHeader(t[1]), Blank(t[1]),
         \A i \in 2 .. Len(s) : t[i] = s[i]
  PROVE  Stream(e)'
<1>1. PICK m : m = Mode(e)
  OBVIOUS
<1>2. StrOK(s, e, m) /\ KnownOK(s) /\ (open => LastOK(s, m) /\ ReadyOK(s, e, m))
  BY <1>1, StreamUse
<1>3. StrOK(t, e, "fake")'
  BY <1>2, StrFake, StrKept
<1>4. /\ Len(s) \in Nat /\ Len(s) > 0 /\ DOMAIN s = 1 .. Len(s) /\ DOMAIN t = 1 .. Len(s)
      /\ t # <<>>
  OBVIOUS
<1>5. KnownOK(t)'
  <2>1. ASSUME NEW i \in DOMAIN t, KnownAt(t, i)
        PROVE  i + 0 \in DOMAIN s /\ t[i] = s[i + 0]
    <3>1. i # 1
      BY <2>1 DEF KnownAt, Blank
    <3>2. i \in 2 .. Len(s) /\ i + 0 = i /\ i \in DOMAIN s
      BY <1>4, <3>1
    <3> QED
      BY <3>2
  <2> QED
    BY <1>2, <2>1, KnownFrom
<1>6. Len(s) # 1 => Len(s) \in 2 .. Len(s)
  BY <1>4
<1>7. Len(s) # 1 => t[Len(t)] = s[Len(s)]
  BY <1>6
<1>8. ASSUME open PROVE LastOK(t, "fake")' /\ ReadyOK(t, e, "fake")'
  <2>0. LastOK(s, m) /\ ReadyOK(s, e, m)
    BY <1>2, <1>8
  <2>1. LastOK(t, "fake")'
    <3> SUFFICES ASSUME IsHeader(t[Len(t)]), Len(s) # 1
                 PROVE  wpc[t[Len(t)].call] = "body" \/ Alone(t[Len(t)])'
      BY DEF LastOK, Fake, Blank
    <3>1. PICK h \in Headers : h = t[Len(t)] /\ h = s[Len(s)]
      BY <1>2, <1>4, <1>7, LastFacts
    <3>2. wpc[h.call] = "body" \/ Alone(h)
      BY <1>4, <1>7, <2>0, <3>1 DEF LastOK
    <3> QED
      BY <3>1, <3>2, AloneKept
  <2>2. ReadyOK(t, e, "fake")'
    <3> SUFFICES ASSUME NEW w \in Writers, wpc[w] = "body", End(w)' = Peer(e)
                 PROVE  IsHeader(t[Len(t)]) /\ GoodHeader(t[Len(t)], e)' /\ t[Len(t)].call = w
      BY <1>4 DEF ReadyOK
    <3>1. End(w) = Peer(e)
      BY ConstFacts DEF Kept
    <3>2. IsHeader(s[Len(s)]) /\ GoodHeader(s[Len(s)], e) /\ s[Len(s)].call = w
      BY <2>0, <3>1 DEF ReadyOK
    <3>3. s[Len(s)] \in Headers /\ Len(s) # 1
      BY <1>2, <3>2, LastFacts
    <3>4. GoodHeader(s[Len(s)], e)'
      BY <3>2, <3>3, HeaderKept
    <3> QED
      BY <1>7, <3>2, <3>3, <3>4
  <2> QED
    BY <2>1, <2>2
<1>9. open' => LastOK(t, "fake")' /\ ReadyOK(t, e, "fake")'
  BY <1>8
<1> QED
  BY <1>3, <1>5, <1>9, StreamFrom

(* What is left to show when the reader of e has taken a step.             *)
LEMMA ReaderStep ==
  ASSUME PairInv, NEW e \in Ends, NEW p \in Ends, p = Peer(e),
         UNCHANGED <<initVars, seq, nseq, mutex, encBuf>>, conn'[p] = conn[p],
         ipc'[p] = ipc[p], msg'[p] = msg[p], misled' = misled \/ misled' = misled \cup {e},
         pending' \subseteq pending, open' => open,
         \A v \in Writers :
           \/ wpc'[v] = wpc[v]
           \/ v[1] # "call" /\ {wpc[v], wpc'[v]} \cap {"header", "body"} = {},
         \A c \in Calls : \/ wpc'[Handler(c)] = wpc[Handler(c)]
                          \/ from[c] = p /\ wpc[Caller(c)] = "done",
         wpc'[Reader(p)] = wpc[Reader(p)], ipc'[e] # "reject" => wpc'[Reader(e)] = "none",
         IsClient(e) => ipc'[e] \notin {"args", "reject"} /\ e \notin misled',
         ipc'[e] \in {"args", "reply"} => msg'[e] \in Headers,
         ipc'[e] = "reply" => msg'[e].method = "" /\ ~IsServer(e),
         Kept => Stream(e)', Len(conn'[e]) <= Cap + Cardinality(Calls),
         Shape', ReplyIsOwn', ArgsAreOwn'
  PROVE  PairInv'
<1>0. Peer(p) = e /\ p # e /\ \A d \in Ends : d = e \/ d = p
  BY EndsFacts
<1>1. \A c \in Calls : Caller(c) \in Writers /\ Caller(c)[1] = "call"
  BY WriterFacts
<1>2. \A c \in Calls : wpc'[Caller(c)] = wpc[Caller(c)]
  BY <1>1
<1>3. Kept
  BY <1>2 DEF Kept
<1>4. \A v : End(v)' = End(v) /\ IsClient(v)' = IsClient(v) /\ IsServer(v)' = IsServer(v)
  BY ConstFacts
<1>5. \A v \in Writers : /\ wpc'[v] = "body" <=> wpc[v] = "body"
                         /\ wpc'[v] \in {"header", "body"} <=> wpc[v] \in {"header", "body"}
  OBVIOUS
<1>6. ControlInv'
  <2>1. \A v \in Writers : wpc'[v] \in {"header", "body"} <=> mutex'[End(v)'] = v
    BY <1>4, <1>5 DEF PairInv, ControlInv
  <2>2. \A c \in Calls : wpc'[Handler(c)] # "none" => wpc'[Caller(c)] = "done"
    <3> SUFFICES ASSUME NEW c \in Calls, wpc'[Handler(c)] # "none" PROVE wpc'[Caller(c)] = "done"
      OBVIOUS
    <3>1. wpc[Handler(c)] # "none" => wpc[Caller(c)] = "done"
      BY DEF PairInv, ControlInv
    <3> QED
      BY <1>2, <3>1
  <2>3. ipc'[p] # "reject" => wpc'[Reader(p)] = "none"
    BY DEF PairInv, ControlInv
  <2>4. IsClient(p) => ipc'[p] \notin {"args", "reject"} /\ p \notin misled'
    BY <1>0 DEF PairInv, ControlInv
  <2>5. \A d \in Ends : /\ ipc'[d] # "reject" => wpc'[Reader(d)] = "none"
                        /\ IsClient(d)' => ipc'[d] \notin {"args", "reject"} /\ d \notin misled'
    BY <1>0, <1>4, <2>3, <2>4
  <2> QED
    BY <2>1, <2>2, <2>5 DEF ControlInv
<1>7. MsgInv'
  <2>1. /\ ipc'[p] \in {"args", "reply"} => msg'[p] \in Headers
        /\ ipc'[p] = "reply" => msg'[p].method = "" /\ ~IsServer(p)
    BY DEF PairInv, MsgInv, Expecting
  <2> QED
    BY <1>0, <1>4, <2>1 DEF MsgInv, Expecting
<1>8. Stream(p)'
  <2>1. Settled(p)
    BY <1>5 DEF Settled
  <2>2. NoStart(p)
    <3>1. \A c \in Calls : End(Caller(c)) = from[c]
      BY EndFacts DEF PairInv, Shape
    <3> QED
      BY <1>0, <3>1 DEF NoStart
  <2>3. open' \in BOOLEAN /\ (p \in misled' <=> p \in misled)
    BY <1>0 DEF Shape
  <2> QED
    BY <1>3, <2>1, <2>2, <2>3, StreamIdle
<1>9. StreamInv'
  BY <1>0, <1>3, <1>8 DEF StreamInv
<1>10. SeqInv'
  BY SeqKept
<1>11. ClientBuf' /\ ServerBuf'
  BY <1>3, <1>5, ClientBufKept, ServerBufKept
<1>12. LenInv'
  BY <1>0 DEF PairInv, LenInv
<1> QED
  BY <1>6, <1>7, <1>9, <1>10, <1>11, <1>12 DEF PairInv, BufInv

LEMMA IGotoFacts ==
  ASSUME PairInv, NEW e \in Ends, NEW l \in ReaderLabels, IGoto(e, l)
  PROVE  /\ ipc' \in [Ends -> ReaderLabels] /\ ipc'[e] = l
         /\ \A d \in Ends : d # e => ipc'[d] = ipc[d]
BY DEF PairInv, Shape, IGoto

LEMMA TakeFacts ==
  ASSUME PairInv, NEW e \in Ends, Take(e)
  PROVE  /\ conn[e] # <<>> /\ conn[e] \in Seq(Values) /\ conn'[e] = Tail(conn[e])
         /\ \A d \in Ends : d # e => conn'[d] = conn[d]
         /\ conn' \in [Ends -> Seq(Values)] /\ Next1(e) = Head(conn[e])
         /\ Len(conn'[e]) <= Cap + Cardinality(Calls)
<1>1. conn \in [Ends -> Seq(Values)] /\ conn[e] \in Seq(Values)
  BY DEF PairInv, Shape
<1>2. conn[e] # <<>> /\ conn' = [conn EXCEPT ![e] = Tail(conn[e])]
  BY DEF Take
<1>3. /\ Tail(conn[e]) \in Seq(Values) /\ Len(Tail(conn[e])) = Len(conn[e]) - 1
      /\ Len(conn[e]) \in Nat
  BY <1>1, <1>2
<1>4. Cap + Cardinality(Calls) \in Nat
  BY PairAssumption, FS_CardinalityType
<1>5. Len(Tail(conn[e])) <= Cap + Cardinality(Calls)
  BY <1>3, <1>4 DEF PairInv, LenInv
<1> QED
  BY <1>1, <1>2, <1>3, <1>5 DEF Next1

(* The stream, before and after the reader has taken a value.              *)
LEMMA TakeStr ==
  ASSUME PairInv, NEW e \in Ends, Take(e), UNCHANGED <<encBuf, open>>,
         Expecting(e)' => msg'[e] \in Headers
  PROVE  /\ Next1(e) \in Values
         /\ \E y \in Seq(Values) :
              /\ Str(e) = IF Expecting(e) THEN <<msg[e]>> \o (<<Next1(e)>> \o y)
                          ELSE <<Next1(e)>> \o y
              /\ Str(e)' = IF Expecting(e)' THEN <<msg'[e]>> \o y ELSE y
<1>1. PICK x \in Seq(Values), z \in Seq(Values) : x = conn[e] /\ z = Buf(e)
  BY StrType DEF PairInv
<1>2. x # <<>> /\ conn'[e] = Tail(x) /\ Next1(e) = Head(x)
  BY <1>1, TakeFacts
<1>3. Buf(e)' = z
  BY <1>1 DEF Buf
<1>4. PICK y \in Seq(Values) : y = Tail(x) \o z /\ x \o z = <<Head(x)>> \o y /\ Head(x) \in Values
  <2>1. Tail(x) \in Seq(Values) /\ Head(x) \in Values /\ x \o z = <<Head(x)>> \o (Tail(x) \o z)
    BY <1>2, JoinFirst
  <2>2. Tail(x) \o z \in Seq(Values)
    BY <2>1, Joined
  <2> QED
    BY <2>1, <2>2
<1>5. <<Head(x)>> \o y \in Seq(Values)
  BY <1>4, JoinOne
<1>6. Str(e) = Read1(e) \o (<<Next1(e)>> \o y) /\ Str(e)' = Read1(e)' \o y
  BY <1>1, <1>2, <1>3, <1>4 DEF Str
<1>7. ~Expecting(e) => Str(e) = <<Next1(e)>> \o y
  BY <1>2, <1>5, <1>6, Joined DEF Read1
<1>8. ~Expecting(e)' => Str(e)' = y
  BY <1>6, Joined DEF Read1
<1>9. /\ Expecting(e) => Str(e) = <<msg[e]>> \o (<<Next1(e)>> \o y)
      /\ Expecting(e)' => Str(e)' = <<msg'[e]>> \o y
  BY <1>6 DEF Read1
<1> QED
  BY <1>2, <1>4, <1>7, <1>8, <1>9

(* ... and after it has given up a header.                                 *)
LEMMA GiveUpStr ==
  ASSUME PairInv, NEW e \in Ends, conn'[e] = conn[e], UNCHANGED <<encBuf, open>>,
         Expecting(e), ~Expecting(e)'
  PROVE  \E y \in Seq(Values) : Str(e) = <<msg[e]>> \o y /\ Str(e)' = y
<1>1. PICK x \in Seq(Values), z \in Seq(Values) : x = conn[e] /\ z = Buf(e)
  BY StrType DEF PairInv
<1>2. PICK y \in Seq(Values) : y = x \o z
  BY Joined
<1>3. Buf(e)' = z
  BY <1>1 DEF Buf
<1>4. Str(e) = <<msg[e]>> \o y
  BY <1>1, <1>2 DEF Str, Read1
<1>5. Str(e)' = <<>> \o y
  BY <1>1, <1>2, <1>3 DEF Str, Read1
<1>6. Str(e)' = y
  BY <1>5, Joined
<1> QED
  BY <1>4, <1>6

LEMMA DropOne ==
  ASSUME Kept, NEW e \in Ends, Settled(e), NoStart(e), open' => open, Stream(e),
         NEW u \in Values, NEW t \in Seq(Values), Str(e) = <<u>> \o t, t = Str(e)',
         Mode(e)' = "any"
  PROVE  Stream(e)'
<1>1. PICK s \in Seq(Values) : s = <<u>> \o t
  BY JoinOne
<1>2. /\ s # <<>> /\ Tail(s) = t /\ Len(s) = Len(t) + 1 /\ Len(t) \in Nat
      /\ \A i \in DOMAIN t : t[i] = s[i + 1] /\ i + 1 \in DOMAIN s
  <2>1. s # <<>> /\ Tail(s) = t /\ Len(s) = Len(t) + 1 /\ Len(t) \in Nat
    BY <1>1, JoinOne
  <2>2. \A i \in DOMAIN t : t[i] = s[i + 1]
    BY <1>1, JoinOne
  <2>3. \A i \in DOMAIN t : i + 1 \in DOMAIN s
    BY <2>1
  <2> QED
    BY <2>1, <2>2, <2>3
<1>3. PICK m : m = Mode(e)
  OBVIOUS
<1>4. StrOK(s, e, m)
  BY <1>1, <1>3, StreamUse
<1>5. StrOK(t, e, "any")
  BY <1>2, <1>4, StrTail
<1>6. ASSUME NEW i \in DOMAIN t, KnownAt(t, i), wpc[Handler(t[i].call[2])] = "none"
      PROVE  wpc'[Handler(t[i].call[2])] = "none"
  <2>1. i + 1 \in DOMAIN s /\ t[i] = s[i + 1] /\ KnownAt(s, i + 1)
    BY <1>2, <1>6 DEF KnownAt
  <2>2. t[i].call[2] \in Calls /\ End(Caller(t[i].call[2])) = Peer(e)
    BY <1>4, <2>1, KnownCaller
  <2> QED
    BY <1>6, <2>2 DEF NoStart
<1>7. 1 \in Nat /\ 1 > 0
  OBVIOUS
<1> QED
  BY <1>1, <1>2, <1>5, <1>6, <1>7, StreamDrop

(* With the first header the handler of that request may start.            *)
LEMMA DropTwo ==
  ASSUME Kept, NEW e \in Ends, Settled(e), open' => open, Stream(e),
         NEW u \in Values, NEW v \in Values, NEW t \in Seq(Values),
         Str(e) = <<u>> \o (<<v>> \o t), t = Str(e)',
         \A c \in Calls : End(Caller(c)) = Peer(e) /\ wpc[Handler(c)] = "none" =>
           \/ wpc'[Handler(c)] = "none"
           \/ IsHeader(u) /\ u.method = "known" /\ u.call = Caller(c),
         \/ Mode(e)' = "any"
         \/ Mode(e) = "header" /\ Mode(e)' = "header" /\ ~IsHeader(v)
  PROVE  Stream(e)'
<1>1. PICK r \in Seq(Values) : r = <<v>> \o t
  BY JoinOne
<1>2. PICK s \in Seq(Values) : s = <<u>> \o r
  BY JoinOne
<1>3. r # <<>> /\ Tail(r) = t /\ Len(r) = Len(t) + 1 /\ r[1] = v /\ Len(t) \in Nat
  BY <1>1, JoinOne
<1>4. s # <<>> /\ Tail(s) = r /\ Len(s) = Len(r) + 1 /\ s[1] = u
  BY <1>2, JoinOne
<1>5. Len(s) = Len(t) + 2 /\ DOMAIN s = 1 .. Len(s) /\ DOMAIN t = 1 .. Len(t) /\ 1 \in DOMAIN s
      /\ 2 \in DOMAIN s
  BY <1>3, <1>4
<1>6. s[2] = v
  <2>1. 1 \in DOMAIN r /\ 1 + 1 = 2
    BY <1>3
  <2>2. s[1 + 1] = r[1]
    BY <1>2, <2>1, JoinOne
  <2> QED
    BY <1>3, <2>1, <2>2
<1>7. ASSUME NEW i \in DOMAIN t PROVE i + 2 \in DOMAIN s /\ t[i] = s[i + 2]
  <2>1. i \in Nat /\ r[i + 1] = t[i] /\ i + 1 \in DOMAIN r /\ i + 2 \in DOMAIN s
    BY <1>1, <1>3, <1>5, JoinOne
  <2>2. s[(i + 1) + 1] = r[i + 1]
    BY <1>2, <2>1, JoinOne
  <2>3. (i + 1) + 1 = i + 2
    BY <2>1
  <2> QED
    BY <2>1, <2>2, <2>3
<1>8. PICK m, n : m = Mode(e) /\ n = Mode(e)'
  OBVIOUS
<1>9. StrOK(s, e, m) /\ KnownOK(s) /\ Str(e) = s
  BY <1>1, <1>2, <1>8, StreamUse
<1>10. StrOK(t, e, n)
  <2>1. CASE n = "any"
    <3>1. StrOK(r, e, "any")
      BY <1>4, <1>9, StrTail
    <3>2. StrOK(t, e, "any")
      BY <1>3, <3>1, StrTail
    <3> QED
      BY <2>1, <3>2
  <2>2. CASE m = "header" /\ n = "header" /\ ~IsHeader(v)
    <3>1. StrOK(Tail(Tail(s)), e, "header")
      BY <1>3, <1>4, <1>6, <1>9, <2>2, StrClient
    <3> QED
      BY <1>3, <1>4, <2>2, <3>1
  <2> QED
    BY <1>8, <2>1, <2>2
<1>11. ASSUME NEW i \in DOMAIN t, KnownAt(t, i), wpc[Handler(t[i].call[2])] = "none"
       PROVE  wpc'[Handler(t[i].call[2])] = "none"
  <2>1. i + 2 \in DOMAIN s /\ t[i] = s[i + 2] /\ KnownAt(s, i + 2)
    BY <1>7, <1>11 DEF KnownAt
  <2>2. /\ t[i].call[2] \in Calls /\ End(Caller(t[i].call[2])) = Peer(e)
        /\ t[i].call = Caller(t[i].call[2])
    BY <1>9, <2>1, KnownCaller
  <2>3. ~(IsHeader(u) /\ u.method = "known" /\ u.call = t[i].call)
    <3> SUFFICES ASSUME IsHeader(u), u.method = "known", u.call = t[i].call PROVE FALSE
      OBVIOUS
    <3>1. KnownAt(s, 1) /\ s[1].call = s[i + 2].call
      BY <1>4, <2>1 DEF KnownAt
    <3>2. 1 = i + 2
      BY <1>5, <1>9, <2>1, <3>1 DEF KnownOK
    <3> QED
      BY <1>5, <3>2
  <2> QED
    BY <1>11, <2>2, <2>3
<1>12. n = "any" \/ (t = <<>> => ~IsHeader(s[Len(s)]))
  <2>1. t = <<>> => Len(s) = 2
    BY <1>5
  <2> QED
    BY <1>6, <1>8, <2>1
<1>13. 2 \in Nat /\ 2 > 0
  OBVIOUS
<1> QED
  BY <1>5, <1>7, <1>8, <1>9, <1>10, <1>11, <1>12, <1>13, StreamDrop

(* What may come first after the reader has moved.                         *)
LEMMA ModeFacts ==
  ASSUME UNCHANGED initVars, NEW e \in Ends
  PROVE  /\ ipc'[e] \in {"final", "wait", "stopped", "reject"} => Mode(e)' = "any"
         /\ ipc'[e] = "header" => Mode(e)' = IF IsClient(e) THEN "header" ELSE "any"
         /\ ipc'[e] \in {"args", "reply"} =>
              Mode(e)' = IF e \in misled' THEN "fake"
                         ELSE IF IsClient(e) /\ ipc'[e] = "reply" THEN "header" ELSE "any"
         /\ Expecting(e)' <=> ipc'[e] \in {"args", "reply"}
<1>1. IsClient(e)' = IsClient(e)
  BY ConstFacts
<1> QED
  BY <1>1 DEF Mode, Expecting

(* The reader moves on without taking anything.                            *)
LEMMA QuietStream ==
  ASSUME PairInv, Kept, NEW e \in Ends, NoStart(e), Settled(e), ~Expecting(e), ~Expecting(e)',
         ipc'[e] = "header" => ~IsClient(e), ipc'[e] \in ReaderLabels, conn'[e] = conn[e],
         encBuf' = encBuf, open' \in BOOLEAN, open' => open
  PROVE  Stream(e)'
<1>1. Read1(e)' = Read1(e) /\ UNCHANGED initVars
  BY DEF Read1, Kept
<1>2. Shape /\ MsgInv /\ Stream(e) /\ open \in BOOLEAN
  BY DEF PairInv, StreamInv, Shape
<1>3. /\ Prefix(Str(e)', Str(e)) /\ (open' => Str(e)' = Str(e)) /\ Str(e)' \in Seq(Values)
      /\ Str(e) \in Seq(Values)
  BY <1>1, <1>2, StrSame, StrType
<1>4. PICK s \in Seq(Values), t \in Seq(Values) : s = Str(e) /\ t = Str(e)'
  BY <1>3
<1>5. Mode(e)' = "any" /\ Mode(e) \in {"any", "header"}
  <2>1. ipc'[e] \in {"header", "final", "wait", "stopped", "reject"}
    BY DEF Expecting, ReaderLabels
  <2>2. Mode(e)' = "any"
    BY <1>1, <2>1, ModeFacts
  <2> QED
    BY <2>2 DEF Mode
<1> QED
  BY <1>2, <1>3, <1>4, <1>5, StreamQuiet

(* Writers go on while a reader reads.                                     *)
LEMMA SameWriters ==
  ASSUME PairInv, UNCHANGED <<initVars, seq, wpc>>
  PROVE  Kept /\ \A e \in Ends : NoStart(e) /\ Settled(e)
BY DEF Kept, NoStart, Settled

(* The reader moves, and no writer does.                                   *)
LEMMA AloneReader ==
  ASSUME PairInv, NEW e \in Ends, NEW l \in ReaderLabels \ {"reject"}, IGoto(e, l), ipc[e] # "reject",
         UNCHANGED <<initVars, seq, nseq, args, outVars>>,
         conn' = conn \/ Take(e), pending' \subseteq pending,
         res' \in [Calls -> {Nothing, Error} \cup Writers], shutdown' \subseteq Ends,
         misled' = misled \/ misled' = misled \cup {e},
         IsClient(e) => l # "args" /\ e \notin misled',
         msg' \in [Ends -> Headers \cup {NoMsg}], \A d \in Ends : d # e => msg'[d] = msg[d],
         l \in {"args", "reply"} => msg'[e] \in Headers,
         l = "reply" => msg'[e].method = "" /\ ~IsServer(e),
         UNCHANGED open \/ Close,
         Stream(e)', ReplyIsOwn'
  PROVE  PairInv'
<1>0. PICK p \in Ends : p = Peer(e) /\ p # e
  <2>1. Peer(e) \in Ends /\ Peer(e) # e
    BY EndsFacts
  <2> QED
    BY <2>1
<1>1. /\ ipc' \in [Ends -> ReaderLabels] /\ ipc'[e] = l
      /\ \A d \in Ends : d # e => ipc'[d] = ipc[d]
  BY IGotoFacts
<1>2. open' \in BOOLEAN /\ (open' => open)
  BY CloseFacts
<1>3. /\ conn' \in [Ends -> Seq(Values)] /\ conn'[p] = conn[p]
      /\ Len(conn'[e]) <= Cap + Cardinality(Calls)
  BY <1>0, TakeFacts DEF PairInv, Shape, LenInv
<1>4. misled' \subseteq Ends
  BY DEF PairInv, Shape
<1>5. Shape'
  BY <1>1, <1>2, <1>3, <1>4 DEF PairInv, Shape, Buffered, initVars, outVars
<1>6. ArgsAreOwn'
  BY ArgsKept
<1>7. wpc'[Reader(e)] = "none"
  BY DEF PairInv, ControlInv, outVars
<1>8. wpc' = wpc /\ mutex' = mutex /\ encBuf' = encBuf
  BY DEF outVars
<1>9. ipc'[p] = ipc[p] /\ msg'[p] = msg[p]
  BY <1>0, <1>1
<1>10. ipc'[e] # "reject"
  BY <1>1
<1> QED
  BY <1>0, <1>1, <1>2, <1>3, <1>5, <1>6, <1>7, <1>8, <1>9, <1>10, ReaderStep

(* ... without a header in hand, and nobody is misled.                     *)
LEMMA QuietReader ==
  ASSUME PairInv, NEW e \in Ends, NEW l \in {"header", "final", "wait", "stopped"}, IGoto(e, l),
         UNCHANGED <<initVars, seq, nseq, args, outVars, msg, misled>>,
         conn' = conn \/ Take(e), ipc[e] # "reject",
         pending' \subseteq pending, res' \in [Calls -> {Nothing, Error} \cup Writers],
         shutdown' \subseteq Ends, ReplyIsOwn',
         UNCHANGED open \/ Close, Stream(e)'
  PROVE  PairInv'
<1>1. l \in ReaderLabels \ {"reject"} /\ l \notin {"args", "reply"}
  BY DEF ReaderLabels
<1>2. /\ IsClient(e) => e \notin misled'
      /\ msg' \in [Ends -> Headers \cup {NoMsg}] /\ \A d \in Ends : d # e => msg'[d] = msg[d]
  BY DEF PairInv, ControlInv, Shape
<1> QED
  BY <1>1, <1>2, AloneReader

(* What is next for a reader that wants a header: a Client finds one, with *)
(* no method.                                                              *)
LEMMA FirstFacts ==
  ASSUME PairInv, NEW e \in Ends, ipc[e] = "header", NEW v \in Values, NEW y \in Seq(Values),
         Str(e) = <<v>> \o y
  PROVE  /\ Mode(e) = IF IsClient(e) THEN "header" ELSE "any"
         /\ IsClient(e) => IsHeader(v)
         /\ IsHeader(v) => GoodHeader(v, e)
         /\ IsClient(e) => v.method = ""
<1>1. PICK m : m = Mode(e) /\ m = IF IsClient(e) THEN "header" ELSE "any"
  BY DEF Mode, Expecting
<1>2. PICK s \in Seq(Values) : s = <<v>> \o y
  BY JoinOne
<1>3. s # <<>> /\ s[1] = v /\ 1 \in DOMAIN s
  BY <1>2, JoinOne
<1>4. StrOK(s, e, m)
  BY <1>1, <1>2, StreamUse DEF PairInv, StreamInv
<1>5. PlaceOK(s, e, m, 1) /\ ~Fake(s, m)
  BY <1>1, <1>3, <1>4, FakeFacts DEF StrOK
<1>6. (IsClient(e) => IsHeader(v)) /\ (IsHeader(v) => GoodHeader(v, e))
  BY <1>1, <1>3, <1>5 DEF PlaceOK
<1>7. ASSUME IsClient(e) PROVE v.method = ""
  <2>1. PICK h \in Headers : h = v /\ GoodHeader(h, e)
    BY <1>6, <1>7, ValueFacts
  <2>2. Buffered /\ e = "a"
    BY <1>7 DEF IsClient
  <2>3. h.call[1] # "call"
    <3> SUFFICES ASSUME h.call[1] = "call" PROVE FALSE
      OBVIOUS
    <3>1. h.call \in Writers
      BY HeaderType
    <3>2. h.call[2] \in Calls /\ h.call = Caller(h.call[2])
      BY <3>1, WriterFacts
    <3>3. from \in [Calls -> Ends] /\ from[h.call[2]] = "a"
      BY <2>2, <3>2 DEF PairInv, Shape
    <3>4. End(h.call) = "a"
      BY <3>2, <3>3, EndFacts
    <3> QED
      BY <2>1, <2>2, <3>4, EndsFacts DEF GoodHeader
  <2> QED
    BY <2>1, <2>3 DEF GoodHeader
<1> QED
  BY <1>1, <1>6, <1>7

(* A header is read.                                                       *)
LEMMA HeaderReadStep ==
  ASSUME PairInv, NEW e \in Ends, ipc[e] = "header", Take(e), IsHeader(Next1(e)),
         UNCHANGED <<initVars, callVars, outVars, open, shutdown, misled>>,
         msg' = [msg EXCEPT ![e] = Next1(e)],
         IGoto(e, IF IsRequest(e, Next1(e)) THEN "args" ELSE "reply")
  PROVE  PairInv'
<1>1. PICK l \in {"args", "reply"} : /\ IGoto(e, l)
                                     /\ l = "args" <=> Next1(e).method # "" \/ IsServer(e)
  BY DEF IsRequest
<1>2. l \in ReaderLabels \ {"reject"}
  BY DEF ReaderLabels
<1>3. ipc'[e] = l
  BY <1>1, <1>2, IGotoFacts
<1>4. Next1(e) \in Headers
  <2>1. conn[e] # <<>> /\ conn[e] \in Seq(Values) /\ Next1(e) = Head(conn[e])
    BY TakeFacts
  <2>2. Next1(e) \in Values
    BY <2>1
  <2> QED
    BY <2>2, ValueFacts
<1>5. msg' \in [Ends -> Headers \cup {NoMsg}] /\ msg'[e] = Next1(e)
      /\ \A d \in Ends : d # e => msg'[d] = msg[d]
  BY <1>4 DEF PairInv, Shape
<1>6. ~Expecting(e) /\ Expecting(e)'
  BY <1>3 DEF Expecting
<1>7. PICK v \in Values, y \in Seq(Values) : v = Next1(e) /\ Str(e) = <<v>> \o y /\ Str(e)' = <<v>> \o y
  BY <1>4, <1>5, <1>6, TakeStr DEF outVars
<1>8. /\ Mode(e) = IF IsClient(e) THEN "header" ELSE "any"
      /\ IsClient(e) => v.method = ""
  BY <1>7, FirstFacts
<1>9. IsClient(e) => l = "reply" /\ e \notin misled' /\ ~IsServer(e)
  BY <1>1, <1>7, <1>8 DEF PairInv, ControlInv, IsClient, IsServer
<1>10. Stream(e)'
  <2>1. PICK s \in Seq(Values) : s = Str(e) /\ s = Str(e)' /\ s # <<>> /\ s[1] = v
    BY <1>7, JoinOne
  <2>2. Mode(e)' = IF e \in misled' THEN "fake" ELSE IF IsClient(e) /\ l = "reply" THEN "header" ELSE "any"
    BY <1>3, ModeFacts
  <2>3. \/ Mode(e)' = Mode(e)
        \/ Mode(e) = "any" /\ Mode(e)' = "fake" /\ s # <<>> /\ IsHeader(s[1])
    BY <1>7, <1>8, <1>9, <2>1, <2>2
  <2>4. Prefix(s, s)
    BY DEF Prefix
  <2>5. Kept /\ NoStart(e) /\ Settled(e) /\ Stream(e)
    BY SameWriters DEF callVars, outVars, PairInv, StreamInv
  <2> QED
    BY <2>1, <2>3, <2>4, <2>5, StreamQuiet
<1>11. /\ res' \in [Calls -> {Nothing, Error} \cup Writers] /\ shutdown' \subseteq Ends
       /\ ReplyIsOwn'
  BY ResKept DEF PairInv, Shape, callVars
<1>12. l = "reply" => msg'[e].method = "" /\ ~IsServer(e)
  BY <1>1, <1>5
<1> QED
  BY <1>1, <1>2, <1>4, <1>5, <1>9, <1>10, <1>11, <1>12, AloneReader DEF callVars

(* A body is read as a header.                                             *)
LEMMA MisledStep ==
  ASSUME PairInv, NEW e \in Ends, ipc[e] = "header", Take(e), ~IsHeader(Next1(e)),
         UNCHANGED <<initVars, callVars, outVars, open, shutdown>>,
         NEW h \in Headers, Blank(h), msg' = [msg EXCEPT ![e] = h], misled' = misled \cup {e},
         IGoto(e, IF IsRequest(e, h) THEN "args" ELSE "reply")
  PROVE  PairInv'
<1>1. PICK l \in {"args", "reply"} : IGoto(e, l) /\ (l = "args" <=> IsServer(e))
  BY DEF IsRequest, Blank
<1>2. l \in ReaderLabels \ {"reject"}
  BY DEF ReaderLabels
<1>3. ipc'[e] = l
  BY <1>1, <1>2, IGotoFacts
<1>4. l = "reply" => h.method = "" /\ ~IsServer(e)
  BY <1>1 DEF Blank
<1>5. msg' \in [Ends -> Headers \cup {NoMsg}] /\ msg'[e] = h
      /\ \A d \in Ends : d # e => msg'[d] = msg[d]
  BY DEF PairInv, Shape
<1>6. ~Expecting(e) /\ Expecting(e)'
  BY <1>3 DEF Expecting
<1>7. PICK v \in Values, y \in Seq(Values) : v = Next1(e) /\ Str(e) = <<v>> \o y /\ Str(e)' = <<h>> \o y
  BY <1>5, <1>6, TakeStr DEF outVars
<1>8. ~IsClient(e)
  BY <1>7, FirstFacts
<1>9. Stream(e)'
  <2>1. PICK s \in Seq(Values) : s = Str(e) /\ s = <<v>> \o y
    BY <1>7, JoinOne
  <2>2. h \in Values /\ IsHeader(h) /\ Blank(h)
    BY HeaderType
  <2>3. PICK t \in Seq(Values) : t = Str(e)' /\ t = <<h>> \o y
    BY <1>7, <2>2, JoinOne
  <2>4. s # <<>> /\ s[1] = v /\ Len(s) = Len(y) + 1 /\ t[1] = h /\ Len(t) = Len(y) + 1
    BY <2>1, <2>2, <2>3, JoinOne
  <2>5. ASSUME NEW i \in 2 .. Len(s) PROVE t[i] = s[i]
    <3>1. i - 1 \in DOMAIN y /\ (i - 1) + 1 = i
      BY <2>4
    <3>2. s[(i - 1) + 1] = y[i - 1] /\ t[(i - 1) + 1] = y[i - 1]
      BY <2>1, <2>2, <2>3, <3>1, JoinOne
    <3> QED
      BY <3>1, <3>2
  <2>6. Mode(e)' = "fake"
    BY <1>3, ModeFacts
  <2>7. Kept /\ Stream(e) /\ wpc' = wpc
    BY SameWriters DEF callVars, outVars, PairInv, StreamInv
  <2>8. Blank(t[1]) /\ IsHeader(t[1]) /\ ~IsHeader(s[1]) /\ Len(t) = Len(s)
    BY <1>7, <2>2, <2>4
  <2> QED
    BY <2>1, <2>3, <2>4, <2>5, <2>6, <2>7, <2>8, StreamMisled
<1>10. /\ res' \in [Calls -> {Nothing, Error} \cup Writers] /\ shutdown' \subseteq Ends
       /\ ReplyIsOwn'
  BY ResKept DEF PairInv, Shape, callVars
<1> QED
  BY <1>1, <1>2, <1>4, <1>5, <1>8, <1>9, <1>10, AloneReader DEF callVars

(* What a body is taken for.                                               *)
LEMMA AsHeaderFacts ==
  ASSUME PairInv, NEW v \in Values, NEW h \in AsHeader(v)
  PROVE  IF IsHeader(v) THEN h = v ELSE h \in Headers /\ Blank(h)
<1>1. CASE IsHeader(v)
  BY <1>1 DEF AsHeader
<1>2. CASE ~IsHeader(v)
  <2>1. v.body \in Writers
    BY <1>2, ValueFacts
  <2>2. PICK n \in Seqs(v.body) : h = [call |-> v.body, seq |-> n, method |-> "", error |-> FALSE]
    BY <1>2 DEF AsHeader
  <2>3. n \in Nat
    BY DEF Seqs, PairInv, Shape
  <2>4. h \in Headers
    BY <2>1, <2>2, <2>3 DEF Headers
  <2> QED
    BY <1>2, <2>2, <2>4 DEF Blank
<1> QED
  BY <1>1, <1>2

LEMMA ReadHeaderStep ==
  ASSUME PairInv, NEW e \in Ends, ReadHeader(e)
  PROVE  PairInv'
<1>1. /\ ipc[e] = "header" /\ Take(e)
      /\ UNCHANGED <<initVars, callVars, outVars, open, shutdown>>
  BY DEF ReadHeader
<1>2. Next1(e) \in Values
  <2>1. conn[e] # <<>> /\ conn[e] \in Seq(Values) /\ Next1(e) = Head(conn[e])
    BY <1>1, TakeFacts
  <2> QED
    BY <2>1
<1>3. CASE IGoto(e, "final") /\ UNCHANGED <<msg, misled>>
  <2>1. ipc'[e] = "final"
    BY <1>3, IGotoFacts DEF ReaderLabels
  <2>2. ~Expecting(e) /\ ~Expecting(e)' /\ Mode(e)' = "any"
    BY <1>1, <2>1, ModeFacts DEF Expecting
  <2>3. PICK v \in Values, y \in Seq(Values) : Str(e) = <<v>> \o y /\ Str(e)' = y
    BY <1>1, <2>2, TakeStr DEF outVars
  <2>4. Kept /\ NoStart(e) /\ Settled(e) /\ Stream(e)
    BY <1>1, SameWriters DEF callVars, outVars, PairInv, StreamInv
  <2>5. Stream(e)'
    BY <1>1, <2>2, <2>3, <2>4, DropOne
  <2>6. /\ res' \in [Calls -> {Nothing, Error} \cup Writers] /\ shutdown' \subseteq Ends
        /\ ReplyIsOwn'
    BY <1>1, <1>3, ResKept DEF PairInv, Shape, callVars
  <2> QED
    BY <1>1, <1>3, <2>5, <2>6, QuietReader DEF callVars
<1>4. CASE \E h \in AsHeader(Next1(e)) :
             /\ msg' = [msg EXCEPT ![e] = h]
             /\ IGoto(e, IF IsRequest(e, h) THEN "args" ELSE "reply")
             /\ misled' = IF IsHeader(Next1(e)) THEN misled ELSE misled \cup {e}
  <2>1. PICK h \in AsHeader(Next1(e)) :
             /\ msg' = [msg EXCEPT ![e] = h]
             /\ IGoto(e, IF IsRequest(e, h) THEN "args" ELSE "reply")
             /\ misled' = IF IsHeader(Next1(e)) THEN misled ELSE misled \cup {e}
    BY <1>4
  <2>2. IF IsHeader(Next1(e)) THEN h = Next1(e) ELSE h \in Headers /\ Blank(h)
    BY <1>2, AsHeaderFacts
  <2>3. CASE IsHeader(Next1(e))
    BY <1>1, <2>1, <2>2, <2>3, HeaderReadStep
  <2>4. CASE ~IsHeader(Next1(e))
    BY <1>1, <2>1, <2>2, <2>4, MisledStep
  <2> QED
    BY <2>3, <2>4
<1> QED
  BY <1>3, <1>4 DEF ReadHeader

LEMMA ReadFailsStep ==
  ASSUME PairInv, NEW e \in Ends, ReadFails(e)
  PROVE  PairInv'
<1>1. /\ ipc[e] = "header" /\ IGoto(e, "final")
      /\ UNCHANGED <<initVars, callVars, outVars, connVars, msg, misled, shutdown>>
  BY DEF ReadFails
<1>2. /\ res' \in [Calls -> {Nothing, Error} \cup Writers] /\ shutdown' \subseteq Ends
      /\ ReplyIsOwn' /\ open' \in BOOLEAN
  BY <1>1, ResKept DEF PairInv, Shape, callVars, connVars
<1>3. ipc'[e] = "final" /\ ipc'[e] \in ReaderLabels
  BY <1>1, IGotoFacts DEF ReaderLabels
<1>4. Stream(e)'
  BY <1>1, <1>2, <1>3, SameWriters, QuietStream DEF callVars, outVars, connVars, Expecting
<1> QED
  BY <1>1, <1>2, <1>4, QuietReader DEF callVars, connVars

LEMMA TerminateStep ==
  ASSUME PairInv, NEW e \in Ends, Terminate(e)
  PROVE  PairInv'
<1> DEFINE mine == {c \in pending : from[c] = e}
<1>1. /\ ipc[e] = "final" /\ IGoto(e, "wait") /\ shutdown' = shutdown \cup {e}
      /\ res' = [c \in Calls |-> IF c \in mine THEN Error ELSE res[c]]
      /\ pending' = pending \ mine
      /\ UNCHANGED <<initVars, seq, nseq, args, outVars, connVars, msg, misled>>
  BY DEF Terminate
<1> HIDE DEF mine
<1>2. \A c \in Calls : res'[c] = res[c] \/ res'[c] = Error
  BY <1>1
<1>3. res' \in [Calls -> {Nothing, Error} \cup Writers]
  BY <1>1 DEF PairInv, Shape
<1>4. ReplyIsOwn' /\ shutdown' \subseteq Ends /\ open' \in BOOLEAN
  BY <1>1, <1>2, ResKept DEF PairInv, Shape, connVars
<1>5. ipc'[e] = "wait" /\ ipc'[e] \in ReaderLabels
  BY <1>1, IGotoFacts DEF ReaderLabels
<1>6. Stream(e)'
  BY <1>1, <1>4, <1>5, SameWriters, QuietStream DEF outVars, connVars, Expecting
<1> QED
  BY <1>1, <1>3, <1>4, <1>6, QuietReader DEF connVars

LEMMA StopStep ==
  ASSUME PairInv, NEW e \in Ends, Stop(e)
  PROVE  PairInv'
<1>1. /\ ipc[e] = "wait" /\ IGoto(e, "stopped")
      /\ UNCHANGED open \/ Close
      /\ UNCHANGED <<initVars, callVars, outVars, conn, msg, misled, shutdown>>
  BY DEF Stop
<1>2. /\ res' \in [Calls -> {Nothing, Error} \cup Writers] /\ shutdown' \subseteq Ends
      /\ ReplyIsOwn'
  BY <1>1, ResKept DEF PairInv, Shape, callVars
<1>3. ipc'[e] = "stopped" /\ ipc'[e] \in ReaderLabels
  BY <1>1, IGotoFacts DEF ReaderLabels
<1>4. open' \in BOOLEAN /\ (open' => open)
  BY <1>1, CloseFacts
<1>5. Stream(e)'
  BY <1>1, <1>3, <1>4, SameWriters, QuietStream DEF callVars, outVars, Expecting
<1> QED
  BY <1>1, <1>2, <1>5, QuietReader DEF callVars

(* A header that has been read, and what comes after it.                   *)
LEMMA SecondFacts ==
  ASSUME PairInv, NEW e \in Ends, Expecting(e), NEW u \in Headers, NEW v \in Values,
         NEW y \in Seq(Values), Str(e) = <<u>> \o (<<v>> \o y)
  PROVE  /\ GoodHeader(u, e) \/ (Blank(u) /\ e \in misled)
         /\ IsHeader(v) => Alone(u) \/ (Blank(u) /\ e \in misled)
         /\ ~IsHeader(v) => GoodBody(v.body, e) /\ GoodHeader(u, e) /\ u.call = v.body
         /\ u.method = "known" => /\ u.call[2] \in Calls /\ u.call = Caller(u.call[2])
                                  /\ wpc[Handler(u.call[2])] = "none"
                                  /\ End(Caller(u.call[2])) = Peer(e)
<1>0. u \in Values /\ IsHeader(u)
  BY HeaderType
<1>1. PICK m : m = Mode(e)
  OBVIOUS
<1>2. PICK r \in Seq(Values) : r = <<v>> \o y
  BY JoinOne
<1>3. r[1] = v /\ 1 \in DOMAIN r
  BY <1>2, JoinOne
<1>4. PICK s \in Seq(Values) : s = <<u>> \o r
  BY <1>0, JoinOne
<1>5. s[1] = u /\ Len(s) = Len(r) + 1 /\ s[1 + 1] = r[1]
  BY <1>0, <1>3, <1>4, JoinOne
<1>6. s[2] = v /\ 1 \in DOMAIN s /\ 2 \in DOMAIN s
  BY <1>3, <1>5
<1>7. StrOK(s, e, m) /\ KnownOK(s)
  BY <1>1, <1>2, <1>4, StreamUse DEF PairInv, StreamInv
<1>8. Fake(s, m) => Blank(u) /\ e \in misled
  BY <1>1, <1>5 DEF Fake, Blank, Mode
<1>9. PlaceOK(s, e, m, 1) /\ PlaceOK(s, e, m, 2) /\ 2 - 1 = 1 /\ 2 # 1
  BY <1>6, <1>7 DEF StrOK
<1>10. GoodHeader(u, e) \/ Fake(s, m)
  BY <1>0, <1>5, <1>9 DEF PlaceOK
<1>11. IsHeader(v) => Alone(u) \/ Fake(s, m)
  BY <1>0, <1>5, <1>6, <1>9 DEF PlaceOK
<1>12. ~IsHeader(v) => GoodBody(v.body, e) /\ GoodHeader(u, e) /\ u.call = v.body
  BY <1>5, <1>6, <1>9 DEF PlaceOK
<1>13. ASSUME u.method = "known"
       PROVE  /\ u.call[2] \in Calls /\ u.call = Caller(u.call[2])
              /\ wpc[Handler(u.call[2])] = "none" /\ End(Caller(u.call[2])) = Peer(e)
  <2>1. KnownAt(s, 1)
    BY <1>0, <1>5, <1>13 DEF KnownAt
  <2>2. wpc[Handler(s[1].call[2])] = "none"
    BY <1>6, <1>7, <2>1 DEF KnownOK
  <2>3. /\ s[1].call[2] \in Calls /\ s[1].call = Caller(s[1].call[2])
        /\ End(Caller(s[1].call[2])) = Peer(e)
    BY <1>6, <1>7, <2>1, KnownCaller
  <2> QED
    BY <1>5, <2>2, <2>3
<1> QED
  BY <1>8, <1>10, <1>11, <1>12, <1>13

(* The reader has taken the body, or what was in its place, and starts no  *)
(* handler.                                                                *)
LEMMA DropBoth ==
  ASSUME PairInv, Kept, NEW e \in Ends, NoStart(e), Settled(e), UNCHANGED <<encBuf, open>>, Take(e),
         Expecting(e), ~Expecting(e)', msg[e] \in Headers, Mode(e)' = "any"
  PROVE  Stream(e)'
<1>1. PICK u \in Values : u = msg[e]
  BY HeaderType
<1>2. PICK v \in Values, y \in Seq(Values) : Str(e) = <<u>> \o (<<v>> \o y) /\ Str(e)' = y
  BY <1>1, TakeStr
<1>3. \A c \in Calls : End(Caller(c)) = Peer(e) /\ wpc[Handler(c)] = "none" => wpc'[Handler(c)] = "none"
  BY DEF NoStart
<1>4. Stream(e) /\ (open' => open)
  BY DEF PairInv, StreamInv
<1> QED
  BY <1>2, <1>3, <1>4, DropTwo

(* The reader is about to send an error, or has sent it.                   *)
LEMMA RejectStep ==
  ASSUME PairInv, NEW e \in Ends, ipc[e] = "args", Reject(e),
         Take(e) \/ conn' = conn,
         UNCHANGED <<initVars, callVars, mutex, encBuf, open, msg, misled, shutdown>>
  PROVE  PairInv'
<1>0. PICK p \in Ends : p = Peer(e) /\ p # e
  <2>1. Peer(e) \in Ends /\ Peer(e) # e
    BY EndsFacts
  <2> QED
    BY <2>1
<1>1. /\ ipc' \in [Ends -> ReaderLabels] /\ ipc'[e] = "reject"
      /\ \A d \in Ends : d # e => ipc'[d] = ipc[d]
  BY IGotoFacts DEF Reject, ReaderLabels
<1>2. PICK w \in Writers : w = Reader(e) /\ w[1] = "input"
  BY WriterFacts
<1>3. Moves(w, "lock") /\ wpc' \in [Writers -> Labels] /\ wpc[w] = "none"
  BY <1>2, GotoFacts DEF Reject, Labels, PairInv, ControlInv
<1>4. /\ \A c \in Calls : /\ Caller(c) \in Writers /\ Caller(c) # w
                          /\ Handler(c) \in Writers /\ Handler(c) # w
      /\ Reader(p) \in Writers /\ Reader(p) # w
  BY <1>0, <1>2, WriterFacts
<1>5. /\ \A c \in Calls : wpc'[Caller(c)] = wpc[Caller(c)] /\ wpc'[Handler(c)] = wpc[Handler(c)]
      /\ wpc'[Reader(p)] = wpc[Reader(p)]
  BY <1>3, <1>4 DEF Moves
<1>6. \A v \in Writers : \/ wpc'[v] = wpc[v]
                         \/ v[1] # "call" /\ {wpc[v], wpc'[v]} \cap {"header", "body"} = {}
  BY <1>2, <1>3 DEF Moves
<1>7. NoStart(e) /\ Settled(e)
  <2>1. NoStart(e)
    BY <1>5 DEF NoStart
  <2>2. Settled(e)
    BY <1>2, <1>3 DEF Settled, Moves
  <2> QED
    BY <2>1, <2>2
<1>8. Mode(e)' = "any" /\ Expecting(e) /\ ~Expecting(e)' /\ msg[e] \in Headers /\ msg[e] \in Values
      /\ ~IsClient(e)
  <2>1. Mode(e)' = "any" /\ Expecting(e) /\ ~Expecting(e)'
    BY <1>1, ModeFacts DEF Expecting
  <2> QED
    BY <2>1, HeaderType DEF PairInv, MsgInv, ControlInv
<1>9. ASSUME Kept PROVE Stream(e)'
  <2>0. Stream(e) /\ open' = open
    BY DEF PairInv, StreamInv
  <2>1. CASE Take(e)
    BY <1>7, <1>8, <1>9, <2>1, DropBoth
  <2>2. CASE conn' = conn
    <3>1. PICK y \in Seq(Values) : Str(e) = <<msg[e]>> \o y /\ Str(e)' = y
      BY <1>8, <2>2, GiveUpStr
    <3> QED
      BY <1>7, <1>8, <1>9, <2>0, <3>1, DropOne
  <2> QED
    BY <2>1, <2>2
<1>10. /\ conn' \in [Ends -> Seq(Values)] /\ conn'[p] = conn[p]
       /\ Len(conn'[e]) <= Cap + Cardinality(Calls)
  BY <1>0, TakeFacts DEF PairInv, Shape, LenInv
<1>11. Shape'
  BY <1>1, <1>3, <1>10 DEF PairInv, Shape, Buffered, initVars, callVars
<1>12. ReplyIsOwn' /\ ArgsAreOwn'
  BY ResKept, ArgsKept DEF callVars
<1>13. ipc'[p] = ipc[p] /\ msg'[p] = msg[p] /\ ipc'[e] = "reject"
  BY <1>0, <1>1
<1> QED
  BY <1>0, <1>5, <1>6, <1>8, <1>9, <1>10, <1>11, <1>12, <1>13, ReaderStep DEF callVars

LEMMA RejectedStep ==
  ASSUME PairInv, NEW e \in Ends, Rejected(e)
  PROVE  PairInv'
<1>0. /\ ipc[e] = "reject" /\ wpc[Reader(e)] = "done" /\ IGoto(e, "header")
      /\ Goto(Reader(e), "none")
      /\ UNCHANGED <<initVars, callVars, mutex, encBuf, connVars, msg, misled, shutdown>>
  BY DEF Rejected
<1>1. PICK p \in Ends : p = Peer(e) /\ p # e
  <2>1. Peer(e) \in Ends /\ Peer(e) # e
    BY EndsFacts
  <2> QED
    BY <2>1
<1>2. /\ ipc' \in [Ends -> ReaderLabels] /\ ipc'[e] = "header"
      /\ \A d \in Ends : d # e => ipc'[d] = ipc[d]
  BY <1>0, IGotoFacts DEF ReaderLabels
<1>3. PICK w \in Writers : w = Reader(e) /\ w[1] = "input"
  BY WriterFacts
<1>4. Moves(w, "none") /\ wpc' \in [Writers -> Labels] /\ wpc[w] = "done"
  BY <1>0, <1>3, GotoFacts DEF Labels
<1>5. /\ \A c \in Calls : /\ Caller(c) \in Writers /\ Caller(c) # w
                          /\ Handler(c) \in Writers /\ Handler(c) # w
      /\ Reader(p) \in Writers /\ Reader(p) # w
  BY <1>1, <1>3, WriterFacts
<1>6. /\ \A c \in Calls : wpc'[Caller(c)] = wpc[Caller(c)] /\ wpc'[Handler(c)] = wpc[Handler(c)]
      /\ wpc'[Reader(p)] = wpc[Reader(p)] /\ wpc'[Reader(e)] = "none"
  BY <1>3, <1>4, <1>5 DEF Moves
<1>7. \A v \in Writers : \/ wpc'[v] = wpc[v]
                         \/ v[1] # "call" /\ {wpc[v], wpc'[v]} \cap {"header", "body"} = {}
  BY <1>3, <1>4 DEF Moves
<1>8. NoStart(e) /\ Settled(e)
  <2>1. NoStart(e)
    BY <1>6 DEF NoStart
  <2>2. Settled(e)
    BY <1>3, <1>4 DEF Settled, Moves
  <2> QED
    BY <2>1, <2>2
<1>9. ~IsClient(e) /\ ~Expecting(e) /\ ~Expecting(e)' /\ ipc'[e] \in ReaderLabels
  BY <1>0, <1>2 DEF PairInv, ControlInv, Expecting
<1>10. conn' = conn /\ open' = open /\ open' \in BOOLEAN /\ encBuf' = encBuf
  BY <1>0 DEF connVars, PairInv, Shape
<1>11. ASSUME Kept PROVE Stream(e)'
  BY <1>8, <1>9, <1>10, <1>11, QuietStream
<1>12. Shape'
  BY <1>0, <1>2, <1>4 DEF PairInv, Shape, Buffered, initVars, callVars, connVars
<1>13. ReplyIsOwn' /\ ArgsAreOwn'
  BY <1>0, ResKept, ArgsKept DEF callVars
<1>14. Len(conn'[e]) <= Cap + Cardinality(Calls)
  BY <1>10 DEF PairInv, LenInv
<1>15. ipc'[p] = ipc[p] /\ msg'[p] = msg[p] /\ ipc'[e] \notin {"args", "reply", "reject"}
  BY <1>0, <1>1, <1>2
<1> QED
  BY <1>0, <1>1, <1>6, <1>7, <1>9, <1>10, <1>11, <1>12, <1>13, <1>14, <1>15, ReaderStep DEF callVars

(* The reader starts a handler.                                            *)
LEMMA ServeStep ==
  ASSUME PairInv, NEW e \in Ends, ipc[e] = "args", Take(e), msg[e].method = "known",
         NEW c, c = msg[e].call[2], IsHeader(Next1(e)) => c \in loose,
         IGoto(e, "header"), Goto(Handler(c), "lock"),
         args' = [args EXCEPT ![c] = WriterOf(Next1(e))],
         UNCHANGED <<initVars, seq, nseq, pending, res, mutex, encBuf, open, msg, misled,
                     shutdown>>
  PROVE  PairInv'
<1>0. PICK p \in Ends : p = Peer(e) /\ p # e
  <2>1. Peer(e) \in Ends /\ Peer(e) # e
    BY EndsFacts
  <2> QED
    BY <2>1
<1>1. /\ ipc' \in [Ends -> ReaderLabels] /\ ipc'[e] = "header"
      /\ \A d \in Ends : d # e => ipc'[d] = ipc[d]
  BY IGotoFacts DEF ReaderLabels
<1>2. Expecting(e) /\ ~Expecting(e)' /\ ~IsClient(e) /\ Mode(e)' = "any"
  <2>1. Expecting(e) /\ ~Expecting(e)' /\ ~IsClient(e)
    BY <1>1 DEF Expecting, PairInv, ControlInv
  <2> QED
    BY <1>1, <2>1, ModeFacts
<1>3. PICK u \in Headers : u = msg[e]
  BY <1>2 DEF PairInv, MsgInv
<1>4. PICK v \in Values, y \in Seq(Values) :
        v = Next1(e) /\ Str(e) = <<u>> \o (<<v>> \o y) /\ Str(e)' = y
  BY <1>2, <1>3, TakeStr
<1>5. /\ c \in Calls /\ u.call = Caller(c) /\ wpc[Handler(c)] = "none"
      /\ End(Caller(c)) = Peer(e)
  BY <1>2, <1>3, <1>4, SecondFacts
<1>6. wpc[Caller(c)] = "done" /\ WriterOf(v) \in Writers /\ (WriterOf(v) = Caller(c) \/ c \in loose)
  <2>1. CASE IsHeader(v)
    <3>1. v \in Headers /\ WriterOf(v) = v.call
      BY <2>1, ValueFacts DEF WriterOf
    <3>2. Alone(u)
      BY <1>2, <1>3, <1>4, <2>1, SecondFacts DEF Blank
    <3> QED
      BY <1>4, <1>5, <2>1, <3>1, <3>2, HeaderType DEF Alone
  <2>2. CASE ~IsHeader(v)
    <3>1. v.body \in Writers /\ WriterOf(v) = v.body
      BY <2>2, ValueFacts DEF WriterOf
    <3>2. GoodBody(v.body, e) /\ u.call = v.body
      BY <1>2, <1>4, <2>2, SecondFacts
    <3>3. v.body = Caller(c) /\ Caller(c)[1] = "call"
      BY <1>5, <3>2, WriterFacts
    <3>4. wpc[Caller(c)] = "done"
      BY <3>2, <3>3 DEF GoodBody
    <3> QED
      BY <3>1, <3>3, <3>4
  <2> QED
    BY <2>1, <2>2
<1>7. PICK w \in Writers : w = Handler(c) /\ w[1] = "handle"
  BY <1>5, WriterFacts
<1>8. Moves(w, "lock") /\ wpc' \in [Writers -> Labels] /\ wpc[w] = "none"
  BY <1>5, <1>7, GotoFacts DEF Labels
<1>9. /\ \A b \in Calls : b # c => Handler(b) \in Writers /\ Handler(b) # w
      /\ \A d \in Ends : Reader(d) \in Writers /\ Reader(d) # w
  BY <1>5, <1>7, WriterFacts
<1>10. \A b \in Calls : b # c => wpc'[Handler(b)] = wpc[Handler(b)]
  BY <1>8, <1>9 DEF Moves
<1>11. \A b \in Calls : \/ wpc'[Handler(b)] = wpc[Handler(b)]
                        \/ from[b] = p /\ wpc[Caller(b)] = "done"
  <2>1. from[c] = p
    BY <1>0, <1>5, EndFacts DEF PairInv, Shape
  <2> QED
    BY <1>6, <1>10, <2>1
<1>12. \A x \in Writers : \/ wpc'[x] = wpc[x]
                          \/ x[1] # "call" /\ {wpc[x], wpc'[x]} \cap {"header", "body"} = {}
  BY <1>7, <1>8 DEF Moves
<1>13. wpc'[Reader(p)] = wpc[Reader(p)] /\ wpc'[Reader(e)] = "none"
  BY <1>8, <1>9 DEF Moves, PairInv, ControlInv
<1>14. ASSUME Kept PROVE Stream(e)'
  <2>1. Settled(e)
    BY <1>7, <1>8 DEF Settled, Moves
  <2>2. u \in Values /\ IsHeader(u) /\ u.method = "known"
    BY <1>3, HeaderType
  <2>3. \A b \in Calls : wpc[Handler(b)] = "none" => wpc'[Handler(b)] = "none" \/ u.call = Caller(b)
    BY <1>5, <1>10
  <2> QED
    BY <1>2, <1>4, <1>14, <2>1, <2>2, <2>3, DropTwo DEF PairInv, StreamInv
<1>15. /\ conn' \in [Ends -> Seq(Values)] /\ conn'[p] = conn[p]
       /\ Len(conn'[e]) <= Cap + Cardinality(Calls)
  BY <1>0, TakeFacts
<1>16. /\ args' \in [Calls -> {Nothing} \cup Writers]
       /\ \A b \in Calls : args'[b] = args[b] \/ (b = c /\ args'[b] = WriterOf(v))
  BY <1>4, <1>5, <1>6 DEF PairInv, Shape
<1>17. Shape'
  BY <1>1, <1>8, <1>15, <1>16 DEF PairInv, Shape, Buffered, initVars
<1>18. ArgsAreOwn'
  <2>1. loose' = loose
    BY DEF initVars
  <2> QED
    BY <1>6, <1>16, <2>1 DEF PairInv, ArgsAreOwn
<1>19. ReplyIsOwn'
  BY ResKept
<1>20. ipc'[p] = ipc[p] /\ msg'[p] = msg[p] /\ ipc'[e] \notin {"args", "reply", "reject"}
  BY <1>0, <1>1
<1> QED
  BY <1>0, <1>2, <1>11, <1>12, <1>13, <1>14, <1>15, <1>17, <1>18, <1>19, <1>20, ReaderStep

LEMMA ReadRequestStep ==
  ASSUME PairInv, NEW e \in Ends, NEW ok \in BOOLEAN, ReadRequest(e, ok)
  PROVE  PairInv'
<1> DEFINE c == msg[e].call[2]
<1>1. /\ ipc[e] = "args"
      /\ UNCHANGED <<initVars, seq, nseq, pending, res, mutex, encBuf, open, msg, misled,
                     shutdown>>
  BY DEF ReadRequest
<1>2. \/ Take(e) /\ Decodes(Next1(e), c, ok)
      \/ ~ok /\ conn' = conn
  BY DEF ReadRequest
<1>3. CASE ok /\ msg[e].method = "known"
  <2>1. /\ IGoto(e, "header") /\ Goto(Handler(c), "lock")
        /\ args' = [args EXCEPT ![c] = WriterOf(Next1(e))]
    BY <1>3 DEF ReadRequest
  <2>2. Take(e) /\ (IsHeader(Next1(e)) => c \in loose)
    BY <1>2, <1>3 DEF Decodes
  <2> QED
    BY <1>1, <1>3, <2>1, <2>2, ServeStep
<1>4. CASE ~(ok /\ msg[e].method = "known")
  <2>1. Reject(e) /\ args' = args
    BY <1>4 DEF ReadRequest
  <2>2. Take(e) \/ conn' = conn
    BY <1>2
  <2> QED
    BY <1>1, <2>1, <2>2, RejectStep DEF callVars
<1> QED
  BY <1>3, <1>4

(* The header of a call that cannot be encoded names a method.             *)
LEMMA AloneMethod ==
  ASSUME NEW u \in Headers, NEW e \in Ends, Alone(u), GoodHeader(u, e)
  PROVE  u.method = "known" /\ u.call[1] = "call"
<1>1. u.call[1] = "call" /\ kind[u.call[2]] = "unencodable"
  BY DEF Alone, Encodable
<1>2. Method(u.call[2]) = "known"
  BY <1>1 DEF Method
<1> QED
  BY <1>1, <1>2 DEF GoodHeader

LEMMA UnnamedMethod == \A c : Method(c) = "" => kind[c] = "unnamed"
BY DEF Method

(* After a header without method there is another header only where a body *)
(* has been taken for a header, which does not happen to a Client.         *)
LEMMA ReplyHeader ==
  ASSUME PairInv, NEW e \in Ends, ipc[e] = "reply", NEW u \in Headers, u = msg[e],
         NEW v \in Values, NEW y \in Seq(Values), Str(e) = <<u>> \o (<<v>> \o y), IsHeader(v)
  PROVE  e \in misled /\ ~Buffered
<1>1. Expecting(e) /\ Blank(u) /\ ~IsServer(e)
  BY DEF Expecting, Blank, PairInv, MsgInv
<1>2. GoodHeader(u, e) \/ e \in misled
  BY <1>1, SecondFacts
<1>3. Alone(u) \/ e \in misled
  BY <1>1, SecondFacts
<1>4. ~(Alone(u) /\ GoodHeader(u, e))
  BY <1>1, AloneMethod DEF Blank
<1>5. e \in misled
  BY <1>2, <1>3, <1>4
<1>6. ~IsClient(e)
  BY <1>5 DEF PairInv, ControlInv
<1>7. e = "a" \/ e = "b"
  BY DEF Ends
<1> QED
  BY <1>1, <1>5, <1>6, <1>7 DEF IsClient, IsServer

(* Whose reply the reader of e decodes for a call of that end.             *)
LEMMA ReplyBody ==
  ASSUME PairInv, NEW e \in Ends, ipc[e] = "reply", NEW h \in Headers, h = msg[e], ~msg[e].error,
         NEW w \in Writers, GoodHeader(h, e), h.call = w, NEW c \in Found(e)
  PROVE  \/ w = Handler(c)
         \/ ~Buffered /\ \E u \in Unnamed : from[u] # from[c] /\ w = Caller(u)
<1>3. h.method = "" /\ ~h.error
  BY DEF PairInv, MsgInv
<1>5. c \in Calls /\ c \in pending /\ from[c] = e /\ seq[c] = h.seq /\ from \in [Calls -> Ends]
  BY DEF Found, PairInv, Shape
<1>6. w[1] # "input" /\ h.seq = seq[w[2]] /\ End(w) = Peer(e)
  BY <1>3 DEF GoodHeader
<1>7. CASE w[1] = "handle"
  <2>1. PICK d \in Calls : w = Handler(d) /\ d = w[2]
    BY <1>7, WriterFacts
  <2>2. Peer(from[d]) = Peer(e) /\ from[d] \in Ends
    BY <1>5, <1>6, <2>1, EndFacts
  <2>3. from[d] = from[c]
    BY <1>5, <2>2, EndsFacts
  <2>4. seq[c] # 0 /\ seq[d] = seq[c]
    BY <1>5, <1>6, <2>1 DEF PairInv, SeqInv
  <2>5. c = d
    BY <1>5, <2>3, <2>4 DEF PairInv, SeqInv
  <2> QED
    BY <2>1, <2>5
<1>8. CASE w[1] = "call"
  <2>1. PICK u \in Calls : w = Caller(u) /\ u = w[2]
    BY <1>8, WriterFacts
  <2>2. Method(u) = ""
    BY <1>3, <1>8, <2>1 DEF GoodHeader
  <2>3. u \in Unnamed
    BY <2>2, UnnamedMethod DEF Unnamed
  <2>4. from[u] = Peer(e)
    BY <1>5, <1>6, <2>1, EndFacts
  <2>5. from[u] # from[c]
    BY <1>5, <2>4, EndsFacts
  <2>6. ~Buffered
    <3>1. Buffered => from[u] = "a" /\ from[c] = "a"
      BY <1>5 DEF PairInv, Shape
    <3> QED
      BY <2>5, <3>1
  <2> QED
    BY <2>1, <2>3, <2>5, <2>6
<1> QED
  BY <1>6, <1>7, <1>8, WriterFacts

LEMMA ReplyFacts ==
  ASSUME PairInv, NEW e \in Ends, ipc[e] = "reply", NEW u \in Headers, u = msg[e], ~msg[e].error,
         NEW v \in Values, NEW y \in Seq(Values), Str(e) = <<u>> \o (<<v>> \o y),
         NEW c \in Found(e), Decodes(v, c, TRUE)
  PROVE  /\ WriterOf(v) \in Writers
         /\ \/ WriterOf(v) = Handler(c)
            \/ /\ ~Buffered
               /\ \/ \E n \in Unnamed : from[n] # from[c] /\ WriterOf(v) = Caller(n)
                  \/ c \in loose /\ from[c] \in misled
<1>1. CASE IsHeader(v)
  <2>1. WriterOf(v) \in Writers
    BY <1>1, ValueFacts, HeaderType DEF WriterOf
  <2>2. c \in loose /\ from[c] = e
    BY <1>1 DEF Decodes, Found
  <2>3. e \in misled /\ ~Buffered
    BY <1>1, ReplyHeader
  <2> QED
    BY <2>1, <2>2, <2>3
<1>2. CASE ~IsHeader(v)
  <2>1. PICK w \in Writers : w = v.body /\ w = WriterOf(v)
    BY <1>2, ValueFacts DEF WriterOf
  <2>2. Expecting(e)
    BY DEF Expecting
  <2>3. GoodHeader(u, e) /\ u.call = w
    BY <1>2, <2>1, <2>2, SecondFacts
  <2> QED
    BY <2>1, <2>3, ReplyBody
<1> QED
  BY <1>1, <1>2

LEMMA ReadResponseStep ==
  ASSUME PairInv, NEW e \in Ends, NEW ok \in BOOLEAN, ReadResponse(e, ok)
  PROVE  PairInv'
<1> DEFINE discard == msg[e].error \/ Found(e) = {}
           l == IF ok THEN "header" ELSE "final"
<1>0. /\ ipc[e] = "reply" /\ pending' = pending \ Found(e) /\ IGoto(e, l)
      /\ UNCHANGED <<initVars, seq, nseq, args, outVars, open, msg, misled, shutdown>>
  BY DEF ReadResponse
<1>1. \/ Take(e) /\ IF discard THEN ok ELSE \A c \in Found(e) : Decodes(Next1(e), c, ok)
      \/ ~ok /\ conn' = conn
  BY DEF ReadResponse
<1>2. res' = [c \in Calls |-> IF c \notin Found(e) THEN res[c]
                              ELSE IF ok /\ ~discard THEN WriterOf(Next1(e)) ELSE Error]
  BY DEF ReadResponse
<1>3. ~discard => ~msg[e].error
  OBVIOUS
<1> HIDE DEF discard
<1>4. l \in {"header", "final"} /\ l \in ReaderLabels
  BY DEF ReaderLabels
<1>5. ipc'[e] = l
  BY <1>0, <1>4, IGotoFacts
<1>6. Expecting(e) /\ ~Expecting(e)'
  BY <1>0, <1>5 DEF Expecting
<1>7. PICK u \in Headers : u = msg[e] /\ u \in Values
  BY <1>6, HeaderType DEF PairInv, MsgInv
<1>8. Kept /\ NoStart(e) /\ Settled(e) /\ Stream(e) /\ open' = open /\ encBuf' = encBuf
  BY <1>0, SameWriters DEF outVars, PairInv, StreamInv
<1>9. CASE Take(e)
  <2>1. PICK v \in Values, y \in Seq(Values) :
          v = Next1(e) /\ Str(e) = <<u>> \o (<<v>> \o y) /\ Str(e)' = y
    BY <1>6, <1>7, <1>8, <1>9, TakeStr
  <2>2. \A c \in Calls : End(Caller(c)) = Peer(e) /\ wpc[Handler(c)] = "none" => wpc'[Handler(c)] = "none"
    BY <1>8 DEF NoStart
  <2>3. \/ Mode(e)' = "any"
        \/ Mode(e) = "header" /\ Mode(e)' = "header" /\ ~IsHeader(v)
    <3>1. Mode(e)' = "any" \/ (Mode(e)' = "header" /\ IsClient(e))
      BY <1>0, <1>4, <1>5, ModeFacts
    <3>2. ASSUME IsClient(e) PROVE Mode(e) = "header" /\ ~IsHeader(v)
      <4>1. Buffered /\ e \notin misled
        BY <3>2 DEF IsClient, PairInv, ControlInv
      <4>2. Mode(e) = "header"
        BY <1>0, <3>2, <4>1 DEF Mode
      <4>3. ~IsHeader(v)
        BY <1>0, <1>7, <2>1, <4>1, ReplyHeader
      <4> QED
        BY <4>2, <4>3
    <3> QED
      BY <3>1, <3>2
  <2>4. Stream(e)'
    BY <1>7, <1>8, <2>1, <2>2, <2>3, DropTwo
  <2>5. ASSUME NEW c \in Calls
        PROVE  /\ res'[c] \in {Nothing, Error} \cup Writers
               /\ \/ res'[c] = res[c] \/ res'[c] = Error \/ res'[c] = Handler(c)
                  \/ /\ ~Buffered
                     /\ \/ \E n \in Unnamed : from[n] # from[c] /\ res'[c] = Caller(n)
                        \/ c \in loose /\ from[c] \in misled
    <3>1. CASE res'[c] = res[c] \/ res'[c] = Error
      BY <3>1 DEF PairInv, Shape
    <3>2. CASE c \in Found(e) /\ ok /\ ~discard
      <4>1. res'[c] = WriterOf(v) /\ ~msg[e].error
        BY <1>2, <1>3, <2>1, <3>2
      <4>2. Decodes(v, c, TRUE)
        BY <1>1, <2>1, <3>2 DEF Decodes
      <4> QED
        BY <1>0, <1>7, <2>1, <3>2, <4>1, <4>2, ReplyFacts
    <3> QED
      BY <1>2, <3>1, <3>2
  <2>6. res' \in [Calls -> {Nothing, Error} \cup Writers]
    <3>1. DOMAIN res' = Calls /\ res' = [c \in Calls |-> res'[c]]
      BY <1>2
    <3> QED
      BY <2>5, <3>1
  <2>7. ReplyIsOwn'
    <3>1. /\ Buffered' = Buffered /\ Unnamed' = Unnamed /\ from' = from /\ loose' = loose
          /\ misled' = misled
      BY <1>0 DEF Buffered, Unnamed, initVars
    <3> QED
      BY <2>5, <3>1 DEF PairInv, ReplyIsOwn
  <2> QED
    BY <1>0, <1>4, <1>9, <2>4, <2>6, <2>7, QuietReader DEF PairInv, Shape
<1>10. CASE ~ok /\ conn' = conn
  <2>1. PICK y \in Seq(Values) : Str(e) = <<u>> \o y /\ Str(e)' = y
    BY <1>6, <1>7, <1>8, <1>10, GiveUpStr
  <2>2. Mode(e)' = "any"
    BY <1>0, <1>5, <1>10, ModeFacts
  <2>3. Stream(e)'
    BY <1>7, <1>8, <2>1, <2>2, DropOne
  <2>4. \A c \in Calls : res'[c] = res[c] \/ res'[c] = Error
    BY <1>2, <1>10
  <2>5. res' \in [Calls -> {Nothing, Error} \cup Writers]
    BY <1>2, <1>10 DEF PairInv, Shape
  <2>6. ReplyIsOwn'
    BY <1>0, <2>4, ResKept
  <2> QED
    BY <1>0, <1>4, <1>10, <2>3, <2>5, <2>6, QuietReader DEF PairInv, Shape
<1> QED
  BY <1>1, <1>9, <1>10

-----------------------------------------------------------------------------
LEMMA NextStep ==
  ASSUME PairInv, Next
  PROVE  PairInv'
<1>1. ASSUME NEW w \in Writers, Lock(w) \/ Write(w) PROVE PairInv'
  BY <1>1, LockStep, WriteStep
<1>2. ASSUME NEW e \in Ends, Read(e) \/ Terminate(e) PROVE PairInv'
  BY <1>2, ReadHeaderStep, ReadRequestStep, RejectedStep, ReadFailsStep, StopStep,
     ReadResponseStep, TerminateStep DEF Read
<1> QED
  BY <1>1, <1>2, StartStep DEF Next, Run

LEMMA StutterStep ==
  ASSUME PairInv, UNCHANGED vars
  PROVE  PairInv'
<1>1. /\ UNCHANGED <<initVars, seq, nseq, pending, res, args, wpc, mutex, encBuf, conn, open>>
      /\ UNCHANGED <<ipc, msg, misled, shutdown>>
  BY DEF vars, callVars, outVars, connVars, readVars
<1>2. Kept /\ \A e \in Ends : NoStart(e) /\ Settled(e)
  BY <1>1, SameWriters
<1>3. /\ \A w : End(w)' = End(w)
      /\ \A e : IsClient(e)' = IsClient(e)
  BY <1>1, ConstFacts
<1>4. Shape'
  BY <1>1 DEF PairInv, Shape, Buffered, initVars
<1>5. SeqInv' /\ ReplyIsOwn' /\ ArgsAreOwn' /\ MsgInv'
  BY <1>1, SeqKept, ResKept, ArgsKept, MsgSame
<1>6. ControlInv'
  BY <1>1, <1>3 DEF PairInv, ControlInv
<1>7. open' \in BOOLEAN
  BY <1>4 DEF Shape
<1>8. \A e \in Ends : Stream(e)'
  BY <1>1, <1>2, <1>7, StreamIdle
<1>9. ClientBuf' /\ ServerBuf'
  BY <1>1, <1>2, ClientBufKept, ServerBufKept
<1>10. LenInv'
  BY <1>1 DEF PairInv, LenInv
<1> QED
  BY <1>4, <1>5, <1>6, <1>8, <1>9, <1>10 DEF PairInv, StreamInv, BufInv

-----------------------------------------------------------------------------
(* Theorems *)

LEMMA InitStep == Init => PairInv
<1> SUFFICES ASSUME Init PROVE PairInv
  OBVIOUS
<1>0. /\ seq = [c \in Calls |-> 0] /\ nseq = [e \in Ends |-> 0]
      /\ pending = {} /\ res = [c \in Calls |-> Nothing] /\ args = [c \in Calls |-> Nothing]
      /\ wpc = [w \in Writers |-> "none"] /\ mutex = [e \in Ends |-> NoOne]
      /\ encBuf = [e \in Ends |-> <<>>] /\ conn = [e \in Ends |-> <<>>]
      /\ open = TRUE
      /\ ipc = [e \in Ends |-> "header"] /\ msg = [e \in Ends |-> NoMsg]
      /\ misled = {} /\ shutdown = {}
  BY DEF Init
<1>1. "a" \in Ends /\ "b" \in Ends
  BY DEF Ends
<1>2. Shape
  <2>1. codec \in {"gobCodec", "client/server"} /\ kind \in [Calls -> Kinds] /\ loose \subseteq Calls
    BY PairAssumption DEF Init
  <2>2. from \in [Calls -> Ends] /\ (Buffered => \A c \in Calls : from[c] = "a")
    <3>1. CASE Buffered
      <4>1. from \in [Calls -> {"a"}]
        BY <3>1 DEF Init
      <4> QED
        BY <1>1, <4>1
    <3>2. CASE ~Buffered
      BY <3>2 DEF Init
    <3> QED
      BY <3>1, <3>2
  <2>3. /\ seq \in [Calls -> Nat] /\ nseq \in [Ends -> Nat] /\ pending \subseteq Calls
        /\ res \in [Calls -> {Nothing, Error} \cup Writers]
        /\ args \in [Calls -> {Nothing} \cup Writers]
    BY <1>0
  <2>4. /\ wpc \in [Writers -> Labels] /\ mutex \in [Ends -> Writers \cup {NoOne}]
        /\ ipc \in [Ends -> ReaderLabels] /\ msg \in [Ends -> Headers \cup {NoMsg}]
        /\ misled \subseteq Ends /\ shutdown \subseteq Ends /\ open \in BOOLEAN
    BY <1>0 DEF Labels, ReaderLabels
  <2>5. /\ encBuf \in [Ends -> Seq(Headers)] /\ conn \in [Ends -> Seq(Values)]
        /\ \A e \in Ends : encBuf[e] = <<>>
    <3>1. <<>> \in Seq(Headers) /\ <<>> \in Seq(Values)
      OBVIOUS
    <3> QED
      BY <1>0, <3>1
  <2> QED
    BY <2>1, <2>2, <2>3, <2>4, <2>5 DEF Shape
<1>3. from \in [Calls -> Ends]
  BY <1>2 DEF Shape
<1>4. SeqInv
  BY <1>0, <1>3 DEF SeqInv
<1>5. \A w \in Writers : wpc[w] = "none" /\ mutex[End(w)] # w
  BY <1>0, <1>3, EndFacts, WriterFacts
<1>6. ControlInv
  <2>1. /\ \A c \in Calls : Handler(c) \in Writers
        /\ \A e \in Ends : Reader(e) \in Writers /\ ipc[e] = "header"
    BY <1>0, WriterFacts
  <2> QED
    BY <1>0, <1>5, <2>1 DEF ControlInv
<1>7. \A e \in Ends : conn[e] = <<>> /\ encBuf[e] = <<>> /\ ipc[e] = "header"
  BY <1>0
<1>8. MsgInv
  BY <1>7 DEF MsgInv, Expecting
<1>9. ASSUME NEW e \in Ends PROVE Stream(e)
  <2>1. Peer(e) \in Ends
    BY EndsFacts
  <2>2. Read1(e) = <<>> /\ conn[e] = <<>> /\ Buf(e) = <<>>
    BY <1>7, <2>1 DEF Read1, Buf, Expecting
  <2>3. <<>> \in Seq(Values) /\ <<>> \o <<>> = <<>> /\ <<>> \o (<<>> \o <<>>) = <<>>
    BY Joined
  <2>4. Str(e) = <<>>
    BY <2>2, <2>3 DEF Str
  <2>5. \A m : StrOK(<<>>, e, m) /\ KnownOK(<<>>) /\ LastOK(<<>>, m) /\ ReadyOK(<<>>, e, m)
    BY <1>5 DEF StrOK, KnownOK, LastOK, ReadyOK
  <2> QED
    BY <2>4, <2>5 DEF Stream
<1>10. BufInv
  BY <1>1, <1>7 DEF BufInv, ClientBuf, ServerBuf
<1>11. LenInv
  <2>1. Cardinality(Calls) \in Nat /\ Cap \in Nat
    BY PairAssumption, FS_CardinalityType
  <2>2. \A e \in Ends : Len(conn[e]) = 0
    BY <1>7
  <2> QED
    BY <2>1, <2>2 DEF LenInv
<1>12. ReplyIsOwn /\ ArgsAreOwn
  BY <1>0 DEF ReplyIsOwn, ArgsAreOwn
<1> QED
  BY <1>2, <1>4, <1>6, <1>8, <1>9, <1>10, <1>11, <1>12 DEF PairInv, StreamInv

(* The inductive invariant holds in every state of a pair of ends: what an *)
(* end has still to read is what the writers of the other put there, a     *)
(* body after its own header, and a header without body only of a request  *)
(* that could not be encoded, however reads, writes, failures and closing  *)
(* interleave.                                                             *)
THEOREM PairInvariance == Spec => []PairInv
<1>1. Init => PairInv
  BY InitStep
<1>2. PairInv /\ [Next]_vars => PairInv'
  BY NextStep, StutterStep
<1> QED
  BY <1>1, <1>2, PTL DEF Spec

(* The types; the mutex of an end (reqMutex, or sending at a Server) is    *)
(* held by who writes there, and by nobody else.  The transport holds at   *)
(* most Cap values and what a Client left in its buffer, one header for    *)
(* each request that could not be encoded.                                 *)
THEOREM TypeCorrect == Spec => []PTypeOK
<1>1. PairInv => PTypeOK
  <2> SUFFICES ASSUME PairInv PROVE PTypeOK
    OBVIOUS
  <2>1. /\ pending \subseteq Calls /\ shutdown \subseteq Ends /\ open \in BOOLEAN
        /\ loose \subseteq Calls /\ misled \subseteq Ends
        /\ args \in [Calls -> {Nothing} \cup Writers]
        /\ res \in [Calls -> {Nothing, Error} \cup Writers]
        /\ wpc \in [Writers -> {"none", "lock", "header", "body", "done"}]
        /\ ipc \in [Ends -> {"header", "args", "reply", "reject", "final", "wait", "stopped"}]
    BY DEF PairInv, Shape, Labels, ReaderLabels
  <2>2. \A w \in Writers : wpc[w] \in {"header", "body"} <=> mutex[End(w)] = w
    BY DEF PairInv, ControlInv
  <2>3. \A e \in Ends : Len(conn[e]) <= Cap + Cardinality(Calls)
    BY DEF PairInv, LenInv
  <2>4. ~Buffered => \A e \in Ends : encBuf[e] = <<>>
    BY DEF PairInv, Shape
  <2> QED
    BY <2>1, <2>2, <2>3, <2>4 DEF PTypeOK
<1> QED
  BY PairInvariance, <1>1, PTL

(* A call that succeeds has the reply of its own method: no header without *)
(* a body, rejected request or broken connection leads a reply to another  *)
(* call, but for the two exceptions of gobCodec: a call without method     *)
(* name, and a loose reply where a body was taken for a header.            *)
THEOREM RepliesAreOwn == Spec => []ReplyIsOwn
BY PairInvariance, PTL DEF PairInv

(* A method runs with the arguments of the request it was found for, or    *)
(* its argument type is one that a header can be decoded into: a header    *)
(* that a failed request left alone takes nobody else's body.              *)
THEOREM ArgumentsAreOwn == Spec => []ArgsAreOwn
BY PairInvariance, PTL DEF PairInv
=============================================================================
