---------------------------- MODULE JsonRpcProofs ----------------------------
(***************************************************************************)
(* Proofs about JsonRpc, for any calls and notifications, whether or not   *)
(* they can be encoded or cancelled, and for any number served at a time.  *)
(***************************************************************************)
EXTENDS JsonRpc, TLAPS

Served == {"start", "run", "reject", "respond"}
Messages == [id : Nat, of : Requests]
Answers == [id : Nat, result : BOOLEAN, error : BOOLEAN]

(* The types of the variables; the bounds are those of JTypeOK.            *)
Shape ==
  /\ codec \in Codecs /\ down \in BOOLEAN
  /\ cpc \in [Callers -> {"idle", "wait", "returned"}]
  /\ result \in [Callers -> {"none", "ok", "err", "write", "ctx", "invalid", "body", "ErrShutdown"}]
  /\ cseq \in Nat /\ callSeq \in [Requests -> Nat] /\ methods \subseteq 1 .. cseq
  /\ sseq \in Nat /\ hseq \in [Requests -> Nat]
  /\ ids \in [DOMAIN ids -> Nat] /\ running \in [DOMAIN running -> Requests]
  /\ hpc \in [Requests -> Served \cup {"none", "end", "done"}]
  /\ outcome \in [Requests -> {"none", "ok", "null", "unencodable", "err"}]
  /\ ctxDone \subseteq Requests
  /\ toServer \in Seq(Messages) /\ toClient \in Seq(Answers)

(* The numbers of the calling end: a request that has one was written, and *)
(* has it alone; only what a call is waiting for has been written so far.  *)
CallInv ==
  /\ \A r \in Requests : /\ callSeq[r] <= cseq
                         /\ r[1] \in Notes => callSeq[r] = 0
                         /\ r[1] \in Callers /\ callSeq[r] = 0 => hpc[r] = "none"
  /\ \A r, q \in Requests : callSeq[r] = callSeq[q] /\ callSeq[r] # 0 => r = q
  /\ \A c \in Callers : /\ cpc[c] = "idle" <=> callSeq[Main(c)] = 0 /\ cpc[c] # "returned"
                        /\ cpc[c] # "returned" /\ c \in Cancellable => callSeq[Cancel(c)] = 0

(* The requests on their way carry these numbers; each is there once, and  *)
(* not yet served.                                                         *)
QueueInv ==
  /\ \A i \in DOMAIN toServer :
       /\ hpc[toServer[i].of] = "none" /\ toServer[i].id = callSeq[toServer[i].of]
       /\ toServer[i].of[1] \in Callers => toServer[i].id # 0
  /\ \A i, j \in DOMAIN toServer : toServer[i].of = toServer[j].of => i = j

(* The numbers of the serving end: unique too, and ids leads from them     *)
(* back to the numbers of the calling end.                                 *)
ServeInv ==
  /\ DOMAIN ids \subseteq 1 .. sseq /\ DOMAIN running \subseteq 0 .. sseq
  /\ \A r \in Requests : /\ hseq[r] <= sseq /\ (hpc[r] = "none" => hseq[r] = 0)
                         /\ hseq[r] \in DOMAIN ids => ids[hseq[r]] = callSeq[r]
                         /\ r[1] \in Callers /\ hpc[r] \in Served => hseq[r] \in DOMAIN ids
  /\ \A r, q \in Requests : hseq[r] = hseq[q] /\ hseq[r] # 0 => r = q
  /\ \A s \in DOMAIN ids : \E r \in Requests : hseq[r] = s /\ hpc[r] \in Served

(* A response on its way is one of the request whose number it has, and    *)
(* says how that one ended.                                                *)
Reports(m, r) ==
  /\ callSeq[r] = m.id /\ hpc[r] \in {"end", "done"}
  /\ m.error = (outcome[r] = "err") /\ m.result = (outcome[r] = "ok")

ReplyInv ==
  /\ \A i \in DOMAIN toClient : toClient[i].id # 0 => \E r \in Requests : Reports(toClient[i], r)
  /\ \A c \in Callers : result[c] \in {"ok", "err"} =>
       cpc[c] = "returned" /\ hpc[Main(c)] \in {"end", "done"} /\ outcome[Main(c)] = result[c]

(* The inductive invariant.                                                *)
JsonInv == Shape /\ CallInv /\ QueueInv /\ ServeInv /\ ReplyInv

-----------------------------------------------------------------------------
(* Requests and queues *)

(* A request is the main one of a call or a notification, or the one that  *)
(* cancels a call.                                                         *)
LEMMA RequestFacts ==
  /\ \A c \in Callers \cup Notes : /\ Main(c) \in Requests
                                   /\ Main(c)[1] = c /\ Main(c)[2] = "main"
  /\ \A c \in Cancellable : /\ c \in Callers /\ Cancel(c) \in Requests
                            /\ Cancel(c)[1] = c /\ Cancel(c)[2] = "cancel"
  /\ \A r \in Requests : \/ r[1] \in Callers \cup Notes /\ r = Main(r[1])
                         \/ r[1] \in Cancellable /\ r = Cancel(r[1])
BY JsonAssumption DEF Requests, Main, Cancel

(* No notification is a call.                                              *)
LEMMA NotBoth == \A c \in Callers : c \notin Notes
BY JsonAssumption

LEMMA TailFacts ==
  ASSUME NEW T, NEW s \in Seq(T), s # <<>>
  PROVE  /\ Tail(s) \in Seq(T) /\ Head(s) = s[1] /\ 1 \in DOMAIN s /\ s[1] \in T
         /\ \A i \in DOMAIN Tail(s) : /\ i \in Nat /\ i + 1 \in DOMAIN s /\ i # 0
                                      /\ Tail(s)[i] = s[i + 1]
<1>1. Len(s) \in Nat /\ Len(s) > 0 /\ DOMAIN s = 1 .. Len(s)
  OBVIOUS
<1>2. Tail(s) \in Seq(T) /\ DOMAIN Tail(s) = 1 .. Len(s) - 1
  BY <1>1
<1>3. \A i \in 1 .. Len(s) - 1 : Tail(s)[i] = s[i + 1]
  BY <1>1
<1> QED
  BY <1>1, <1>2, <1>3

LEMMA AppendFacts ==
  ASSUME NEW T, NEW s \in Seq(T), NEW e \in T
  PROVE  /\ Append(s, e) \in Seq(T)
         /\ \A i \in DOMAIN Append(s, e) :
              \/ i \in DOMAIN s /\ Append(s, e)[i] = s[i]
              \/ i = Len(s) + 1 /\ Append(s, e)[i] = e
<1>1. Len(s) \in Nat /\ DOMAIN s = 1 .. Len(s)
  OBVIOUS
<1>2. Append(s, e) \in Seq(T) /\ DOMAIN Append(s, e) = 1 .. Len(s) + 1
  OBVIOUS
<1> QED
  BY <1>1, <1>2

LEMMA MessageFacts ==
  ASSUME NEW s \in Seq(Messages), NEW i \in DOMAIN s
  PROVE  s[i].of \in Requests
<1>1. s[i] \in Messages
  OBVIOUS
<1> QED
  BY <1>1 DEF Messages

(* Nothing that is on its way to the server, or has been there, is written *)
(* again.                                                                  *)
LEMMA UnsentFacts ==
  ASSUME JsonInv, NEW r \in Requests, r[1] \in Callers, callSeq[r] = 0
  PROVE  /\ hpc[r] = "none" /\ hseq[r] = 0 /\ hseq[r] \notin DOMAIN ids
         /\ \A i \in DOMAIN toServer : toServer[i].of # r
<1>1. hpc[r] = "none" /\ hseq[r] = 0
  BY DEF JsonInv, CallInv, ServeInv
<1>2. 0 \notin DOMAIN ids
  BY DEF JsonInv, ServeInv
<1> QED
  BY <1>1, <1>2 DEF JsonInv, QueueInv

-----------------------------------------------------------------------------
(* The calling end *)

(* WriteRequest gives a request its number, and puts it on the connection. *)
LEMMA WriteRequestFacts ==
  ASSUME JsonInv, NEW r \in Requests, r[1] \in Callers, callSeq[r] = 0,
         NEW ok \in BOOLEAN, WriteRequest(r, ok),
         cpc' \in [Callers -> {"idle", "wait", "returned"}],
         result' \in [Callers -> {"none", "ok", "err", "write", "ctx", "invalid", "body", "ErrShutdown"}],
         \A c \in Callers : /\ result'[c] \in {"ok", "err"} => result'[c] = result[c]
                            /\ cpc[c] = "returned" => cpc'[c] = "returned"
                            /\ cpc'[c] = "idle" <=> callSeq'[Main(c)] = 0 /\ cpc'[c] # "returned"
                            /\ cpc'[c] # "returned" /\ c \in Cancellable => callSeq'[Cancel(c)] = 0
  PROVE  JsonInv'
<1> USE DEF WriteRequest, serverVars
<1>0. /\ cseq \in Nat /\ cseq' = cseq + 1 /\ callSeq \in [Requests -> Nat]
      /\ \A q \in Requests : callSeq'[q] = IF q = r THEN cseq + 1 ELSE callSeq[q]
      /\ callSeq' \in [Requests -> Nat]
  BY DEF JsonInv, Shape
<1>1. /\ hpc[r] = "none" /\ hseq[r] = 0 /\ hseq[r] \notin DOMAIN ids
      /\ \A i \in DOMAIN toServer : toServer[i].of # r
  BY UnsentFacts
<1> DEFINE m == [id |-> cseq + 1, of |-> r]
<1>2. m \in Messages
  BY <1>0 DEF Messages
<1>3. toServer \in Seq(Messages) /\ (toServer' = Append(toServer, m) \/ toServer' = toServer)
  BY DEF JsonInv, Shape
<1>4. /\ toServer' \in Seq(Messages)
      /\ \A i \in DOMAIN toServer' : \/ i \in DOMAIN toServer /\ toServer'[i] = toServer[i]
                                     \/ i = Len(toServer) + 1 /\ toServer'[i] = m
  BY <1>2, <1>3, AppendFacts
<1>5. Shape'
  <2>1. methods' \subseteq 1 .. cseq'
    BY <1>0 DEF JsonInv, Shape
  <2> QED
    BY <1>0, <1>4, <2>1 DEF JsonInv, Shape
<1>6. CallInv'
  <2>1. \A q \in Requests : /\ callSeq'[q] <= cseq'
                            /\ q[1] \in Notes => callSeq'[q] = 0
                            /\ q[1] \in Callers /\ callSeq'[q] = 0 => hpc'[q] = "none"
    BY <1>0, NotBoth DEF JsonInv, CallInv
  <2>2. \A p, q \in Requests : callSeq'[p] = callSeq'[q] /\ callSeq'[p] # 0 => p = q
    BY <1>0 DEF JsonInv, CallInv
  <2> QED
    BY <2>1, <2>2 DEF CallInv
<1>7. QueueInv'
  <2>1. ASSUME NEW i \in DOMAIN toServer'
        PROVE  /\ hpc'[toServer'[i].of] = "none" /\ toServer'[i].id = callSeq'[toServer'[i].of]
               /\ toServer'[i].of[1] \in Callers => toServer'[i].id # 0
    <3>1. CASE i \in DOMAIN toServer /\ toServer'[i] = toServer[i]
      <4>1. toServer[i].of # r /\ toServer[i].of \in Requests
        <5>1. toServer[i] \in Messages
          BY <1>3, <3>1
        <5> QED
          BY <1>1, <3>1, <5>1 DEF Messages
      <4> QED
        BY <1>0, <3>1, <4>1 DEF JsonInv, QueueInv
    <3>2. CASE toServer'[i] = m
      BY <1>0, <1>1, <3>2
    <3> QED
      BY <1>4, <3>1, <3>2
  <2>2. \A i, j \in DOMAIN toServer' : toServer'[i].of = toServer'[j].of => i = j
    <3> SUFFICES ASSUME NEW i \in DOMAIN toServer', NEW j \in DOMAIN toServer',
                        toServer'[i].of = toServer'[j].of
                 PROVE  i = j
      OBVIOUS
    <3>1. m.of = r
      OBVIOUS
    <3> QED
      BY <1>1, <1>4, <3>1 DEF JsonInv, QueueInv
  <2> QED
    BY <2>1, <2>2 DEF QueueInv
<1>8. ServeInv'
  BY <1>0, <1>1 DEF JsonInv, ServeInv
<1>9. ReplyInv'
  <2>1. ASSUME NEW i \in DOMAIN toClient, toClient[i].id # 0
        PROVE  \E q \in Requests : Reports(toClient[i], q)'
    <3>1. PICK q \in Requests : Reports(toClient[i], q)
      BY <2>1 DEF JsonInv, ReplyInv
    <3>2. q # r
      BY <1>1, <3>1 DEF Reports
    <3> QED
      BY <1>0, <3>1, <3>2 DEF Reports
  <2>2. \A c \in Callers : result'[c] \in {"ok", "err"} =>
          cpc'[c] = "returned" /\ hpc'[Main(c)] \in {"end", "done"} /\ outcome'[Main(c)] = result'[c]
    BY DEF JsonInv, ReplyInv
  <2> QED
    BY <2>1, <2>2 DEF ReplyInv
<1> QED
  BY <1>5, <1>6, <1>7, <1>8, <1>9 DEF JsonInv

LEMMA CallStep ==
  ASSUME JsonInv, NEW c \in Callers, NEW ok \in BOOLEAN, Call(c, ok)
  PROVE  JsonInv'
<1>1. /\ cpc[c] = "idle" /\ WriteRequest(Main(c), ok)
      /\ \/ cpc' = [cpc EXCEPT ![c] = "wait"] /\ result' = result
         \/ cpc' = [cpc EXCEPT ![c] = "returned"] /\ result' = [result EXCEPT ![c] = "write"]
  BY DEF Call, Tell
<1>2. /\ Main(c) \in Requests /\ Main(c)[1] = c /\ callSeq[Main(c)] = 0
      /\ \A d \in Callers : Main(d) \in Requests /\ (d # c => Main(d) # Main(c))
      /\ \A d \in Cancellable : d \in Callers /\ Cancel(d) \in Requests /\ Cancel(d) # Main(c)
  BY <1>1, RequestFacts DEF JsonInv, CallInv
<1>3. /\ cpc \in [Callers -> {"idle", "wait", "returned"}]
      /\ result \in [Callers -> {"none", "ok", "err", "write", "ctx", "invalid", "body", "ErrShutdown"}]
      /\ callSeq \in [Requests -> Nat] /\ cseq \in Nat
      /\ callSeq' = [callSeq EXCEPT ![Main(c)] = cseq + 1]
  BY <1>1 DEF JsonInv, Shape, WriteRequest
<1>4. \A d \in Callers : /\ cpc[d] = "idle" <=> callSeq[Main(d)] = 0 /\ cpc[d] # "returned"
                         /\ cpc[d] # "returned" /\ d \in Cancellable => callSeq[Cancel(d)] = 0
  BY DEF JsonInv, CallInv
<1>5. \A d \in Callers : /\ cpc'[d] = "idle" <=> callSeq'[Main(d)] = 0 /\ cpc'[d] # "returned"
                         /\ cpc'[d] # "returned" /\ d \in Cancellable => callSeq'[Cancel(d)] = 0
  <2>1. callSeq'[Main(c)] # 0 /\ cpc'[c] # "idle"
    BY <1>1, <1>2, <1>3
  <2>2. \A d \in Callers : d # c => cpc'[d] = cpc[d] /\ callSeq'[Main(d)] = callSeq[Main(d)]
    BY <1>1, <1>2, <1>3
  <2>3. \A d \in Cancellable : callSeq'[Cancel(d)] = callSeq[Cancel(d)]
    BY <1>2, <1>3
  <2> QED
    BY <1>1, <1>4, <2>1, <2>2, <2>3
<1>6. \A d \in Callers : /\ result'[d] \in {"ok", "err"} => result'[d] = result[d]
                         /\ cpc[d] = "returned" => cpc'[d] = "returned"
  BY <1>1, <1>3
<1>7. /\ cpc' \in [Callers -> {"idle", "wait", "returned"}]
      /\ result' \in [Callers -> {"none", "ok", "err", "write", "ctx", "invalid", "body", "ErrShutdown"}]
  BY <1>1, <1>3
<1> QED
  BY <1>1, <1>2, <1>5, <1>6, <1>7, WriteRequestFacts

LEMMA CancelCallStep ==
  ASSUME JsonInv, NEW c \in Callers, CancelCall(c)
  PROVE  JsonInv'
<1>1. /\ cpc[c] = "wait" /\ c \in Cancellable /\ WriteRequest(Cancel(c), TRUE)
      /\ cpc' = [cpc EXCEPT ![c] = "returned"] /\ result' = [result EXCEPT ![c] = "ctx"]
  BY DEF CancelCall, Tell
<1>2. /\ Cancel(c) \in Requests /\ Cancel(c)[1] = c /\ callSeq[Cancel(c)] = 0
      /\ \A d \in Callers : Main(d) \in Requests /\ Main(d) # Cancel(c)
      /\ \A d \in Cancellable : d \in Callers /\ Cancel(d) \in Requests /\ (d # c => Cancel(d) # Cancel(c))
  BY <1>1, RequestFacts DEF JsonInv, CallInv
<1>3. /\ cpc \in [Callers -> {"idle", "wait", "returned"}]
      /\ result \in [Callers -> {"none", "ok", "err", "write", "ctx", "invalid", "body", "ErrShutdown"}]
      /\ callSeq \in [Requests -> Nat] /\ cseq \in Nat
      /\ callSeq' = [callSeq EXCEPT ![Cancel(c)] = cseq + 1]
  BY <1>1 DEF JsonInv, Shape, WriteRequest
<1>4. \A d \in Callers : /\ cpc[d] = "idle" <=> callSeq[Main(d)] = 0 /\ cpc[d] # "returned"
                         /\ cpc[d] # "returned" /\ d \in Cancellable => callSeq[Cancel(d)] = 0
  BY DEF JsonInv, CallInv
<1>5. \A d \in Callers : /\ cpc'[d] = "idle" <=> callSeq'[Main(d)] = 0 /\ cpc'[d] # "returned"
                         /\ cpc'[d] # "returned" /\ d \in Cancellable => callSeq'[Cancel(d)] = 0
  <2>1. cpc'[c] = "returned" /\ \A d \in Callers : callSeq'[Main(d)] = callSeq[Main(d)]
    BY <1>1, <1>2, <1>3
  <2>2. \A d \in Callers : d # c => cpc'[d] = cpc[d]
    BY <1>1, <1>3
  <2>3. \A d \in Cancellable : d # c => callSeq'[Cancel(d)] = callSeq[Cancel(d)]
    BY <1>2, <1>3
  <2> QED
    BY <1>4, <2>1, <2>2, <2>3
<1>6. \A d \in Callers : /\ result'[d] \in {"ok", "err"} => result'[d] = result[d]
                         /\ cpc[d] = "returned" => cpc'[d] = "returned"
  BY <1>1, <1>3
<1>7. /\ cpc' \in [Callers -> {"idle", "wait", "returned"}]
      /\ result' \in [Callers -> {"none", "ok", "err", "write", "ctx", "invalid", "body", "ErrShutdown"}]
  BY <1>1, <1>3
<1> DEFINE ok == TRUE
<1>8. ok \in BOOLEAN /\ WriteRequest(Cancel(c), ok)
  BY <1>1
<1> HIDE DEF ok
<1> QED
  BY <1>2, <1>5, <1>6, <1>7, <1>8, WriteRequestFacts

LEMMA RefusedStep ==
  ASSUME JsonInv, NEW c \in Callers, Refused(c)
  PROVE  JsonInv'
<1> USE DEF serverVars
<1>1. /\ cpc[c] = "idle" /\ cpc' = [cpc EXCEPT ![c] = "returned"]
      /\ result' = [result EXCEPT ![c] = "ErrShutdown"]
      /\ UNCHANGED <<codec, cseq, callSeq, methods, down, toServer, toClient, serverVars>>
  BY DEF Refused, Tell
<1>2. /\ cpc \in [Callers -> {"idle", "wait", "returned"}]
      /\ result \in [Callers -> {"none", "ok", "err", "write", "ctx", "invalid", "body", "ErrShutdown"}]
  BY DEF JsonInv, Shape
<1>3. /\ cpc'[c] = "returned" /\ result'[c] = "ErrShutdown"
      /\ \A d \in Callers : d # c => cpc'[d] = cpc[d] /\ result'[d] = result[d]
  BY <1>1, <1>2
<1>4. Shape'
  BY <1>1 DEF JsonInv, Shape
<1>5. CallInv' /\ QueueInv' /\ ServeInv'
  BY <1>1, <1>3 DEF JsonInv, CallInv, QueueInv, ServeInv
<1>6. ReplyInv'
  BY <1>1, <1>3 DEF JsonInv, ReplyInv, Reports
<1> QED
  BY <1>4, <1>5, <1>6 DEF JsonInv

LEMMA NotifyStep ==
  ASSUME JsonInv, NEW n \in Notes, Notify(n)
  PROVE  JsonInv'
<1> USE DEF clientVars, serverVars, Null
<1> DEFINE m == [id |-> 0, of |-> Main(n)]
<1>1. /\ toServer' = Append(toServer, m) /\ hpc[Main(n)] = "none"
      /\ \A i \in DOMAIN toServer : toServer[i].of # Main(n)
      /\ UNCHANGED <<codec, clientVars, toClient, serverVars>>
  BY DEF Notify
<1>2. Main(n) \in Requests /\ Main(n)[1] = n /\ n \notin Callers /\ m \in Messages
  BY RequestFacts, NotBoth DEF Messages
<1>3. /\ toServer' \in Seq(Messages) /\ m.of = Main(n) /\ m.id = 0
      /\ \A i \in DOMAIN toServer' : \/ i \in DOMAIN toServer /\ toServer'[i] = toServer[i]
                                     \/ i = Len(toServer) + 1 /\ toServer'[i] = m
  BY <1>1, <1>2, AppendFacts DEF JsonInv, Shape
<1>4. Shape'
  BY <1>1, <1>3 DEF JsonInv, Shape
<1>5. CallInv' /\ ServeInv'
  BY <1>1 DEF JsonInv, CallInv, ServeInv
<1>6. callSeq[Main(n)] = 0
  BY <1>2 DEF JsonInv, CallInv
<1> HIDE DEF m
<1>7. QueueInv'
  BY <1>1, <1>2, <1>3, <1>6 DEF JsonInv, QueueInv
<1>8. ReplyInv'
  BY <1>1 DEF JsonInv, ReplyInv, Reports
<1> QED
  BY <1>4, <1>5, <1>7, <1>8 DEF JsonInv

(* The call that waits for the id of a response is the one it reports of.  *)
LEMMA ReadResponseStep ==
  ASSUME JsonInv, NEW ok \in BOOLEAN, ReadResponse(ok)
  PROVE  JsonInv'
<1> USE DEF serverVars
<1> DEFINE m == Head(toClient)
           ends == Invalid(m) \/ ~ok
           told == IF ends THEN {c \in Callers : cpc[c] = "wait"} ELSE Waiter(m.id)
           what == IF Invalid(m) THEN "invalid" ELSE IF ~ok THEN "body"
                   ELSE IF m.error THEN "err" ELSE "ok"
<1>1. /\ toClient # <<>> /\ toClient' = Tail(toClient) /\ methods' = methods \ {m.id}
      /\ cpc' = [c \in Callers |-> IF c \in told THEN "returned" ELSE cpc[c]]
      /\ result' = [c \in Callers |-> IF c \in told THEN what ELSE result[c]]
      /\ down' = ends /\ UNCHANGED <<codec, cseq, callSeq, toServer, serverVars>>
  BY DEF ReadResponse
<1>2. toClient \in Seq(Answers)
  BY DEF JsonInv, Shape
<1>3. /\ toClient' \in Seq(Answers) /\ m = toClient[1] /\ 1 \in DOMAIN toClient /\ m \in Answers
      /\ \A i \in DOMAIN toClient' : i + 1 \in DOMAIN toClient /\ toClient'[i] = toClient[i + 1]
  BY <1>1, <1>2, TailFacts
<1>4. m.error \in BOOLEAN /\ m.result \in BOOLEAN /\ m.id \in Nat
  BY <1>3 DEF Answers
<1>5. ends \in BOOLEAN /\ what \in {"invalid", "body", "err", "ok"}
  BY <1>4 DEF Invalid
<1>6. \A c \in told : cpc[c] = "wait" /\ (~ends => callSeq[Main(c)] = m.id)
  BY DEF Waiter
<1>7. ASSUME NEW c \in Callers, c \in told, ~ends
      PROVE  hpc[Main(c)] \in {"end", "done"} /\ outcome[Main(c)] = what
  <2>1. callSeq[Main(c)] = m.id /\ m.id # 0 /\ Main(c) \in Requests
    BY <1>6, <1>7, RequestFacts DEF JsonInv, CallInv
  <2>2. PICK r \in Requests : Reports(m, r)
    BY <1>3, <2>1 DEF JsonInv, ReplyInv
  <2>3. r = Main(c)
    BY <2>1, <2>2 DEF Reports, JsonInv, CallInv
  <2>4. m.error = (outcome[r] = "err") /\ m.result = (outcome[r] = "ok")
    BY <2>2 DEF Reports
  <2>5. m.error \/ m.result
    BY <1>4, <1>7 DEF Invalid
  <2>6. outcome[r] = what
    BY <1>4, <1>7, <2>4, <2>5
  <2> QED
    BY <2>2, <2>3, <2>6 DEF Reports
<1> HIDE DEF m, ends, told, what
<1>8. Shape'
  <2>1. /\ cpc' \in [Callers -> {"idle", "wait", "returned"}]
        /\ result' \in [Callers -> {"none", "ok", "err", "write", "ctx", "invalid", "body", "ErrShutdown"}]
    BY <1>1, <1>5 DEF JsonInv, Shape
  <2> QED
    BY <1>1, <1>3, <1>5, <2>1 DEF JsonInv, Shape
<1>9. CallInv' /\ QueueInv' /\ ServeInv'
  <2>1. \A c \in Callers : cpc'[c] = cpc[c] \/ (cpc[c] = "wait" /\ cpc'[c] = "returned")
    BY <1>1, <1>6
  <2>2. CallInv'
    BY <1>1, <2>1 DEF JsonInv, CallInv
  <2> QED
    BY <1>1, <2>2 DEF JsonInv, QueueInv, ServeInv
<1>10. ReplyInv'
  <2>1. \A i \in DOMAIN toClient' : toClient'[i].id # 0 =>
          \E r \in Requests : Reports(toClient'[i], r)
    BY <1>3 DEF JsonInv, ReplyInv
  <2>2. ASSUME NEW c \in Callers, result'[c] \in {"ok", "err"}
        PROVE  cpc'[c] = "returned" /\ hpc[Main(c)] \in {"end", "done"} /\ outcome[Main(c)] = result'[c]
    <3>1. CASE c \in told
      <4>1. result'[c] = what /\ cpc'[c] = "returned"
        BY <1>1, <3>1
      <4>2. ~ends
        BY <2>2, <4>1 DEF what, ends
      <4> QED
        BY <1>7, <3>1, <4>1, <4>2
    <3>2. CASE c \notin told
      BY <1>1, <2>2, <3>2 DEF JsonInv, ReplyInv
    <3> QED
      BY <3>1, <3>2
  <2> QED
    BY <1>1, <2>1, <2>2 DEF ReplyInv, Reports
<1> QED
  BY <1>8, <1>9, <1>10 DEF JsonInv

-----------------------------------------------------------------------------
(* The serving end *)

(* Steps that leave the calling end, the queues and the numbers alone, and *)
(* move the handlers of requests on.                                       *)
LEMMA HandlerStep ==
  ASSUME JsonInv, NEW r \in Requests, NEW l \in Served \cup {"end", "done"},
         UNCHANGED <<codec, clientVars, toServer, toClient, sseq, ids, hseq>>,
         hpc' = [hpc EXCEPT ![r] = l], hpc[r] # "none",
         hpc[r] \in Served <=> l \in Served,
         hpc[r] = "end" => l \in {"end", "done"}, hpc[r] # "done",
         outcome' \in [Requests -> {"none", "ok", "null", "unencodable", "err"}],
         \A q \in Requests : outcome'[q] = outcome[q] \/ (q = r /\ hpc[r] \in Served),
         running' \in [DOMAIN running' -> Requests], DOMAIN running' \subseteq 0 .. sseq,
         ctxDone' \subseteq Requests
  PROVE  JsonInv'
<1> USE DEF clientVars
<1>1. hpc \in [Requests -> Served \cup {"none", "end", "done"}]
  BY DEF JsonInv, Shape
<1>2. /\ hpc'[r] = l /\ l # "none" /\ \A q \in Requests : q # r => hpc'[q] = hpc[q]
      /\ hpc' \in [Requests -> Served \cup {"none", "end", "done"}]
  BY <1>1 DEF Served
<1>3. \A q \in Requests : /\ hpc'[q] = "none" <=> hpc[q] = "none"
                          /\ hpc'[q] \in Served <=> hpc[q] \in Served
                          /\ hpc[q] \in {"end", "done"} =>
                               hpc'[q] \in {"end", "done"} /\ outcome'[q] = outcome[q]
  BY <1>1, <1>2 DEF Served
<1>4. Shape'
  BY <1>2 DEF JsonInv, Shape
<1>5. CallInv'
  BY <1>3 DEF JsonInv, CallInv
<1>6. QueueInv'
  <2>1. \A i \in DOMAIN toServer : toServer[i].of \in Requests
    BY MessageFacts DEF JsonInv, Shape
  <2> QED
    BY <1>3, <2>1 DEF JsonInv, QueueInv
<1>7. ServeInv'
  BY <1>3 DEF JsonInv, ServeInv
<1>8. ReplyInv'
  <2>1. \A c \in Callers : Main(c) \in Requests
    BY RequestFacts
  <2>2. \A m : \A q \in Requests : Reports(m, q) => Reports(m, q)'
    BY <1>3 DEF Reports
  <2> QED
    BY <1>3, <2>1, <2>2 DEF JsonInv, ReplyInv, Reports
<1> QED
  BY <1>4, <1>5, <1>6, <1>7, <1>8 DEF JsonInv

LEMMA StartStep ==
  ASSUME JsonInv, NEW r \in Requests, Start(r)
  PROVE  JsonInv'
<1>1. /\ hpc[r] = "start" /\ hpc' = [hpc EXCEPT ![r] = "run"]
      /\ running' = [x \in DOMAIN running \cup {hseq[r]} |-> IF x = hseq[r] THEN r ELSE running[x]]
      /\ UNCHANGED <<codec, clientVars, toServer, toClient, sseq, ids, hseq, outcome, ctxDone>>
  BY DEF Start, HGoto, Put
<1>2. running' \in [DOMAIN running' -> Requests]
  BY <1>1 DEF JsonInv, Shape
<1>3. DOMAIN running' \subseteq 0 .. sseq
  BY <1>1 DEF JsonInv, Shape, ServeInv
<1>4. /\ outcome' \in [Requests -> {"none", "ok", "null", "unencodable", "err"}] /\ ctxDone' \subseteq Requests
      /\ hpc[r] \in Served <=> "run" \in Served
      /\ "run" \in Served \cup {"end", "done"}
  BY <1>1 DEF JsonInv, Shape, Served
<1> QED
  BY <1>1, <1>2, <1>3, <1>4, HandlerStep

(* Cancelling by number takes at most one context out of svc.Pending.      *)
LEMMA CancelSeqFacts ==
  ASSUME JsonInv, NEW s, CancelSeq(s)
  PROVE  /\ running' \in [DOMAIN running' -> Requests] /\ DOMAIN running' \subseteq 0 .. sseq
         /\ ctxDone' \subseteq Requests
<1>1. running' = [x \in DOMAIN running \ {s} |-> running[x]]
  BY DEF CancelSeq, Remove, Restrict
<1>2. running \in [DOMAIN running -> Requests] /\ ctxDone \subseteq Requests
  BY DEF JsonInv, Shape
<1> QED
  BY <1>1, <1>2 DEF CancelSeq, JsonInv, ServeInv

LEMMA ReturnStep ==
  ASSUME JsonInv, NEW r \in Requests, NEW how \in {"ok", "null", "unencodable", "err"}, Return(r, how)
  PROVE  JsonInv'
<1>1. /\ hpc[r] = "run" /\ hpc' = [hpc EXCEPT ![r] = "respond"]
      /\ outcome' = [outcome EXCEPT ![r] = how]
      /\ CancelSeq(callSeq[Main(r[1])]) \/ UNCHANGED <<running, ctxDone>>
      /\ UNCHANGED <<codec, clientVars, toServer, toClient, sseq, ids, hseq>>
  BY DEF Return, HGoto
<1>2. /\ running' \in [DOMAIN running' -> Requests] /\ DOMAIN running' \subseteq 0 .. sseq
      /\ ctxDone' \subseteq Requests
  <2>1. CASE CancelSeq(callSeq[Main(r[1])])
    BY <2>1, CancelSeqFacts
  <2>2. CASE UNCHANGED <<running, ctxDone>>
    BY <2>2 DEF JsonInv, Shape, ServeInv
  <2> QED
    BY <1>1, <2>1, <2>2
<1>3. /\ outcome' \in [Requests -> {"none", "ok", "null", "unencodable", "err"}]
      /\ \A q \in Requests : q # r => outcome'[q] = outcome[q]
  BY <1>1 DEF JsonInv, Shape
<1>4. /\ hpc[r] \in Served /\ "respond" \in Served
      /\ "respond" \in Served \cup {"end", "done"}
  BY <1>1 DEF Served
<1> QED
  BY <1>1, <1>2, <1>3, <1>4, HandlerStep

LEMMA EndStep ==
  ASSUME JsonInv, NEW r \in Requests, End(r)
  PROVE  JsonInv'
<1>1. /\ hpc[r] = "end" /\ hpc' = [hpc EXCEPT ![r] = "done"] /\ CancelSeq(hseq[r])
      /\ UNCHANGED <<codec, clientVars, toServer, toClient, sseq, ids, hseq, outcome>>
  BY DEF End, HGoto
<1>2. /\ running' \in [DOMAIN running' -> Requests] /\ DOMAIN running' \subseteq 0 .. sseq
      /\ ctxDone' \subseteq Requests
  BY <1>1, CancelSeqFacts
<1>3. /\ outcome' \in [Requests -> {"none", "ok", "null", "unencodable", "err"}]
      /\ hpc[r] \notin Served /\ "done" \notin Served /\ "done" \in Served \cup {"end", "done"}
  BY <1>1 DEF JsonInv, Shape, Served
<1> QED
  BY <1>1, <1>2, <1>3, HandlerStep

(* The response goes out with the number the calling end gave the request, *)
(* null for a notification, or not at all, and the map forgets it.         *)
LEMMA WriteResponseStep ==
  ASSUME JsonInv, NEW r \in Requests, WriteResponse(r)
  PROVE  JsonInv'
<1> USE DEF clientVars
<1> DEFINE l == IF hpc[r] = "reject" THEN "done" ELSE "end"
           m == [id |-> ids[hseq[r]], result |-> outcome[r] = "ok", error |-> outcome[r] = "err"]
<1>1. /\ hpc[r] \in {"respond", "reject"} /\ hpc' = [hpc EXCEPT ![r] = l]
      /\ UNCHANGED <<codec, clientVars, toServer, sseq, hseq, outcome, running, ctxDone>>
  BY DEF WriteResponse, HGoto
<1>2. hpc \in [Requests -> Served \cup {"none", "end", "done"}]
  BY DEF JsonInv, Shape
<1>3. /\ hpc[r] \in Served /\ hpc'[r] = l /\ l \in {"end", "done"} /\ l \notin Served /\ l # "none"
      /\ \A q \in Requests : q # r => hpc'[q] = hpc[q]
      /\ hpc' \in [Requests -> Served \cup {"none", "end", "done"}]
  BY <1>1, <1>2 DEF Served
<1>4. \/ /\ hseq[r] \in DOMAIN ids /\ ids' = [s \in DOMAIN ids \ {hseq[r]} |-> ids[s]]
         /\ toClient' = toClient \o <<m>> \/ toClient' = toClient
      \/ hseq[r] \notin DOMAIN ids /\ ids' = ids /\ toClient' = toClient
  <2>1. Sent(r) = <<m>> \/ Sent(r) = <<>>
    BY DEF Sent, Response, IdOf
  <2>2. toClient \o <<>> = toClient
    BY DEF JsonInv, Shape
  <2> QED
    BY <2>1, <2>2 DEF WriteResponse, Forget, Remove, Restrict
<1>5. /\ ids \in [DOMAIN ids -> Nat] /\ hseq \in [Requests -> Nat]
      /\ outcome \in [Requests -> {"none", "ok", "null", "unencodable", "err"}]
  BY DEF JsonInv, Shape
<1>6. /\ ids' \in [DOMAIN ids' -> Nat] /\ DOMAIN ids' \subseteq DOMAIN ids
      /\ \A s \in DOMAIN ids : s # hseq[r] => s \in DOMAIN ids'
      /\ \A s \in DOMAIN ids' : ids'[s] = ids[s] /\ s # hseq[r]
  BY <1>4, <1>5
<1>7. hseq[r] \in DOMAIN ids => m \in Answers /\ m.id = callSeq[r]
  <2>1. hseq[r] \in DOMAIN ids => m \in Answers
    BY <1>5 DEF Answers
  <2> QED
    BY <2>1 DEF JsonInv, ServeInv
<1> HIDE DEF l
<1>8. /\ toClient' \in Seq(Answers)
      /\ \A i \in DOMAIN toClient' : \/ i \in DOMAIN toClient /\ toClient'[i] = toClient[i]
                                     \/ hseq[r] \in DOMAIN ids /\ toClient'[i] = m
  <2>1. toClient \in Seq(Answers)
    BY DEF JsonInv, Shape
  <2>2. CASE toClient' = toClient
    BY <2>1, <2>2
  <2>3. CASE hseq[r] \in DOMAIN ids /\ toClient' = toClient \o <<m>>
    <3> HIDE DEF m
    <3>1. m \in Answers
      BY <1>7, <2>3
    <3>2. toClient' = Append(toClient, m)
      BY <2>1, <2>3, <3>1
    <3> QED
      BY <2>1, <2>3, <3>1, <3>2, AppendFacts
  <2> QED
    BY <1>4, <2>2, <2>3
<1>9. Shape'
  BY <1>1, <1>3, <1>6, <1>8 DEF JsonInv, Shape
<1>10. CallInv'
  <2>1. \A q \in Requests : hpc'[q] = "none" <=> hpc[q] = "none"
    BY <1>3 DEF Served
  <2> QED
    BY <1>1, <2>1 DEF JsonInv, CallInv
<1>11. QueueInv'
  <2>1. \A i \in DOMAIN toServer : toServer[i].of \in Requests /\ toServer[i].of # r
    <3>1. \A i \in DOMAIN toServer : hpc[toServer[i].of] = "none"
      BY DEF JsonInv, QueueInv
    <3>2. \A i \in DOMAIN toServer : toServer[i].of \in Requests
      BY MessageFacts DEF JsonInv, Shape
    <3> QED
      BY <1>3, <3>1, <3>2 DEF Served
  <2> QED
    BY <1>1, <1>3, <2>1 DEF JsonInv, QueueInv
<1>12. ServeInv'
  <2>1. DOMAIN ids' \subseteq 1 .. sseq /\ 0 \notin DOMAIN ids
    BY <1>6 DEF JsonInv, ServeInv
  <2>2. \A q \in Requests : q # r /\ hseq[q] \in DOMAIN ids => hseq[q] # hseq[r]
    BY <2>1 DEF JsonInv, ServeInv
  <2>3. \A q \in Requests :
          /\ hseq[q] <= sseq /\ (hpc'[q] = "none" => hseq[q] = 0)
          /\ hseq[q] \in DOMAIN ids' => ids'[hseq[q]] = callSeq[q]
          /\ q[1] \in Callers /\ hpc'[q] \in Served => hseq[q] \in DOMAIN ids'
    BY <1>3, <1>6, <2>2 DEF JsonInv, ServeInv
  <2>4. ASSUME NEW s \in DOMAIN ids'
        PROVE  \E q \in Requests : hseq[q] = s /\ hpc'[q] \in Served
    <3>1. PICK q \in Requests : hseq[q] = s /\ hpc[q] \in Served
      BY <1>6 DEF JsonInv, ServeInv
    <3>2. q # r
      BY <1>6, <3>1
    <3> QED
      BY <1>3, <3>1, <3>2
  <2> QED
    BY <1>1, <2>1, <2>3, <2>4 DEF JsonInv, ServeInv
<1>13. ReplyInv'
  <2>1. ASSUME NEW i \in DOMAIN toClient', toClient'[i].id # 0
        PROVE  \E q \in Requests : Reports(toClient[i], q)'
    <3>1. CASE i \in DOMAIN toClient /\ toClient'[i] = toClient[i]
      <4>1. PICK q \in Requests : Reports(toClient[i], q)
        BY <2>1, <3>1 DEF JsonInv, ReplyInv
      <4>2. q # r
        BY <1>3, <4>1 DEF Reports, Served
      <4> QED
        BY <1>1, <1>3, <3>1, <4>1, <4>2 DEF Reports
    <3>2. CASE hseq[r] \in DOMAIN ids /\ toClient'[i] = m
      <4>1. callSeq[r] = m.id /\ m.error = (outcome[r] = "err") /\ m.result = (outcome[r] = "ok")
        BY <1>7, <3>2
      <4> HIDE DEF m
      <4> QED
        BY <1>1, <1>3, <3>2, <4>1 DEF Reports
    <3> QED
      BY <1>8, <2>1, <3>1, <3>2
  <2>2. \A c \in Callers : Main(c) \in Requests /\ (Main(c) = r => hpc[Main(c)] \notin {"end", "done"})
    BY <1>3, RequestFacts DEF Served
  <2>3. \A c \in Callers : result[c] \in {"ok", "err"} =>
          cpc[c] = "returned" /\ hpc'[Main(c)] \in {"end", "done"} /\ outcome[Main(c)] = result[c]
    BY <1>3, <2>2 DEF JsonInv, ReplyInv
  <2> QED
    BY <1>1, <2>1, <2>3 DEF ReplyInv
<1> QED
  BY <1>9, <1>10, <1>11, <1>12, <1>13 DEF JsonInv

(* The codec numbers the request it reads, unless it is a notification and *)
(* the codec is jsonCodec, and keeps its id under that number.             *)
LEMMA ReadHeaderStep ==
  ASSUME JsonInv, NEW label \in {"start", "reject"}, NEW how \in {"none", "err"},
         ReadHeader(label, how)
  PROVE  JsonInv'
<1> USE DEF clientVars
<1> DEFINE m == Head(toServer)
           n == IF Numbered(m.id) THEN sseq + 1 ELSE 0
<1>1. /\ toServer # <<>> /\ toServer' = Tail(toServer)
      /\ sseq' = IF Numbered(m.id) THEN sseq + 1 ELSE sseq
      /\ ids' = IF Numbered(m.id) THEN Put(ids, sseq + 1, m.id) ELSE ids
      /\ hseq' = [hseq EXCEPT ![m.of] = n]
      /\ hpc' = [hpc EXCEPT ![m.of] = label] /\ outcome' = [outcome EXCEPT ![m.of] = how]
      /\ UNCHANGED <<codec, clientVars, toClient, running, ctxDone>>
  BY DEF ReadHeader, HGoto
<1>2. toServer \in Seq(Messages)
  BY DEF JsonInv, Shape
<1>3. /\ toServer' \in Seq(Messages) /\ m = toServer[1] /\ 1 \in DOMAIN toServer /\ m \in Messages
      /\ \A i \in DOMAIN toServer' : /\ i \in Nat /\ i # 0 /\ i + 1 \in DOMAIN toServer
                                     /\ toServer'[i] = toServer[i + 1]
  BY <1>1, <1>2, TailFacts
<1>4. PICK r \in Requests : r = m.of
  BY <1>3 DEF Messages
<1>5. /\ hpc[r] = "none" /\ m.id = callSeq[r] /\ (r[1] \in Callers => m.id # 0) /\ m.id \in Nat
      /\ hseq[r] = 0
  <2>1. hpc[r] = "none" /\ m.id = callSeq[r] /\ (r[1] \in Callers => m.id # 0)
    BY <1>3, <1>4 DEF JsonInv, QueueInv
  <2> QED
    BY <1>3, <2>1 DEF JsonInv, ServeInv, Messages
<1>6. /\ hpc \in [Requests -> Served \cup {"none", "end", "done"}] /\ hseq \in [Requests -> Nat]
      /\ outcome \in [Requests -> {"none", "ok", "null", "unencodable", "err"}] /\ sseq \in Nat
      /\ ids \in [DOMAIN ids -> Nat] /\ DOMAIN ids \subseteq 1 .. sseq
  BY DEF JsonInv, Shape, ServeInv
<1>7. /\ hpc'[r] = label /\ \A q \in Requests : q # r => hpc'[q] = hpc[q]
      /\ outcome'[r] = how /\ \A q \in Requests : q # r => outcome'[q] = outcome[q]
      /\ hseq'[r] = n /\ \A q \in Requests : q # r => hseq'[q] = hseq[q]
      /\ hpc' \in [Requests -> Served \cup {"none", "end", "done"}]
      /\ outcome' \in [Requests -> {"none", "ok", "null", "unencodable", "err"}]
      /\ label \in Served /\ label # "none"
  BY <1>1, <1>4, <1>6 DEF Served
<1>8. /\ n = 0 /\ ids' = ids /\ sseq' = sseq /\ r[1] \notin Callers
      \/ /\ n = sseq + 1 /\ sseq' = sseq + 1
         /\ ids' = [x \in DOMAIN ids \cup {sseq + 1} |-> IF x = sseq + 1 THEN callSeq[r] ELSE ids[x]]
  BY <1>1, <1>5 DEF Numbered, Put, Null
<1>9. n \in Nat /\ hseq' \in [Requests -> Nat]
  <2>1. n \in Nat
    BY <1>6
  <2> QED
    BY <1>1, <1>6, <2>1
<1> HIDE DEF m, n
<1>10. /\ ids' \in [DOMAIN ids' -> Nat] /\ DOMAIN ids' \subseteq 1 .. sseq'
       /\ DOMAIN ids \subseteq DOMAIN ids' /\ sseq' \in Nat /\ sseq <= sseq' /\ n <= sseq'
       /\ \A s \in DOMAIN ids : ids'[s] = ids[s] /\ s # sseq + 1
       /\ \A s \in DOMAIN ids' : s \in DOMAIN ids \/ s = n
       /\ n # 0 => n \in DOMAIN ids' /\ ids'[n] = callSeq[r] /\ n = sseq + 1
       /\ r[1] \in Callers => n # 0
  <2>1. callSeq[r] \in Nat
    BY <1>5
  <2>2. CASE n = 0 /\ ids' = ids /\ sseq' = sseq /\ r[1] \notin Callers
    BY <1>6, <2>2
  <2>3. CASE /\ n = sseq + 1 /\ sseq' = sseq + 1
             /\ ids' = [x \in DOMAIN ids \cup {sseq + 1} |-> IF x = sseq + 1 THEN callSeq[r] ELSE ids[x]]
    BY <1>6, <2>1, <2>3
  <2> QED
    BY <1>8, <2>2, <2>3
<1>11. Shape'
  BY <1>1, <1>3, <1>7, <1>9, <1>10 DEF JsonInv, Shape
<1>12. CallInv'
  BY <1>1, <1>5, <1>7 DEF JsonInv, CallInv
<1>13. QueueInv'
  <2>1. \A i \in DOMAIN toServer' : toServer'[i].of # r /\ toServer'[i].of \in Requests
    <3>1. \A i \in DOMAIN toServer' : toServer'[i].of # r
      BY <1>3, <1>4 DEF JsonInv, QueueInv
    <3> QED
      BY <1>3, <3>1, MessageFacts
  <2>2. \A i \in DOMAIN toServer' :
          /\ hpc'[toServer'[i].of] = "none" /\ toServer'[i].id = callSeq[toServer'[i].of]
          /\ toServer'[i].of[1] \in Callers => toServer'[i].id # 0
    BY <1>3, <1>7, <2>1 DEF JsonInv, QueueInv
  <2>3. ASSUME NEW i \in DOMAIN toServer', NEW j \in DOMAIN toServer', toServer'[i].of = toServer'[j].of
        PROVE  i = j
    <3>1. i + 1 = j + 1
      BY <1>3, <2>3 DEF JsonInv, QueueInv
    <3> QED
      BY <1>3, <3>1
  <2> QED
    BY <1>1, <2>2, <2>3 DEF QueueInv
<1>14. ServeInv'
  <2>1. DOMAIN running' \subseteq 0 .. sseq'
    BY <1>1, <1>6, <1>10 DEF JsonInv, ServeInv
  <2>2. \A q \in Requests : hseq[q] \in Nat /\ hseq[q] <= sseq /\ hseq[q] # sseq + 1
    BY <1>6 DEF JsonInv, ServeInv
  <2>3. \A q \in Requests : hseq'[q] <= sseq' /\ (hpc'[q] = "none" => hseq'[q] = 0)
    <3>1. \A q \in Requests : q # r => hseq'[q] <= sseq' /\ (hpc'[q] = "none" => hseq'[q] = 0)
      BY <1>6, <1>7, <1>10, <2>2 DEF JsonInv, ServeInv
    <3> QED
      BY <1>7, <1>10, <3>1
  <2>4. ASSUME NEW q \in Requests
        PROVE  /\ hseq'[q] \in DOMAIN ids' => ids'[hseq'[q]] = callSeq[q]
               /\ q[1] \in Callers /\ hpc'[q] \in Served => hseq'[q] \in DOMAIN ids'
    <3>1. CASE q = r
      <4>1. 0 \notin DOMAIN ids'
        BY <1>10
      <4> QED
        BY <1>7, <1>10, <3>1, <4>1
    <3>2. CASE q # r
      <4>1. hseq'[q] = hseq[q] /\ hpc'[q] = hpc[q]
        BY <1>7, <3>2
      <4>2. hseq[q] \in DOMAIN ids' => hseq[q] \in DOMAIN ids
        <5>1. 0 \notin DOMAIN ids'
          BY <1>10
        <5> QED
          BY <1>10, <2>2, <5>1
      <4>3. /\ hseq[q] \in DOMAIN ids => ids[hseq[q]] = callSeq[q]
            /\ q[1] \in Callers /\ hpc[q] \in Served => hseq[q] \in DOMAIN ids
        BY DEF JsonInv, ServeInv
      <4> QED
        BY <1>10, <4>1, <4>2, <4>3
    <3> QED
      BY <3>1, <3>2
  <2>5. ASSUME NEW p \in Requests, NEW q \in Requests, hseq'[p] = hseq'[q], hseq'[p] # 0
        PROVE  p = q
    <3>1. \A x \in Requests : x # r => hseq'[x] = hseq[x] /\ (n # 0 => hseq'[x] # n)
      BY <1>7, <1>10, <2>2
    <3> QED
      BY <1>7, <2>5, <3>1 DEF JsonInv, ServeInv
  <2>6. ASSUME NEW s \in DOMAIN ids'
        PROVE  \E q \in Requests : hseq'[q] = s /\ hpc'[q] \in Served
    <3>1. CASE s \in DOMAIN ids
      <4>1. PICK q \in Requests : hseq[q] = s /\ hpc[q] \in Served
        BY <3>1 DEF JsonInv, ServeInv
      <4>2. q # r
        BY <1>5, <4>1 DEF Served
      <4> QED
        BY <1>7, <4>1, <4>2
    <3>2. CASE s = n
      BY <1>7, <3>2
    <3> QED
      BY <1>10, <3>1, <3>2
  <2> QED
    BY <1>1, <1>10, <2>1, <2>3, <2>4, <2>5, <2>6 DEF ServeInv
<1>15. ReplyInv'
  <2>1. \A x : \A q \in Requests : Reports(x, q) =>
           /\ callSeq'[q] = x.id /\ hpc'[q] \in {"end", "done"}
           /\ x.error = (outcome'[q] = "err") /\ x.result = (outcome'[q] = "ok")
    BY <1>1, <1>5, <1>7 DEF Reports
  <2>2. \A i \in DOMAIN toClient : toClient[i].id # 0 => \E q \in Requests : Reports(toClient[i], q)'
    BY <1>1, <2>1 DEF JsonInv, ReplyInv, Reports
  <2>3. \A c \in Callers : Main(c) \in Requests /\ (hpc[Main(c)] \in {"end", "done"} => Main(c) # r)
    BY <1>5, RequestFacts
  <2>4. \A c \in Callers : result[c] \in {"ok", "err"} =>
          cpc[c] = "returned" /\ hpc'[Main(c)] \in {"end", "done"} /\ outcome'[Main(c)] = result[c]
    BY <1>7, <2>3 DEF JsonInv, ReplyInv
  <2> QED
    BY <1>1, <2>2, <2>4 DEF ReplyInv
<1> QED
  BY <1>11, <1>12, <1>13, <1>14, <1>15 DEF JsonInv

-----------------------------------------------------------------------------
(* Theorems *)

LEMMA InitStep == Init => JsonInv
<1> SUFFICES ASSUME Init PROVE JsonInv
  OBVIOUS
<1> USE DEF Init
<1>1. Shape
  <2>1. ids \in [DOMAIN ids -> Nat] /\ running \in [DOMAIN running -> Requests]
    OBVIOUS
  <2>2. toServer \in Seq(Messages) /\ toClient \in Seq(Answers)
    OBVIOUS
  <2>3. methods \subseteq 1 .. cseq /\ ctxDone \subseteq Requests
    OBVIOUS
  <2>4. hpc \in [Requests -> Served \cup {"none", "end", "done"}]
    OBVIOUS
  <2> QED
    BY <2>1, <2>2, <2>3, <2>4 DEF Shape
<1>2. CallInv /\ QueueInv
  BY RequestFacts DEF CallInv, QueueInv
<1>3. ServeInv /\ ReplyInv
  BY DEF ServeInv, ReplyInv, Served
<1> QED
  BY <1>1, <1>2, <1>3 DEF JsonInv

LEMMA NextStep == JsonInv /\ [Next]_vars => JsonInv'
<1> SUFFICES ASSUME JsonInv, [Next]_vars PROVE JsonInv'
  OBVIOUS
<1>1. CASE Next
  <2>1. CASE ReadRequest
    <3>1. CASE ReadHeader("start", "none")
      BY <3>1, ReadHeaderStep
    <3>2. CASE ReadHeader("reject", "err")
      BY <3>2, ReadHeaderStep
    <3> QED
      BY <2>1, <3>1, <3>2 DEF ReadRequest
  <2>2. ASSUME NEW r \in Requests, Handle(r) PROVE JsonInv'
    BY <2>2, StartStep, ReturnStep, WriteResponseStep, EndStep DEF Handle
  <2>3. CASE Finished
    BY <2>3 DEF Finished, vars, clientVars, serverVars, JsonInv, Shape, CallInv, QueueInv, ServeInv,
                ReplyInv, Reports
  <2> QED
    BY <1>1, <2>1, <2>2, <2>3, CallStep, RefusedStep, CancelCallStep, NotifyStep, ReadResponseStep
    DEF Next
<1>2. CASE UNCHANGED vars
  BY <1>2 DEF vars, clientVars, serverVars, JsonInv, Shape, CallInv, QueueInv, ServeInv, ReplyInv, Reports
<1> QED
  BY <1>1, <1>2

(* The inductive invariant holds.                                          *)
THEOREM JsonInvariance == Spec => []JsonInv
BY InitStep, NextStep, PTL DEF Spec

(* The type invariant: no id in the map, on the connection or remembered   *)
(* by clientCodec is one the client has not given out, and no number of a  *)
(* request one that the serving codec has not.                             *)
THEOREM TypeCorrect == Spec => []JTypeOK
<1>1. JsonInv => JTypeOK
  <2> SUFFICES ASSUME JsonInv PROVE JTypeOK
    OBVIOUS
  <2>1. callSeq \in [Requests -> 0 .. cseq] /\ hseq \in [Requests -> 0 .. sseq]
    BY DEF JsonInv, Shape, CallInv, ServeInv
  <2>2. \A s \in DOMAIN ids : ids[s] \in 0 .. cseq
    BY <2>1 DEF JsonInv, ServeInv
  <2>3. DOMAIN ids \in SUBSET (1 .. sseq) /\ ids \in [DOMAIN ids -> 0 .. cseq]
    BY <2>2 DEF JsonInv, ServeInv, Shape
  <2>4. DOMAIN running \in SUBSET (0 .. sseq) /\ running \in [DOMAIN running -> Requests]
    BY DEF JsonInv, ServeInv, Shape
  <2>5. ASSUME NEW i \in DOMAIN toClient PROVE toClient[i].id \in 0 .. cseq
    <3>1. toClient[i] \in Answers /\ cseq \in Nat
      BY DEF JsonInv, Shape
    <3>2. CASE toClient[i].id = 0
      BY <3>1, <3>2
    <3>3. CASE toClient[i].id # 0
      <4>1. PICK r \in Requests : callSeq[r] = toClient[i].id
        BY <3>3 DEF JsonInv, ReplyInv, Reports
      <4> QED
        BY <2>1, <4>1
    <3> QED
      BY <3>2, <3>3
  <2>6. hpc \in [Requests -> {"none", "start", "run", "reject", "respond", "end", "done"}]
    BY DEF JsonInv, Shape, Served
  <2> QED
    BY <2>1, <2>3, <2>4, <2>5, <2>6 DEF JTypeOK, JsonInv, Shape
<1> QED
  BY <1>1, JsonInvariance, PTL

(* What a caller is told is how its own request ended at the server,       *)
(* however many requests are served at a time and in whatever order        *)
(* WriteResponse answers them.                                             *)
THEOREM RepliesFindTheirCall == Spec => []ReplyRoundTrip
<1>1. JsonInv => ReplyRoundTrip
  BY DEF JsonInv, ReplyInv, ReplyRoundTrip
<1> QED
  BY <1>1, JsonInvariance, PTL

(* The map of the serving codec has the id of a request from ReadHeader to *)
(* WriteResponse and no longer.                                            *)
THEOREM IdsAreHeld == Spec => []IdsHeldWhileServed
<1>1. JsonInv => IdsHeldWhileServed
  BY DEF JsonInv, ServeInv, IdsHeldWhileServed, Served
<1> QED
  BY <1>1, JsonInvariance, PTL
=============================================================================
