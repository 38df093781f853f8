--------------------------- MODULE RpcServerProofs ---------------------------
(***************************************************************************)
(* Proofs about RpcServer, for any number of requests.                     *)
(***************************************************************************)
EXTENDS RpcServer, FiniteSetTheorems, SequenceTheorems, TLAPS

(* Stages of Service.call, of sendResponse, and those in which the context *)
(* of a call is registered.                                                *)
Responding == {"respond", "lock", "body", "freeResp", "freeReq"}
Registered == {"run", "cancel"} \cup Responding
Serving == {"start", "wgDone"} \cup Registered

(* Handlers the WaitGroup counts.                                          *)
Active == {n \in Handlers : pc[n] \in Serving}

(* The error text a response to request n has to carry.                    *)
ErrorOf(n) == IF outcome[n] = "err" THEN n ELSE 0

(* Who can be where: a request the reader answers has no goroutine, with   *)
(* ServeRequestContext the reader waits for the only one there is, and the *)
(* codec is closed behind the last.                                        *)
StageInv ==
  /\ pc[Reader] \in {"loop", "header", "serving", "wait", "done"} \cup Responding
  /\ \A n \in Handlers : pc[n] \in {"none", "done"} \cup Serving
  /\ \A n \in Handlers : n > nread => pc[n] = "none"
  /\ pc[Reader] \in Responding => nread > 0 /\ pc[nread] = "none"
  /\ \A n \in Active : Concurrent \/ (pc[Reader] = "serving" /\ \A m \in Active : m = n)
  /\ closed => pc[Reader] = "done" /\ Active = {}

(* Objects in use and free objects have been allocated, and differ.        *)
ObjInv ==
  /\ \A p \in Procs : /\ HoldsReq(p) => req[p] \in 1 .. Len(reqMem)
                      /\ HoldsResp(p) => resp[p] \in 1 .. Len(respMem)
  /\ Range(freeReq) \subseteq 1 .. Len(reqMem)
  /\ Range(freeResp) \subseteq 1 .. Len(respMem)
  /\ NoAliasing

(* What is in the objects that are in use.                                 *)
ContentInv ==
  /\ \A n \in Handlers : HoldsReq(n) => reqMem[req[n]] = n
  /\ pc[Reader] \in Responding => reqMem[req[Reader]] = nread
  /\ \A p \in Procs : HoldsResp(p) =>
       respMem[resp[p]] = [seq |-> Num(p), err |-> ErrorOf(Num(p))]

(* The goroutine between header and body has the mutex, and the header on  *)
(* the wire is its own.                                                    *)
WriteInv ==
  \A p \in Procs : pc[p] = "body" =>
    sending = Num(p) /\ hdr = [seq |-> Num(p), err |-> ErrorOf(Num(p))]

(* What has been answered, and what has not been yet; an error without a   *)
(* text has been answered with the reply.                                  *)
SentForm ==
  \A n \in Handlers :
    sent[n] \subseteq {IF outcome[n] = "err" THEN [err |-> n, body |-> 0]
                                            ELSE [err |-> 0, body |-> n]}

SentInv ==
  /\ SentForm
  /\ \A n \in Handlers : sent[n] # {} => n <= nread /\ pc[n] \notin {"start", "run"}
  /\ \A n \in 1 .. nread :
       \/ sent[n] # {} \/ broken \/ n \in dropped
       \/ pc[n] \in {"start", "run", "respond", "lock", "body"}
       \/ n = nread /\ pc[Reader] \in {"respond", "lock", "body"}

(* svc.Pending has a context under the number of its own call only, while  *)
(* the call is served.                                                     *)
CtxInv ==
  /\ \A s \in DOMAIN pending : s \in Handlers /\ pending[s] = s /\ pc[s] \in Registered
  /\ \A n \in Handlers : pc[n] \in Registered => deferred[n] = n
  /\ \A n \in ctxDone : pc[n] \notin {"none", "start"}
  /\ CanceledByRequest

CountInv == wg = IF Concurrent THEN Cardinality(Active) ELSE 0

(* The inductive invariant.                                                *)
ServerInv ==
  TypeOK /\ StageInv /\ ObjInv /\ ContentInv /\ WriteInv /\ SentInv /\ CtxInv /\ CountInv

-----------------------------------------------------------------------------
(* The free lists *)

(* An object put on a free list becomes its first element, and the list    *)
(* still has no object twice if it was not on it.                          *)
LEMMA PushFacts ==
  ASSUME NEW s \in Seq(Nat), NEW x \in Nat
  PROVE  /\ Freed(x, s) \in Seq(Nat)
         /\ Range(Freed(x, s)) = Range(s) \cup {x}
         /\ IsInjective(s) /\ x \notin Range(s) => IsInjective(Freed(x, s))
<1> DEFINE t == Freed(x, s)
<1>1. /\ t \in Seq(Nat) /\ Len(t) = Len(s) + 1
      /\ t[1] = x /\ \A i \in 2 .. Len(t) : t[i] = s[i - 1]
  BY DEF Freed
<1>2. \A i \in 1 .. Len(s) : t[i + 1] = s[i]
  BY <1>1
<1>3. DOMAIN t = 1 .. (Len(s) + 1) /\ DOMAIN s = 1 .. Len(s) /\ Len(s) \in Nat
  BY <1>1
<1> HIDE DEF t
<1>4. Range(t) = Range(s) \cup {x}
  <2>1. \A y : y \in Range(t) <=> \E i \in 1 .. (Len(s) + 1) : y = t[i]
    BY <1>3 DEF Range
  <2>2. \A y : y \in Range(s) <=> \E i \in 1 .. Len(s) : y = s[i]
    BY <1>3 DEF Range
  <2>3. ASSUME NEW y \in Range(s) PROVE y \in Range(t)
    <3>1. PICK i \in 1 .. Len(s) : y = s[i]
      BY <2>2
    <3>2. i + 1 \in 1 .. (Len(s) + 1) /\ t[i + 1] = y
      BY <1>2, <1>3, <3>1
    <3> QED
      BY <2>1, <3>2
  <2>4. x \in Range(t)
    BY <1>1, <1>3, <2>1
  <2>5. ASSUME NEW y \in Range(t) PROVE y = x \/ y \in Range(s)
    <3>1. PICK i \in 1 .. (Len(s) + 1) : y = t[i]
      BY <2>1
    <3>2. CASE i = 1
      BY <1>1, <3>1, <3>2
    <3>3. CASE i # 1
      <4>1. i - 1 \in 1 .. Len(s) /\ s[i - 1] = y
        BY <1>1, <1>3, <3>1, <3>3
      <4> QED
        BY <2>2, <4>1
    <3> QED
      BY <3>2, <3>3
  <2> QED
    BY <2>3, <2>4, <2>5
<1>5. ASSUME IsInjective(s), x \notin Range(s)
      PROVE  IsInjective(t)
  <2>1. \A i \in 1 .. Len(s) : s[i] # x
    BY <1>3, <1>5 DEF Range
  <2>2. \A i, j \in 1 .. Len(s) : s[i] = s[j] => i = j
    BY <1>3, <1>5 DEF IsInjective
  <2>3. SUFFICES ASSUME NEW i \in 1 .. (Len(s) + 1), NEW j \in 1 .. (Len(s) + 1), t[i] = t[j]
                 PROVE  i = j
    BY <1>3 DEF IsInjective
  <2>4. CASE i = 1 \/ j = 1
    BY <1>1, <1>3, <2>1, <2>3, <2>4
  <2>5. CASE i # 1 /\ j # 1
    <3>1. i - 1 \in 1 .. Len(s) /\ j - 1 \in 1 .. Len(s)
      BY <1>3, <2>5
    <3>2. t[i] = s[i - 1] /\ t[j] = s[j - 1]
      BY <1>1, <1>3, <2>5
    <3>3. i - 1 = j - 1
      BY <2>2, <2>3, <3>1, <3>2
    <3> QED
      BY <1>3, <3>3
  <2> QED
    BY <2>4, <2>5
<1>6. QED
  BY <1>1, <1>4, <1>5 DEF t

(* The first object of a free list leaves it for good if the list has no   *)
(* object twice.                                                           *)
LEMMA PopFacts ==
  ASSUME NEW s \in Seq(Nat), s # <<>>
  PROVE  /\ Head(s) \in Nat /\ Head(s) \in Range(s)
         /\ Tail(s) \in Seq(Nat) /\ Range(Tail(s)) \subseteq Range(s)
         /\ IsInjective(s) => IsInjective(Tail(s)) /\ Head(s) \notin Range(Tail(s))
<1> DEFINE t == Tail(s)
<1>1. /\ Len(s) \in Nat \ {0} /\ t \in Seq(Nat) /\ Len(t) = Len(s) - 1
      /\ Head(s) = s[1] /\ \A i \in 1 .. Len(t) : t[i] = s[i + 1]
  OBVIOUS
<1>2. DOMAIN t = 1 .. (Len(s) - 1) /\ DOMAIN s = 1 .. Len(s)
  BY <1>1
<1>3. s[1] \in Nat
  BY <1>1, <1>2
<1> HIDE DEF t
<1>4. Head(s) \in Range(s) /\ Range(t) \subseteq Range(s)
  <2>1. \A y : y \in Range(s) <=> \E i \in 1 .. Len(s) : y = s[i]
    BY <1>2 DEF Range
  <2>2. SUFFICES ASSUME NEW y \in Range(t) PROVE y \in Range(s)
    BY <1>1, <2>1
  <2>3. PICK i \in 1 .. (Len(s) - 1) : y = t[i]
    BY <1>2 DEF Range
  <2>4. i + 1 \in 1 .. Len(s) /\ t[i] = s[i + 1]
    BY <1>1
  <2> QED
    BY <2>1, <2>3, <2>4
<1>5. ASSUME IsInjective(s)
      PROVE  IsInjective(t) /\ Head(s) \notin Range(t)
  <2>1. \A i, j \in 1 .. Len(s) : s[i] = s[j] => i = j
    BY <1>2, <1>5 DEF IsInjective
  <2>2. \A i \in 1 .. (Len(s) - 1) : i + 1 \in 1 .. Len(s) /\ t[i] = s[i + 1]
    BY <1>1
  <2>3. ASSUME NEW i \in 1 .. (Len(s) - 1), NEW j \in 1 .. (Len(s) - 1), t[i] = t[j]
        PROVE  i = j
    <3>1. /\ i + 1 \in 1 .. Len(s) /\ j + 1 \in 1 .. Len(s)
          /\ s[i + 1] = s[j + 1]
      BY <2>2, <2>3
    <3>2. i + 1 = j + 1
      BY <2>1, <3>1
    <3> QED
      BY <1>1, <3>2
  <2>4. ASSUME NEW i \in 1 .. (Len(s) - 1) PROVE t[i] # s[1]
    <3>1. i + 1 \in 1 .. Len(s) /\ 1 \in 1 .. Len(s) /\ i + 1 # 1
      BY <1>1
    <3>2. s[i + 1] # s[1]
      BY <2>1, <3>1
    <3> QED
      BY <2>2, <3>2
  <2>5. IsInjective(t)
    BY <1>2, <2>3 DEF IsInjective
  <2>6. Head(s) \notin Range(t)
    BY <1>1, <1>2, <2>4 DEF Range
  <2> QED
    BY <2>5, <2>6
<1>6. QED
  BY <1>1, <1>3, <1>4, <1>5 DEF t

(* getRequest and getResponse: a new object, or the first free one.        *)
Allocates(mem, free, value, newMem, newFree, i) ==
  \/ /\ free = <<>> /\ newFree = free
     /\ newMem = Append(mem, value) /\ i = Len(newMem)
  \/ /\ free # <<>> /\ newFree = Tail(free)
     /\ newMem = [mem EXCEPT ![Head(free)] = value] /\ i = Head(free)

(* The object they return is on the free list no more, and it was free or  *)
(* did not exist.                                                          *)
LEMMA AllocFacts ==
  ASSUME NEW T, NEW mem \in Seq(T), NEW free \in Seq(Nat), NEW value \in T,
         NEW newMem, NEW newFree, NEW i,
         IsInjective(free), Range(free) \subseteq 1 .. Len(mem),
         Allocates(mem, free, value, newMem, newFree, i)
  PROVE  /\ newMem \in Seq(T) /\ newFree \in Seq(Nat)
         /\ i \in 1 .. Len(newMem) /\ newMem[i] = value
         /\ 1 .. Len(mem) \subseteq 1 .. Len(newMem)
         /\ \A j \in 1 .. Len(mem) : j # i => newMem[j] = mem[j]
         /\ IsInjective(newFree) /\ Range(newFree) \subseteq Range(free)
         /\ i \notin Range(newFree)
         /\ i \in Range(free) \/ i \notin 1 .. Len(mem)
<1>1. CASE free = <<>>
  <2>1. newFree = free /\ newMem = Append(mem, value) /\ i = Len(newMem)
    BY <1>1 DEF Allocates
  <2>2. newMem \in Seq(T) /\ Len(newMem) = Len(mem) + 1 /\ Len(mem) \in Nat
    BY <2>1
  <2>3. newMem[i] = value /\ \A j \in 1 .. Len(mem) : newMem[j] = mem[j]
    BY <2>1, <2>2
  <2>4. i \in 1 .. Len(newMem) /\ i \notin 1 .. Len(mem) /\ 1 .. Len(mem) \subseteq 1 .. Len(newMem)
    BY <2>1, <2>2
  <2> QED
    BY <2>1, <2>2, <2>3, <2>4
<1>2. CASE free # <<>>
  <2>1. newFree = Tail(free) /\ newMem = [mem EXCEPT ![Head(free)] = value] /\ i = Head(free)
    BY <1>2 DEF Allocates
  <2>2. /\ i \in Range(free) /\ newFree \in Seq(Nat) /\ Range(newFree) \subseteq Range(free)
        /\ IsInjective(newFree) /\ i \notin Range(newFree)
    BY <1>2, <2>1, PopFacts
  <2>3. i \in 1 .. Len(mem)
    BY <2>2
  <2>4. /\ newMem \in Seq(T) /\ Len(newMem) = Len(mem) /\ newMem[i] = value
        /\ \A j \in 1 .. Len(mem) : j # i => newMem[j] = mem[j]
    BY <2>1, <2>3
  <2> QED
    BY <2>2, <2>3, <2>4
<1> QED
  BY <1>1, <1>2

-----------------------------------------------------------------------------
(* Goroutines and the requests they work on *)

(* The goroutine of a request is named by a number, the reader is not.     *)
LEMMA ProcFacts ==
  /\ Reader \in Procs /\ Reader \notin Handlers
  /\ Handlers \subseteq Procs /\ Handlers \subseteq Nat \ {0}
  /\ \A p \in Procs : p = Reader \/ p \in Handlers
  /\ 0 \notin Handlers /\ Handlers \subseteq 0 .. MaxReq
BY ServerAssumption DEF Procs, Handlers

(* A goroutine in sendResponse works on a request that has been read, and  *)
(* on another one than every other goroutine.                              *)
LEMMA NumFacts ==
  ASSUME TypeOK, StageInv
  PROVE  /\ \A p \in Procs : pc[p] \in Responding => Num(p) \in Handlers /\ Num(p) \in 1 .. nread
         /\ \A p, q \in Procs : /\ p # q
                                /\ pc[p] \in Responding /\ pc[q] \in Responding \cup {"start", "run"}
                                => Num(p) # Num(q)
         /\ \A n \in Handlers : Num(n) = n
<1>1. ASSUME NEW p \in Procs, pc[p] \in Responding
      PROVE  Num(p) \in Handlers /\ Num(p) \in 1 .. nread
  <2>1. CASE p = Reader
    BY <1>1, <2>1, ServerAssumption DEF Num, TypeOK, StageInv, Handlers
  <2>2. CASE p \in Handlers
    <3>1. pc[p] # "none" /\ nread \in 0 .. MaxReq /\ p \in 1 .. MaxReq
      BY <1>1, <2>2 DEF TypeOK, Responding, Handlers
    <3>2. ~(p > nread)
      BY <2>2, <3>1 DEF StageInv
    <3> QED
      BY <2>2, <3>1, <3>2, ProcFacts, ServerAssumption DEF Num
  <2> QED
    BY <2>1, <2>2, ProcFacts
<1>2. ASSUME NEW p \in Procs, NEW q \in Procs, p # q, pc[p] \in Responding,
             pc[q] \in Responding \cup {"start", "run"}
      PROVE  Num(p) # Num(q)
  BY <1>1, <1>2, ProcFacts DEF Num, StageInv, Responding
<1> QED
  BY <1>1, <1>2, ProcFacts DEF Num

(* A goroutine moves on and no other does.                                 *)
Moves(p, label) == pc'[p] = label /\ \A q \in Procs \ {p} : pc'[q] = pc[q]

LEMMA GotoFacts ==
  ASSUME TypeOK, NEW p \in Procs, NEW label, Goto(p, label)
  PROVE  Moves(p, label)
BY DEF TypeOK, Goto, Moves

(* A handler that stays at work, or a reader that is not waiting for one,  *)
(* leaves everybody's stage consistent.                                    *)
LEMMA StageFrame ==
  ASSUME TypeOK, StageInv, NEW p \in Procs, NEW label, Moves(p, label),
         p \in Handlers => pc[p] \in Serving /\ label \in Serving,
         p = Reader => /\ pc[p] \notin {"serving", "done"}
                       /\ label \in {"loop", "header", "wait", "done"} \cup Responding
                       /\ label \in Responding => pc[p] \in Responding,
         UNCHANGED <<mode, nread, closed>>
  PROVE  StageInv' /\ Active' = Active
<1>1. ~closed
  BY ProcFacts DEF StageInv, Responding, Active, Serving, Registered
<1>2. Active' = Active
  <2>1. \A n \in Handlers : pc'[n] \in Serving <=> pc[n] \in Serving
    BY ProcFacts DEF Moves
  <2> QED
    BY <2>1 DEF Active
<1>3. /\ pc'[Reader] \in {"loop", "header", "serving", "wait", "done"} \cup Responding
      /\ \A n \in Handlers : pc'[n] \in {"none", "done"} \cup Serving
      /\ \A n \in Handlers : n > nread => pc'[n] = "none"
      /\ pc'[Reader] \in Responding => pc[Reader] \in Responding
      /\ pc[Reader] = "serving" => pc'[Reader] = "serving"
  BY ProcFacts DEF StageInv, Moves, Serving, Registered, Responding
<1>4. ASSUME pc'[Reader] \in Responding PROVE nread > 0 /\ pc'[nread] = "none"
  <2>1. nread > 0 /\ pc[nread] = "none" /\ nread \in Handlers
    BY <1>3, <1>4, ServerAssumption DEF StageInv, TypeOK, Handlers
  <2> QED
    BY <2>1, ProcFacts DEF Moves, Serving, Registered, Responding
<1> QED
  BY <1>1, <1>2, <1>3, <1>4 DEF StageInv, Concurrent

(* A step that begins and ends no method does not concern the contexts.    *)
LEMMA CtxFrame ==
  ASSUME TypeOK, CtxInv, NEW p \in Procs, NEW label, Moves(p, label),
         p \in Handlers => pc[p] \in Registered /\ label \in Registered \ {"run"},
         UNCHANGED <<nread, asked, ctxVars>>
  PROVE  CtxInv'
<1>1. \A n \in Handlers : /\ pc'[n] \in Registered <=> pc[n] \in Registered
                          /\ pc'[n] \in {"none", "start"} <=> pc[n] \in {"none", "start"}
                          /\ pc'[n] = "run" => pc[n] = "run"
  BY ProcFacts DEF Moves, Registered, Responding
<1>2. ctxDone \subseteq Handlers
  BY DEF TypeOK
<1> QED
  BY <1>1, <1>2 DEF CtxInv, ctxVars, CanceledByRequest

(* A goroutine that takes no object aliases none.                          *)
LEMMA ObjFrame ==
  ASSUME ObjInv, NEW p \in Procs, NEW label, Moves(p, label), UNCHANGED objVars,
         HoldsReq(p)' => HoldsReq(p), HoldsResp(p)' => HoldsResp(p)
  PROVE  ObjInv'
<1>1. \A q \in Procs : (HoldsReq(q)' => HoldsReq(q)) /\ (HoldsResp(q)' => HoldsResp(q))
  BY DEF HoldsReq, HoldsResp, Moves
<1> QED
  BY <1>1 DEF ObjInv, NoAliasing, objVars

(* Nor do the contents of the objects in use change.                       *)
LEMMA ContentFrame ==
  ASSUME ContentInv, NEW p \in Procs, NEW label, Moves(p, label),
         UNCHANGED <<nread, outcome, req, resp, reqMem, respMem>>,
         HoldsReq(p)' => HoldsReq(p), HoldsResp(p)' => HoldsResp(p),
         p = Reader /\ label \in Responding => pc[p] \in Responding
  PROVE  ContentInv'
<1>1. \A q \in Procs : (HoldsReq(q)' => HoldsReq(q)) /\ (HoldsResp(q)' => HoldsResp(q))
  BY DEF HoldsReq, HoldsResp, Moves
<1>2. pc'[Reader] \in Responding => pc[Reader] \in Responding
  BY ProcFacts DEF Moves
<1>3. \A q \in Procs : Num(q)' = Num(q) /\ ErrorOf(Num(q))' = ErrorOf(Num(q))
  BY DEF Num, ErrorOf
<1> QED
  BY <1>1, <1>2, <1>3, ProcFacts DEF ContentInv

(* Nor does what is being written.                                         *)
LEMMA WriteFrame ==
  ASSUME WriteInv, NEW p \in Procs, NEW label, Moves(p, label), label # "body",
         UNCHANGED <<nread, outcome, sending, hdr>>
  PROVE  WriteInv'
BY DEF WriteInv, Moves, Num, ErrorOf

(* The stages in which the response has not been written yet.              *)
Unanswered == {"start", "run", "respond", "lock", "body"}

(* Before the body is written, and after, nothing changes in what has been *)
(* answered.                                                               *)
LEMMA SentFrame ==
  ASSUME TypeOK, SentInv, NEW p \in Procs, NEW label, Moves(p, label),
         pc[p] \in Unanswered => label \in Unanswered,
         pc[p] \in Unanswered \ {"start", "run"} => label \in Unanswered \ {"start", "run"},
         label \in {"start", "run"} => pc[p] \in {"start", "run"},
         UNCHANGED <<nread, outcome, sent, broken, dropped>>
  PROVE  SentInv'
<1>1. SentForm'
  BY DEF SentInv, SentForm
<1>2. \A n \in Handlers : sent[n] # {} => n <= nread /\ pc'[n] \notin {"start", "run"}
  BY ProcFacts DEF SentInv, Moves
<1>3. ASSUME NEW n \in 1 .. nread, sent[n] = {}, ~broken, n \notin dropped
      PROVE  \/ pc'[n] \in Unanswered
             \/ n = nread /\ pc'[Reader] \in {"respond", "lock", "body"}
  <2>1. n \in Handlers
    BY ServerAssumption DEF TypeOK, Handlers
  <2>2. \/ pc[n] \in Unanswered
        \/ n = nread /\ pc[Reader] \in Unanswered \ {"start", "run"}
    BY <1>3 DEF SentInv, Unanswered
  <2> QED
    BY <2>1, <2>2, ProcFacts DEF Moves, Unanswered
<1> QED
  BY <1>1, <1>2, <1>3 DEF SentInv, Unanswered

(* Nor does it change what the WaitGroup counts.                           *)
LEMMA CountFrame ==
  ASSUME CountInv, Active' = Active, UNCHANGED <<mode, wg>>
  PROVE  CountInv'
BY DEF CountInv, Concurrent

(* The header of a response has its type.                                  *)
LEMMA HeaderFacts ==
  ASSUME NEW n \in Handlers
  PROVE  /\ n \in 0 .. MaxReq /\ ErrorOf(n) \in 0 .. MaxReq
         /\ [seq |-> n, err |-> ErrorOf(n)] \in Headers
<1>1. n \in Nat /\ n \in 0 .. MaxReq /\ 0 \in 0 .. MaxReq
  BY ServerAssumption DEF Handlers
<1>2. ErrorOf(n) \in 0 .. MaxReq
  BY <1>1 DEF ErrorOf
<1> QED
  BY <1>1, <1>2 DEF Headers

-----------------------------------------------------------------------------
(* sendResponse and freeRequest *)

(* WriteHeader preserves the invariant: nobody else is between header and  *)
(* body, since the mutex is free.                                          *)
LEMMA WriteHeaderStep ==
  ASSUME ServerInv, NEW p \in Procs, WriteHeader(p)
  PROVE  ServerInv'
<1> USE DEF histVars, objVars, ctxVars
<1>0. /\ pc[p] = "lock" /\ sending = 0 /\ sending' = Num(p) /\ hdr' = respMem[resp[p]]
      /\ UNCHANGED <<histVars, outcome, objVars, ctxVars, sent, broken, dropped, wg, closed>>
      /\ Moves(p, "body")
  BY GotoFacts DEF WriteHeader, LockSending, NoOne, ServerInv
<1>a. pc[p] \in Responding /\ "body" \in Responding
  BY <1>0 DEF Responding
<1>b. TypeOK /\ StageInv /\ ObjInv /\ ContentInv /\ WriteInv /\ SentInv /\ CtxInv /\ CountInv
  BY DEF ServerInv
<1>c. Num(p) \in Handlers /\ hdr' = [seq |-> Num(p), err |-> ErrorOf(Num(p))]
  BY <1>0, <1>a, <1>b, NumFacts DEF ContentInv, HoldsResp
<1>1. TypeOK'
  <2>1. hdr' \in Headers /\ sending' \in 0 .. MaxReq
    BY <1>0, <1>c, HeaderFacts
  <2>2. pc' = [pc EXCEPT ![p] = "body"]
    BY DEF WriteHeader, Goto
  <2> QED
    BY <1>0, <1>b, <2>1, <2>2 DEF TypeOK
<1>2. StageInv' /\ Active' = Active
  BY <1>0, <1>a, <1>b, StageFrame, ProcFacts DEF Serving, Registered, Responding
<1>d. HoldsReq(p) /\ HoldsResp(p)
  BY <1>0 DEF HoldsReq, HoldsResp
<1>3. ObjInv'
  BY <1>0, <1>b, <1>d, ObjFrame
<1>4. ContentInv'
  BY <1>0, <1>a, <1>b, <1>d, ContentFrame
<1>5. WriteInv'
  <2>1. \A q \in Procs \ {p} : pc'[q] # "body"
    BY <1>0, <1>b, NumFacts, ProcFacts DEF WriteInv, Moves, Responding
  <2> QED
    BY <1>0, <1>c, <2>1 DEF WriteInv, Num, ErrorOf
<1>6. SentInv'
  BY <1>0, <1>b, SentFrame DEF Unanswered
<1>7. CtxInv'
  BY <1>0, <1>a, <1>b, CtxFrame, ProcFacts DEF Registered, Responding
<1>8. CountInv'
  BY <1>0, <1>b, <1>2, CountFrame
<1> QED
  BY <1>1, <1>2, <1>3, <1>4, <1>5, <1>6, <1>7, <1>8 DEF ServerInv

(* GetResponse preserves the invariant: the object it fills in is nobody   *)
(* else's.                                                                 *)
LEMMA GetResponseStep ==
  ASSUME ServerInv, NEW p \in Procs, GetResponse(p)
  PROVE  ServerInv'
<1> USE DEF histVars, ctxVars, outVars
<1> DEFINE value == [seq |-> Num(p), err |-> ErrorOf(Num(p))]
           i == resp'[p]
<1>0. /\ pc[p] = "respond" /\ Moves(p, "lock")
      /\ UNCHANGED <<histVars, outcome, req, reqMem, freeReq, ctxVars, outVars, wg, closed>>
  BY GotoFacts DEF GetResponse, ServerInv
<1>a. pc[p] \in Responding /\ "lock" \in Responding
  BY <1>0 DEF Responding
<1>b. TypeOK /\ StageInv /\ ObjInv /\ ContentInv /\ WriteInv /\ SentInv /\ CtxInv /\ CountInv
  BY DEF ServerInv
<1>c. Num(p) \in Handlers /\ reqMem[req[p]] = Num(p)
  BY <1>0, <1>a, <1>b, NumFacts, ProcFacts DEF ContentInv, HoldsReq, Num
<1>d. /\ Allocates(respMem, freeResp, value, respMem', freeResp', i)
      /\ resp' \in [Procs -> Nat] /\ \A q \in Procs \ {p} : resp'[q] = resp[q]
  <2>0. respMem \in Seq(Headers) /\ freeResp \in Seq(Nat) /\ resp \in [Procs -> Nat]
    BY <1>b DEF TypeOK
  <2>1. CASE freeResp = <<>>
    <3>1. /\ respMem' = Append(respMem, value) /\ resp' = [resp EXCEPT ![p] = Len(respMem')]
          /\ freeResp' = freeResp
      BY <1>c, <2>1 DEF GetResponse, ErrorOf
    <3>2. Len(respMem') \in Nat
      BY <1>c, <2>0, <3>1, HeaderFacts
    <3> QED
      BY <2>0, <2>1, <3>1, <3>2 DEF Allocates
  <2>2. CASE freeResp # <<>>
    <3>1. /\ respMem' = [respMem EXCEPT ![Head(freeResp)] = value]
          /\ resp' = [resp EXCEPT ![p] = Head(freeResp)] /\ freeResp' = Tail(freeResp)
      BY <1>c, <2>2 DEF GetResponse, ErrorOf, Header
    <3>2. Head(freeResp) \in Nat
      BY <2>0, <2>2, PopFacts
    <3> QED
      BY <2>0, <2>2, <3>1, <3>2 DEF Allocates
  <2> QED
    BY <2>1, <2>2
<1>e. /\ respMem' \in Seq(Headers) /\ freeResp' \in Seq(Nat)
      /\ i \in 1 .. Len(respMem') /\ respMem'[i] = value
      /\ 1 .. Len(respMem) \subseteq 1 .. Len(respMem')
      /\ \A j \in 1 .. Len(respMem) : j # i => respMem'[j] = respMem[j]
      /\ IsInjective(freeResp') /\ Range(freeResp') \subseteq Range(freeResp)
      /\ i \notin Range(freeResp')
      /\ i \in Range(freeResp) \/ i \notin 1 .. Len(respMem)
  <2>1. /\ respMem \in Seq(Headers) /\ freeResp \in Seq(Nat) /\ value \in Headers
        /\ IsInjective(freeResp) /\ Range(freeResp) \subseteq 1 .. Len(respMem)
    BY <1>b, <1>c, HeaderFacts DEF TypeOK, ObjInv, NoAliasing
  <2> HIDE DEF value, i
  <2> QED
    BY <1>d, <2>1, AllocFacts
<1>f. \A q \in Procs \ {p} : /\ HoldsResp(q)' <=> HoldsResp(q)
                             /\ HoldsResp(q) => resp'[q] \in 1 .. Len(respMem) /\ resp'[q] # i
  BY <1>0, <1>b, <1>d, <1>e DEF HoldsResp, Moves, ObjInv, NoAliasing
<1> HIDE DEF i
<1>1. TypeOK'
  <2>1. pc' = [pc EXCEPT ![p] = "lock"]
    BY DEF GetResponse, Goto
  <2> QED
    BY <1>0, <1>b, <1>d, <1>e, <2>1 DEF TypeOK
<1>2. StageInv' /\ Active' = Active
  BY <1>0, <1>a, <1>b, StageFrame, ProcFacts DEF Serving, Registered, Responding
<1>3. ObjInv'
  <2>1. \A q \in Procs : HoldsReq(q)' <=> HoldsReq(q)
    BY <1>0 DEF HoldsReq, Moves
  <2>2. \A q \in Procs : HoldsResp(q)' => resp'[q] \in 1 .. Len(respMem') /\ resp'[q] \notin Range(freeResp')
    BY <1>b, <1>d, <1>e, <1>f DEF ObjInv, NoAliasing, i
  <2>3. \A q, r \in Procs : q # r /\ HoldsResp(q)' /\ HoldsResp(r)' => resp'[q] # resp'[r]
    BY <1>b, <1>d, <1>f DEF ObjInv, NoAliasing, i
  <2> QED
    BY <1>0, <1>b, <1>e, <2>1, <2>2, <2>3 DEF ObjInv, NoAliasing
<1>4. ContentInv'
  <2>1. \A q \in Procs : Num(q)' = Num(q) /\ ErrorOf(Num(q))' = ErrorOf(Num(q))
    BY <1>0 DEF Num, ErrorOf
  <2>2. ASSUME NEW q \in Procs, HoldsResp(q)'
        PROVE  respMem'[resp'[q]] = [seq |-> Num(q), err |-> ErrorOf(Num(q))]
    <3>1. CASE q = p
      BY <1>d, <1>e, <3>1 DEF i
    <3>2. CASE q # p
      <4>1. HoldsResp(q) /\ resp'[q] = resp[q] /\ resp[q] \in 1 .. Len(respMem) /\ resp[q] # i
        BY <1>d, <1>f, <2>2, <3>2
      <4>2. respMem[resp[q]] = [seq |-> Num(q), err |-> ErrorOf(Num(q))]
        BY <1>b, <4>1 DEF ContentInv
      <4> QED
        BY <1>e, <4>1, <4>2
    <3> QED
      BY <3>1, <3>2
  <2>3. \A n \in Handlers : HoldsReq(n)' <=> HoldsReq(n)
    BY <1>0, ProcFacts DEF HoldsReq, Moves
  <2>4. pc'[Reader] \in Responding => pc[Reader] \in Responding
    BY <1>0, <1>a, ProcFacts DEF Moves
  <2> QED
    BY <1>0, <1>b, <2>1, <2>2, <2>3, <2>4 DEF ContentInv
<1>5. WriteInv'
  BY <1>0, <1>b, WriteFrame
<1>6. SentInv'
  BY <1>0, <1>b, SentFrame DEF Unanswered
<1>7. CtxInv'
  BY <1>0, <1>a, <1>b, CtxFrame, ProcFacts DEF Registered, Responding
<1>8. CountInv'
  BY <1>0, <1>b, <1>2, CountFrame
<1> QED
  BY <1>1, <1>2, <1>3, <1>4, <1>5, <1>6, <1>7, <1>8 DEF ServerInv

(* WriteBody preserves the invariant: header and body on the wire are of   *)
(* one request, and a broken connection stays broken.                      *)
LEMMA WriteBodyStep ==
  ASSUME ServerInv, NEW p \in Procs, NEW how \in {"sent", "dropped", "broken"},
         WriteBody(p, how)
  PROVE  ServerInv'
<1> USE DEF histVars, ctxVars
<1> DEFINE n == Num(p)
           written == [err |-> ErrorOf(n), body |-> Body(p)]
<1>0. /\ pc[p] = "body" /\ Moves(p, "freeResp") /\ sending' = 0 /\ hdr' = NoHeader
      /\ broken' = (how = "broken") /\ (how # "broken" => ~broken)
      /\ UNCHANGED <<histVars, outcome, objVars, ctxVars, wg, closed>>
  BY GotoFacts DEF WriteBody, ServerInv, NoOne
<1>a. pc[p] \in Responding /\ "freeResp" \in Responding
  BY <1>0 DEF Responding
<1>b. TypeOK /\ StageInv /\ ObjInv /\ ContentInv /\ WriteInv /\ SentInv /\ CtxInv /\ CountInv
  BY DEF ServerInv
<1>c. n \in Handlers /\ n \in 1 .. nread /\ hdr.seq = n /\ hdr.err = ErrorOf(n)
  BY <1>0, <1>a, <1>b, NumFacts DEF WriteInv
<1>d. HoldsReq(p) /\ HoldsResp(p)
  BY <1>0 DEF HoldsReq, HoldsResp
<1>e. /\ sent' = IF how = "sent" THEN [sent EXCEPT ![n] = @ \cup {written}] ELSE sent
      /\ dropped' = IF how = "dropped" THEN dropped \cup {n} ELSE dropped
  BY <1>c DEF WriteBody
<1>f. written = IF outcome[n] = "err" THEN [err |-> n, body |-> 0] ELSE [err |-> 0, body |-> n]
  BY DEF ErrorOf, Body
<1>g. sent \in [Handlers -> SUBSET [err : 0 .. MaxReq, body : 0 .. MaxReq]]
  BY <1>b DEF TypeOK
<1> HIDE DEF n, written
<1>1. TypeOK'
  <2>1. pc' = [pc EXCEPT ![p] = "freeResp"]
    BY DEF WriteBody, Goto
  <2>2. n \in 0 .. MaxReq /\ 0 \in 0 .. MaxReq
    BY <1>c, ServerAssumption DEF Handlers
  <2>3. sent' \in [Handlers -> SUBSET [err : 0 .. MaxReq, body : 0 .. MaxReq]]
    BY <1>c, <1>e, <1>f, <1>g, <2>2
  <2>4. hdr' \in Headers /\ sending' \in 0 .. MaxReq
    BY <1>0, <2>2 DEF NoHeader, Headers
  <2> QED
    BY <1>0, <1>b, <1>c, <1>e, <2>1, <2>3, <2>4 DEF TypeOK, objVars
<1>2. StageInv' /\ Active' = Active
  BY <1>0, <1>a, <1>b, StageFrame, ProcFacts DEF Serving, Registered, Responding
<1>3. ObjInv'
  BY <1>0, <1>b, <1>d, ObjFrame
<1>4. ContentInv'
  BY <1>0, <1>a, <1>b, <1>d, ContentFrame DEF objVars
<1>5. WriteInv'
  <2>1. \A q \in Procs \ {p} : pc[q] # "body"
    BY <1>0, <1>b, NumFacts DEF WriteInv, Responding
  <2> QED
    BY <1>0, <2>1 DEF WriteInv, Moves
<1>6. SentInv'
  <2>1. SentForm'
    BY <1>0, <1>b, <1>c, <1>e, <1>f, <1>g DEF SentInv, SentForm
  <2>2. pc'[n] \notin {"start", "run"}
    BY <1>0, <1>b, <1>c, ProcFacts DEF StageInv, Moves, n, Num, Responding
  <2>3. \A m \in Handlers : m # n => sent'[m] = sent[m]
    BY <1>c, <1>e, <1>g
  <2>4. ASSUME NEW m \in Handlers, sent'[m] # {}
        PROVE  m <= nread /\ pc'[m] \notin {"start", "run"}
    <3>1. CASE m = n
      BY <1>b, <1>c, <2>2, <3>1 DEF TypeOK
    <3>2. CASE m # n
      BY <1>0, <1>b, <2>3, <2>4, <3>2, ProcFacts DEF SentInv, Moves
    <3> QED
      BY <3>1, <3>2
  <2>5. ASSUME NEW m \in 1 .. nread, sent'[m] = {}, ~broken', m \notin dropped'
        PROVE  \/ pc'[m] \in Unanswered
               \/ m = nread /\ pc'[Reader] \in {"respond", "lock", "body"}
    <3>0. m \in Handlers
      BY <1>b, ServerAssumption DEF TypeOK, Handlers
    <3>1. how \in {"sent", "dropped"} /\ ~broken /\ m \notin dropped
      BY <1>0, <1>e, <2>5
    <3>2. m # n
      BY <1>c, <1>e, <1>g, <2>5, <3>1
    <3>3. sent[m] = {}
      BY <2>3, <2>5, <3>0, <3>2
    <3>4. \/ pc[m] \in Unanswered
          \/ m = nread /\ pc[Reader] \in {"respond", "lock", "body"}
      BY <1>b, <3>1, <3>3 DEF SentInv, Unanswered
    <3>5. p # m /\ (m = nread => p # Reader)
      BY <3>0, <3>2, ProcFacts DEF n, Num
    <3> QED
      BY <1>0, <3>0, <3>4, <3>5, ProcFacts DEF Moves
  <2> QED
    BY <1>0, <2>1, <2>4, <2>5 DEF SentInv, Unanswered
<1>7. CtxInv'
  BY <1>0, <1>a, <1>b, CtxFrame, ProcFacts DEF Registered, Responding
<1>8. CountInv'
  BY <1>0, <1>b, <1>2, CountFrame
<1> QED
  BY <1>1, <1>2, <1>3, <1>4, <1>5, <1>6, <1>7, <1>8 DEF ServerInv

(* FreeResponse preserves the invariant: the object was in use, hence not  *)
(* on the list, and now nobody uses it.                                    *)
LEMMA FreeResponseStep ==
  ASSUME ServerInv, NEW p \in Procs, FreeResponse(p)
  PROVE  ServerInv'
<1> USE DEF histVars, ctxVars, outVars
<1>0. /\ pc[p] = "freeResp" /\ Moves(p, "freeReq") /\ freeResp' = Freed(resp[p], freeResp)
      /\ resp' = [resp EXCEPT ![p] = 0]
      /\ UNCHANGED <<histVars, outcome, req, reqMem, respMem, freeReq, ctxVars, outVars, wg, closed>>
  BY GotoFacts DEF FreeResponse, ServerInv
<1>a. pc[p] \in Responding /\ "freeReq" \in Responding
  BY <1>0 DEF Responding
<1>b. TypeOK /\ StageInv /\ ObjInv /\ ContentInv /\ WriteInv /\ SentInv /\ CtxInv /\ CountInv
  BY DEF ServerInv
<1>c. /\ resp \in [Procs -> Nat] /\ freeResp \in Seq(Nat)
      /\ resp[p] \in 1 .. Len(respMem) /\ resp[p] \notin Range(freeResp) /\ IsInjective(freeResp)
  BY <1>0, <1>b DEF TypeOK, ObjInv, NoAliasing, HoldsResp
<1>d. /\ freeResp' \in Seq(Nat) /\ IsInjective(freeResp')
      /\ Range(freeResp') = Range(freeResp) \cup {resp[p]}
  BY <1>0, <1>c, PushFacts
<1>e. \A q \in Procs : /\ HoldsReq(q)' <=> HoldsReq(q)
                       /\ HoldsResp(q)' => HoldsResp(q) /\ q # p /\ resp'[q] = resp[q]
  BY <1>0, <1>c DEF HoldsReq, HoldsResp, Moves
<1>1. TypeOK'
  <2>1. pc' = [pc EXCEPT ![p] = "freeReq"]
    BY DEF FreeResponse, Goto
  <2> QED
    BY <1>0, <1>b, <1>c, <1>d, <2>1 DEF TypeOK
<1>2. StageInv' /\ Active' = Active
  BY <1>0, <1>a, <1>b, StageFrame, ProcFacts DEF Serving, Registered, Responding
<1>3. ObjInv'
  <2>1. HoldsResp(p)
    BY <1>0 DEF HoldsResp
  <2>2. \A q \in Procs : HoldsResp(q)' => /\ resp'[q] \in 1 .. Len(respMem)
                                          /\ resp'[q] \notin Range(freeResp')
    BY <1>b, <1>d, <1>e, <2>1 DEF ObjInv, NoAliasing
  <2>3. \A q, r \in Procs : q # r /\ HoldsResp(q)' /\ HoldsResp(r)' => resp'[q] # resp'[r]
    BY <1>b, <1>e DEF ObjInv, NoAliasing
  <2> QED
    BY <1>0, <1>b, <1>c, <1>d, <1>e, <2>2, <2>3 DEF ObjInv, NoAliasing
<1>4. ContentInv'
  <2>1. \A q \in Procs : Num(q)' = Num(q) /\ ErrorOf(Num(q))' = ErrorOf(Num(q))
    BY <1>0 DEF Num, ErrorOf
  <2>2. pc'[Reader] \in Responding => pc[Reader] \in Responding
    BY <1>0, <1>a, ProcFacts DEF Moves
  <2> QED
    BY <1>0, <1>b, <1>e, <2>1, <2>2, ProcFacts DEF ContentInv
<1>5. WriteInv'
  BY <1>0, <1>b, WriteFrame
<1>6. SentInv'
  BY <1>0, <1>b, SentFrame DEF Unanswered
<1>7. CtxInv'
  BY <1>0, <1>a, <1>b, CtxFrame, ProcFacts DEF Registered, Responding
<1>8. CountInv'
  BY <1>0, <1>b, <1>2, CountFrame
<1> QED
  BY <1>1, <1>2, <1>3, <1>4, <1>5, <1>6, <1>7, <1>8 DEF ServerInv

(* FreeRequest preserves the invariant, for the same reason.               *)
LEMMA FreeRequestStep ==
  ASSUME ServerInv, NEW p \in Procs, FreeRequest(p)
  PROVE  ServerInv'
<1> USE DEF histVars, ctxVars, outVars
<1> DEFINE label == IF p = Reader THEN "loop" ELSE "cancel"
<1>0. /\ pc[p] = "freeReq" /\ Moves(p, label) /\ freeReq' = Freed(req[p], freeReq)
      /\ UNCHANGED <<histVars, outcome, req, resp, reqMem, respMem, freeResp, ctxVars, outVars, wg, closed>>
  BY GotoFacts DEF FreeRequest, ServerInv
<1>b. TypeOK /\ StageInv /\ ObjInv /\ ContentInv /\ WriteInv /\ SentInv /\ CtxInv /\ CountInv
  BY DEF ServerInv
<1>c. /\ freeReq \in Seq(Nat) /\ req[p] \in Nat
      /\ req[p] \in 1 .. Len(reqMem) /\ req[p] \notin Range(freeReq) /\ IsInjective(freeReq)
  BY <1>0, <1>b DEF TypeOK, ObjInv, NoAliasing, HoldsReq
<1>d. /\ freeReq' \in Seq(Nat) /\ IsInjective(freeReq')
      /\ Range(freeReq') = Range(freeReq) \cup {req[p]}
  BY <1>0, <1>c, PushFacts
<1>e. \A q \in Procs : /\ HoldsResp(q)' <=> HoldsResp(q)
                       /\ HoldsReq(q)' => HoldsReq(q) /\ q # p
  BY <1>0 DEF HoldsReq, HoldsResp, Moves
<1>1. TypeOK'
  <2>1. pc' = [pc EXCEPT ![p] = label]
    BY DEF FreeRequest, Goto
  <2> QED
    BY <1>0, <1>b, <1>c, <1>d, <2>1 DEF TypeOK
<1>2. StageInv' /\ Active' = Active
  BY <1>0, <1>b, StageFrame, ProcFacts DEF Serving, Registered, Responding
<1>3. ObjInv'
  <2>1. HoldsReq(p)
    BY <1>0 DEF HoldsReq
  <2>2. \A q \in Procs : HoldsReq(q)' => req[q] \notin Range(freeReq')
    BY <1>b, <1>d, <1>e, <2>1 DEF ObjInv, NoAliasing
  <2> QED
    BY <1>0, <1>b, <1>c, <1>d, <1>e, <2>2 DEF ObjInv, NoAliasing
<1>4. ContentInv'
  BY <1>0, <1>b, <1>e, ContentFrame DEF Responding
<1>5. WriteInv'
  BY <1>0, <1>b, WriteFrame
<1>6. SentInv'
  BY <1>0, <1>b, SentFrame DEF Unanswered
<1>7. CtxInv'
  BY <1>0, <1>b, CtxFrame, ProcFacts DEF Registered, Responding
<1>8. CountInv'
  BY <1>0, <1>b, <1>2, CountFrame
<1> QED
  BY <1>1, <1>2, <1>3, <1>4, <1>5, <1>6, <1>7, <1>8 DEF ServerInv

-----------------------------------------------------------------------------
(* ServeCodec and ServeRequestContext *)

(* GetRequest preserves the invariant: the object is nobody else's.        *)
LEMMA GetRequestStep ==
  ASSUME ServerInv, GetRequest
  PROVE  ServerInv'
<1> USE DEF histVars, ctxVars, outVars
<1> DEFINE i == req'[Reader]
<1>0. /\ pc[Reader] = "loop" /\ Moves(Reader, "header")
      /\ UNCHANGED <<histVars, outcome, resp, respMem, freeResp, ctxVars, outVars, wg, closed>>
  BY GotoFacts, ProcFacts DEF GetRequest, ServerInv
<1>b. TypeOK /\ StageInv /\ ObjInv /\ ContentInv /\ WriteInv /\ SentInv /\ CtxInv /\ CountInv
  BY DEF ServerInv
<1>d. /\ Allocates(reqMem, freeReq, 0, reqMem', freeReq', i)
      /\ req' \in [Procs -> Nat] /\ \A q \in Handlers : req'[q] = req[q]
  <2>0. reqMem \in Seq(Nat) /\ freeReq \in Seq(Nat) /\ req \in [Procs -> Nat]
    BY <1>b DEF TypeOK
  <2>1. CASE freeReq = <<>>
    <3>1. /\ reqMem' = Append(reqMem, 0) /\ req' = [req EXCEPT ![Reader] = Len(reqMem')]
          /\ freeReq' = freeReq
      BY <2>1 DEF GetRequest
    <3>2. Len(reqMem') \in Nat
      BY <2>0, <3>1
    <3> QED
      BY <2>0, <2>1, <3>1, <3>2, ProcFacts DEF Allocates
  <2>2. CASE freeReq # <<>>
    <3>1. /\ reqMem' = [reqMem EXCEPT ![Head(freeReq)] = 0]
          /\ req' = [req EXCEPT ![Reader] = Head(freeReq)] /\ freeReq' = Tail(freeReq)
      BY <2>2 DEF GetRequest
    <3>2. Head(freeReq) \in Nat
      BY <2>0, <2>2, PopFacts
    <3> QED
      BY <2>0, <2>2, <3>1, <3>2, ProcFacts DEF Allocates
  <2> QED
    BY <2>1, <2>2
<1>e. /\ reqMem' \in Seq(Nat) /\ freeReq' \in Seq(Nat)
      /\ i \in 1 .. Len(reqMem')
      /\ 1 .. Len(reqMem) \subseteq 1 .. Len(reqMem')
      /\ \A j \in 1 .. Len(reqMem) : j # i => reqMem'[j] = reqMem[j]
      /\ IsInjective(freeReq') /\ Range(freeReq') \subseteq Range(freeReq)
      /\ i \notin Range(freeReq')
      /\ i \in Range(freeReq) \/ i \notin 1 .. Len(reqMem)
  <2> DEFINE T == Nat
  <2>1. /\ reqMem \in Seq(T) /\ freeReq \in Seq(Nat) /\ 0 \in T
        /\ IsInjective(freeReq) /\ Range(freeReq) \subseteq 1 .. Len(reqMem)
    BY <1>b DEF TypeOK, ObjInv, NoAliasing
  <2> HIDE DEF i, T
  <2>2. /\ reqMem' \in Seq(T) /\ freeReq' \in Seq(Nat)
        /\ i \in 1 .. Len(reqMem')
        /\ 1 .. Len(reqMem) \subseteq 1 .. Len(reqMem')
        /\ \A j \in 1 .. Len(reqMem) : j # i => reqMem'[j] = reqMem[j]
        /\ IsInjective(freeReq') /\ Range(freeReq') \subseteq Range(freeReq)
        /\ i \notin Range(freeReq')
        /\ i \in Range(freeReq) \/ i \notin 1 .. Len(reqMem)
    BY <1>d, <2>1, AllocFacts
  <2> QED
    BY <2>2 DEF T
<1>f. \A q \in Handlers : /\ HoldsReq(q)' <=> HoldsReq(q)
                          /\ HoldsReq(q) => req'[q] \in 1 .. Len(reqMem) /\ req'[q] # i
  <2>1. \A q \in Handlers : q \in Procs /\ q # Reader /\ req'[q] = req[q]
    BY <1>d, ProcFacts
  <2>2. \A q \in Handlers : HoldsReq(q)' <=> HoldsReq(q)
    BY <1>0, <2>1 DEF HoldsReq, Moves
  <2>3. \A q \in Handlers : HoldsReq(q) => req[q] \in 1 .. Len(reqMem) /\ req[q] \notin Range(freeReq)
    BY <1>b, <2>1 DEF ObjInv, NoAliasing
  <2> HIDE DEF i
  <2> QED
    BY <1>e, <2>1, <2>2, <2>3
<1> HIDE DEF i
<1>1. TypeOK'
  <2>1. pc' = [pc EXCEPT ![Reader] = "header"]
    BY DEF GetRequest, Goto
  <2> QED
    BY <1>0, <1>b, <1>d, <1>e, <2>1 DEF TypeOK
<1>2. StageInv' /\ Active' = Active
  BY <1>0, <1>b, StageFrame, ProcFacts DEF Responding
<1>3. ObjInv'
  <2>1. \A q \in Procs : HoldsResp(q)' <=> HoldsResp(q)
    BY <1>0 DEF HoldsResp, Moves
  <2>2. \A q \in Procs : HoldsReq(q)' => req'[q] \in 1 .. Len(reqMem') /\ req'[q] \notin Range(freeReq')
    BY <1>b, <1>d, <1>e, <1>f, ProcFacts DEF ObjInv, NoAliasing, i
  <2>3. \A q, r \in Procs : q # r /\ HoldsReq(q)' /\ HoldsReq(r)' => req'[q] # req'[r]
    BY <1>b, <1>d, <1>f, ProcFacts DEF ObjInv, NoAliasing, i
  <2> QED
    BY <1>0, <1>b, <1>e, <2>1, <2>2, <2>3 DEF ObjInv, NoAliasing
<1>4. ContentInv'
  <2>1. \A q \in Procs : /\ Num(q)' = Num(q) /\ ErrorOf(Num(q))' = ErrorOf(Num(q))
                         /\ HoldsResp(q)' <=> HoldsResp(q)
    BY <1>0 DEF Num, ErrorOf, HoldsResp, Moves
  <2>2. pc'[Reader] \notin Responding
    BY <1>0 DEF Moves, Responding
  <2>3. ASSUME NEW n \in Handlers, HoldsReq(n)' PROVE reqMem'[req'[n]] = n
    <3>1. HoldsReq(n) /\ req'[n] = req[n] /\ req[n] \in 1 .. Len(reqMem) /\ req[n] # i
      BY <1>d, <1>f, <2>3, ProcFacts
    <3>2. reqMem[req[n]] = n
      BY <1>b, <3>1 DEF ContentInv
    <3> QED
      BY <1>e, <3>1, <3>2
  <2> QED
    BY <1>0, <1>b, <2>1, <2>2, <2>3 DEF ContentInv
<1>5. WriteInv'
  BY <1>0, <1>b, WriteFrame, ProcFacts
<1>6. SentInv'
  BY <1>0, <1>b, SentFrame, ProcFacts DEF Unanswered
<1>7. CtxInv'
  BY <1>0, <1>b, CtxFrame, ProcFacts
<1>8. CountInv'
  BY <1>0, <1>b, <1>2, CountFrame
<1> QED
  BY <1>1, <1>2, <1>3, <1>4, <1>5, <1>6, <1>7, <1>8 DEF ServerInv

(* HeaderFails preserves the invariant.                                    *)
LEMMA HeaderFailsStep ==
  ASSUME ServerInv, HeaderFails
  PROVE  ServerInv'
<1> USE DEF histVars, ctxVars, outVars, objVars
<1> DEFINE label == IF Concurrent THEN "wait" ELSE "done"
<1>0. /\ pc[Reader] = "header" /\ Moves(Reader, label)
      /\ UNCHANGED <<histVars, outcome, objVars, ctxVars, outVars, wg, closed>>
  BY GotoFacts, ProcFacts DEF HeaderFails, ServerInv
<1>a. label \in {"wait", "done"}
  OBVIOUS
<1>b. TypeOK /\ StageInv /\ ObjInv /\ ContentInv /\ WriteInv /\ SentInv /\ CtxInv /\ CountInv
  BY DEF ServerInv
<1>c. ~HoldsReq(Reader)' /\ ~HoldsResp(Reader)'
  BY <1>0, <1>a DEF HoldsReq, HoldsResp, Moves
<1>1. TypeOK'
  <2>1. pc' = [pc EXCEPT ![Reader] = label]
    BY DEF HeaderFails, Goto
  <2> QED
    BY <1>0, <1>a, <1>b, <2>1 DEF TypeOK
<1> HIDE DEF label
<1>2. StageInv' /\ Active' = Active
  BY <1>0, <1>a, <1>b, StageFrame, ProcFacts DEF Responding
<1>3. ObjInv'
  BY <1>0, <1>b, <1>c, ObjFrame, ProcFacts
<1>4. ContentInv'
  BY <1>0, <1>a, <1>b, <1>c, ContentFrame, ProcFacts DEF Responding
<1>5. WriteInv'
  BY <1>0, <1>a, <1>b, WriteFrame, ProcFacts
<1>6. SentInv'
  BY <1>0, <1>a, <1>b, SentFrame, ProcFacts DEF Unanswered
<1>7. CtxInv'
  BY <1>0, <1>b, CtxFrame, ProcFacts
<1>8. CountInv'
  BY <1>0, <1>b, <1>2, CountFrame
<1> QED
  BY <1>1, <1>2, <1>3, <1>4, <1>5, <1>6, <1>7, <1>8 DEF ServerInv

(* The handlers are finitely many, and so are those at work.               *)
LEMMA ActiveFinite ==
  IsFiniteSet(Active) /\ Cardinality(Active) \in Nat /\ (Cardinality(Active) = 0 <=> Active = {})
<1>1. IsFiniteSet(Handlers)
  BY FS_Interval, ServerAssumption DEF Handlers
<1>2. Active \subseteq Handlers
  BY DEF Active
<1>3. IsFiniteSet(Active)
  BY <1>1, <1>2, FS_Subset
<1> QED
  BY <1>3, FS_CardinalityType, FS_EmptySet

(* Ending the parent of the contexts does not break what is known of them. *)
LEMMA CancelParentFrame ==
  ASSUME TypeOK, CtxInv, CancelParent, UNCHANGED <<nread, asked, pending, deferred>>,
         \A n \in Handlers : pc'[n] = pc[n]
  PROVE  CtxInv' /\ ctxDone' \subseteq Handlers /\ parentDone' \in BOOLEAN
<1>1. \A n \in Range(pending) : n \in Handlers /\ pc[n] \in Registered
  BY DEF CtxInv, Range
<1>2. ctxDone' = ctxDone \cup Range(pending) /\ parentDone' = TRUE /\ ctxDone \subseteq Handlers
  BY DEF CancelParent, TypeOK
<1>3. \A n \in ctxDone' : n \in Handlers /\ pc'[n] \notin {"none", "start"}
  BY <1>1, <1>2 DEF CtxInv, Registered, Responding
<1> QED
  BY <1>2, <1>3 DEF CtxInv, CanceledByRequest

(* CloseCodec preserves the invariant: when the WaitGroup is at zero no    *)
(* handler is at work.                                                     *)
LEMMA CloseCodecStep ==
  ASSUME ServerInv, CloseCodec
  PROVE  ServerInv'
<1> USE DEF histVars, outVars, objVars
<1>0. /\ pc[Reader] = "wait" /\ wg = 0 /\ closed' = TRUE /\ Moves(Reader, "done")
      /\ CancelParent
      /\ UNCHANGED <<histVars, outcome, objVars, pending, deferred, outVars, wg>>
  BY GotoFacts, ProcFacts DEF CloseCodec, ServerInv
<1>b. TypeOK /\ StageInv /\ ObjInv /\ ContentInv /\ WriteInv /\ SentInv /\ CtxInv /\ CountInv
  BY DEF ServerInv
<1>c. ~HoldsReq(Reader)' /\ ~HoldsResp(Reader)'
  BY <1>0 DEF HoldsReq, HoldsResp, Moves
<1>d. \A n \in Handlers : pc'[n] = pc[n]
  BY <1>0, ProcFacts DEF Moves
<1>7. CtxInv' /\ ctxDone' \subseteq Handlers /\ parentDone' \in BOOLEAN
  BY <1>0, <1>b, <1>d, CancelParentFrame
<1>1. TypeOK'
  <2>1. pc' = [pc EXCEPT ![Reader] = "done"]
    BY DEF CloseCodec, Goto
  <2> QED
    BY <1>0, <1>b, <1>7, <2>1 DEF TypeOK
<1>2. StageInv' /\ Active' = Active
  <2>1. Active' = Active
    BY <1>d DEF Active
  <2>2. Active = {}
    BY <1>0, <1>b, ActiveFinite DEF StageInv, CountInv
  <2>3. pc'[Reader] = "done"
    BY <1>0 DEF Moves
  <2> QED
    BY <1>0, <1>b, <1>d, <2>1, <2>2, <2>3 DEF StageInv, Responding
<1>3. ObjInv'
  BY <1>0, <1>b, <1>c, ObjFrame, ProcFacts
<1>4. ContentInv'
  BY <1>0, <1>b, <1>c, ContentFrame, ProcFacts DEF Responding
<1>5. WriteInv'
  BY <1>0, <1>b, WriteFrame, ProcFacts
<1>6. SentInv'
  BY <1>0, <1>b, SentFrame, ProcFacts DEF Unanswered
<1>8. CountInv'
  BY <1>0, <1>b, <1>2, CountFrame
<1> QED
  BY <1>1, <1>2, <1>3, <1>4, <1>5, <1>6, <1>7, <1>8 DEF ServerInv

(* Steps in which no goroutine moves concern the contexts only.            *)
LEMMA IdleFrame ==
  ASSUME StageInv, ObjInv, ContentInv, WriteInv, SentInv, CountInv,
         UNCHANGED <<pc, histVars, outcome, objVars, outVars, wg, closed>>
  PROVE  /\ StageInv' /\ ObjInv' /\ ContentInv' /\ WriteInv' /\ SentInv' /\ CountInv'
<1> USE DEF histVars, outVars, objVars
<1>1. Active' = Active /\ (Concurrent' <=> Concurrent)
  BY DEF Active, Concurrent
<1>2. StageInv' /\ CountInv'
  BY <1>1 DEF StageInv, CountInv
<1>3. ObjInv'
  BY DEF ObjInv, NoAliasing, HoldsReq, HoldsResp
<1>4. ContentInv'
  BY DEF ContentInv, HoldsReq, HoldsResp, Num, ErrorOf
<1>5. WriteInv' /\ SentInv'
  BY DEF WriteInv, SentInv, SentForm, Num, ErrorOf
<1> QED
  BY <1>2, <1>3, <1>4, <1>5

(* ParentEnds preserves the invariant.                                     *)
LEMMA ParentEndsStep ==
  ASSUME ServerInv, ParentEnds
  PROVE  ServerInv'
<1> USE DEF histVars, outVars, objVars
<1>0. /\ CancelParent
      /\ UNCHANGED <<pc, histVars, outcome, objVars, pending, deferred, outVars, wg, closed>>
  BY DEF ParentEnds
<1>b. TypeOK /\ StageInv /\ ObjInv /\ ContentInv /\ WriteInv /\ SentInv /\ CtxInv /\ CountInv
  BY DEF ServerInv
<1>1. CtxInv' /\ ctxDone' \subseteq Handlers /\ parentDone' \in BOOLEAN
  BY <1>0, <1>b, CancelParentFrame
<1>2. TypeOK'
  BY <1>0, <1>b, <1>1 DEF TypeOK
<1>3. StageInv' /\ ObjInv' /\ ContentInv' /\ WriteInv' /\ SentInv' /\ CountInv'
  BY <1>0, <1>b, IdleFrame
<1> QED
  BY <1>1, <1>2, <1>3 DEF ServerInv

(* So does a step that changes nothing.                                    *)
LEMMA StutterStep ==
  ASSUME ServerInv, UNCHANGED vars
  PROVE  ServerInv'
<1> USE DEF vars, histVars, outVars, objVars, ctxVars
<1>1. TypeOK'
  BY DEF ServerInv, TypeOK
<1>2. CtxInv'
  BY DEF ServerInv, CtxInv, CanceledByRequest
<1> QED
  BY <1>1, <1>2, IdleFrame DEF ServerInv

-----------------------------------------------------------------------------
(* A request arrives *)

(* The next request has no goroutine and no response yet, its header is    *)
(* decoded into an object no handler uses, and with ServeRequestContext no *)
(* handler is at work.                                                     *)
FreshRequest(k) ==
  /\ nread \in Nat /\ nread' = k /\ k = nread + 1 /\ k \in 0 .. MaxReq /\ k > 0
  /\ \A m \in 1 .. k : m = k \/ m \in 1 .. nread
  /\ \A m \in 1 .. nread : m \in Handlers /\ m # k /\ m \in 1 .. k
  /\ \A n \in Handlers : (n > k => n > nread /\ n # k) /\ (n <= nread => n <= k /\ n # k)
  /\ pc[Reader] = "header" /\ pc[k] = "none" /\ sent[k] = {}
  /\ asked' \in [Handlers -> {"none", "quick", "wait", "cancel", "bad"} \X (0 .. MaxReq)]
  /\ \A m \in 1 .. nread : asked'[m] = asked[m]
  /\ reqMem' \in Seq(Nat) /\ Len(reqMem') = Len(reqMem)
  /\ req[Reader] \in 1 .. Len(reqMem) /\ reqMem'[req[Reader]] = k
  /\ \A j \in 1 .. Len(reqMem) : j # req[Reader] => reqMem'[j] = reqMem[j]
  /\ \A n \in Handlers : HoldsReq(n) => req[n] # req[Reader]
  /\ Concurrent \/ Active = {}
  /\ ~closed

(* That is what arrives.                                                   *)
LEMMA ArrivesFacts ==
  ASSUME ServerInv, NEW op \in {"quick", "wait", "cancel", "bad"}, NEW target \in 0 .. MaxReq,
         Arrives(op, target)
  PROVE  \E k \in Handlers : FreshRequest(k)
<1>b. TypeOK /\ StageInv /\ ObjInv /\ ContentInv /\ WriteInv /\ SentInv /\ CtxInv /\ CountInv
  BY DEF ServerInv
<1>0. nread < MaxReq /\ nread \in Nat /\ nread + 1 \in Handlers
  BY <1>b, ServerAssumption DEF Arrives, TypeOK, Handlers
<1>k. PICK k \in Handlers : k = nread + 1
  BY <1>0
<1>1. /\ pc[Reader] = "header" /\ nread' = k
      /\ asked' = [asked EXCEPT ![k] = <<op, target>>]
      /\ reqMem' = [reqMem EXCEPT ![req[Reader]] = k]
  BY <1>k DEF Arrives
<1>2. k \in 0 .. MaxReq /\ k > nread /\ k \in Nat
  BY <1>0, <1>k, ServerAssumption DEF Handlers
<1>3. pc[k] = "none"
  BY <1>b, <1>2 DEF StageInv
<1>4. sent[k] = {}
  BY <1>0, <1>b, <1>2 DEF SentInv
<1>11. /\ \A m \in 1 .. k : m = k \/ m \in 1 .. nread
       /\ \A m \in 1 .. nread : m \in Handlers /\ m # k /\ m \in 1 .. k
       /\ \A n \in Handlers : (n > k => n > nread /\ n # k) /\ (n <= nread => n <= k /\ n # k)
  BY <1>0, <1>k, <1>2, ServerAssumption DEF Handlers
<1>5. /\ asked' \in [Handlers -> {"none", "quick", "wait", "cancel", "bad"} \X (0 .. MaxReq)]
      /\ \A m \in 1 .. nread : asked'[m] = asked[m]
  <2>1. asked \in [Handlers -> {"none", "quick", "wait", "cancel", "bad"} \X (0 .. MaxReq)]
    BY <1>b DEF TypeOK
  <2>2. <<op, target>> \in {"none", "quick", "wait", "cancel", "bad"} \X (0 .. MaxReq)
    OBVIOUS
  <2> QED
    BY <1>1, <1>11, <2>1, <2>2
<1>6. HoldsReq(Reader)
  BY <1>1 DEF HoldsReq
<1>7. req[Reader] \in 1 .. Len(reqMem) /\ reqMem \in Seq(Nat)
  BY <1>b, <1>6, ProcFacts DEF ObjInv, TypeOK
<1>8. /\ reqMem' \in Seq(Nat) /\ Len(reqMem') = Len(reqMem) /\ reqMem'[req[Reader]] = k
      /\ \A j \in 1 .. Len(reqMem) : j # req[Reader] => reqMem'[j] = reqMem[j]
  BY <1>1, <1>2, <1>7
<1>9. \A n \in Handlers : HoldsReq(n) => req[n] # req[Reader]
  BY <1>b, <1>6, ProcFacts DEF ObjInv, NoAliasing
<1>10. (Concurrent \/ Active = {}) /\ ~closed
  BY <1>b, <1>1 DEF StageInv
<1>12. k > 0
  BY <1>0, <1>2
<1> QED
  BY <1>0, <1>k, <1>1, <1>2, <1>3, <1>4, <1>5, <1>7, <1>8, <1>9, <1>10, <1>11, <1>12
  DEF FreshRequest

(* A new request cancels nothing by its arrival.                           *)
LEMMA CanceledFrame ==
  ASSUME CanceledByRequest, NEW k, FreshRequest(k), UNCHANGED <<ctxDone, parentDone>>,
         \A n \in ctxDone : pc'[n] = "run" => pc[n] = "run"
  PROVE  CanceledByRequest'
<1> SUFFICES ASSUME NEW n \in ctxDone, pc'[n] = "run", ~parentDone
             PROVE  \E m \in 1 .. nread' : asked'[m] = <<"cancel", n>>
  BY DEF CanceledByRequest
<1>1. PICK m \in 1 .. nread : asked[m] = <<"cancel", n>>
  BY DEF CanceledByRequest
<1>2. m \in 1 .. nread' /\ asked'[m] = asked[m]
  BY DEF FreshRequest
<1> QED
  BY <1>1, <1>2

(* BadRequest preserves the invariant: the reader answers the request      *)
(* nobody else works on.                                                   *)
LEMMA BadRequestStep ==
  ASSUME ServerInv, BadRequest
  PROVE  ServerInv'
<1> USE DEF ctxVars, outVars
<1>0. /\ pc[Reader] = "header" /\ Moves(Reader, "respond")
      /\ outcome' = [outcome EXCEPT ![nread'] = "err"]
      /\ UNCHANGED <<mode, req, resp, respMem, freeReq, freeResp, ctxVars, outVars, wg, closed>>
  BY GotoFacts, ProcFacts DEF BadRequest, Arrives, ServerInv
<1>b. TypeOK /\ StageInv /\ ObjInv /\ ContentInv /\ WriteInv /\ SentInv /\ CtxInv /\ CountInv
  BY DEF ServerInv
<1>c. PICK k \in Handlers : FreshRequest(k)
  <2>1. Arrives("bad", 0) /\ 0 \in 0 .. MaxReq
    BY ServerAssumption DEF BadRequest
  <2> QED
    BY <2>1, ArrivesFacts
<1> USE DEF FreshRequest
<1>d. \A n \in Handlers : pc'[n] = pc[n]
  BY <1>0, ProcFacts DEF Moves
<1>e. \A n \in Handlers : pc[n] # "none" => n # k /\ outcome'[n] = outcome[n]
  BY <1>0, <1>b, <1>c DEF TypeOK
<1>1. TypeOK'
  <2>1. pc' = [pc EXCEPT ![Reader] = "respond"]
    BY DEF BadRequest, Goto
  <2> QED
    BY <1>0, <1>b, <1>c, <2>1 DEF TypeOK
<1>2. StageInv' /\ Active' = Active
  <2>1. Active' = Active
    BY <1>d DEF Active
  <2>2. pc'[Reader] = "respond"
    BY <1>0 DEF Moves
  <2>3. \A n \in Handlers : n > k => pc'[n] = "none"
    BY <1>b, <1>c, <1>d, ProcFacts DEF StageInv
  <2>4. k > 0 /\ pc'[k] = "none"
    BY <1>c, <1>d
  <2> QED
    BY <1>0, <1>b, <1>c, <1>d, <2>1, <2>2, <2>3, <2>4 DEF StageInv, Responding, Concurrent
<1>3. ObjInv'
  <2>1. \A q \in Procs : (HoldsReq(q)' => HoldsReq(q)) /\ (HoldsResp(q)' => HoldsResp(q))
    BY <1>0 DEF HoldsReq, HoldsResp, Moves
  <2> QED
    BY <1>0, <1>b, <1>c, <2>1 DEF ObjInv, NoAliasing
<1>g. \A q \in Procs : HoldsResp(q)' =>
         /\ q \in Handlers /\ HoldsResp(q) /\ Num(q)' = Num(q) /\ Num(q) = q
         /\ ErrorOf(q)' = ErrorOf(q)
  BY <1>0, <1>d, <1>e, ProcFacts DEF HoldsResp, Moves, Num, ErrorOf
<1>4. ContentInv'
  <2>1. \A n \in Handlers : HoldsReq(n)' => reqMem'[req[n]] = n
    BY <1>b, <1>c, <1>d, ProcFacts DEF ContentInv, ObjInv, HoldsReq
  <2> QED
    BY <1>0, <1>b, <1>c, <1>g, <2>1 DEF ContentInv
<1>5. WriteInv'
  BY <1>0, <1>b, <1>g DEF WriteInv, HoldsResp, Moves
<1>6. SentInv'
  <2>1. \A n \in Handlers : sent[n] # {} => n # k /\ outcome'[n] = outcome[n] /\ n <= k
    BY <1>0, <1>b, <1>c, ProcFacts DEF TypeOK, SentInv
  <2>2. SentForm'
    BY <1>0, <1>b, <2>1 DEF SentInv, SentForm
  <2>3. ASSUME NEW n \in 1 .. k
        PROVE  \/ sent[n] # {} \/ broken \/ n \in dropped
               \/ pc'[n] \in Unanswered
               \/ n = k /\ pc'[Reader] = "respond"
    <3>1. CASE n = k
      BY <1>0, <3>1 DEF Moves
    <3>2. CASE n \in 1 .. nread
      <4>1. n \in Handlers
        BY <1>b, <3>2, ServerAssumption DEF TypeOK, Handlers
      <4> QED
        BY <1>0, <1>b, <1>d, <3>2, <4>1 DEF SentInv, Unanswered
    <3> QED
      BY <1>c, <3>1, <3>2
  <2> QED
    BY <1>0, <1>b, <1>c, <1>d, <2>1, <2>2, <2>3 DEF SentInv, Unanswered
<1>7. CtxInv'
  <2>1. ctxDone \subseteq Handlers
    BY <1>b DEF TypeOK
  <2>2. CanceledByRequest'
    <3>1. UNCHANGED <<ctxDone, parentDone>> /\ CanceledByRequest
      BY <1>0, <1>b DEF CtxInv
    <3>2. \A n \in ctxDone : pc'[n] = "run" => pc[n] = "run"
      BY <1>d, <2>1
    <3> HIDE DEF FreshRequest
    <3> QED
      BY <1>c, <3>1, <3>2, CanceledFrame
  <2> QED
    BY <1>0, <1>b, <1>d, <2>1, <2>2 DEF CtxInv
<1>8. CountInv'
  BY <1>0, <1>b, <1>2, CountFrame
<1> QED
  BY <1>1, <1>2, <1>3, <1>4, <1>5, <1>6, <1>7, <1>8 DEF ServerInv

(* Spawn preserves the invariant: the goroutine takes over the Request     *)
(* object of the reader, and the WaitGroup counts it.                      *)
LEMMA SpawnStep ==
  ASSUME ServerInv, NEW op \in {"quick", "wait", "cancel"}, NEW target \in 0 .. MaxReq,
         Spawn(op, target)
  PROVE  ServerInv'
<1> USE DEF ctxVars, outVars
<1> DEFINE label == IF Concurrent THEN "loop" ELSE "serving"
<1>c. PICK k \in Handlers : FreshRequest(k)
  BY ArrivesFacts DEF Spawn
<1> USE DEF FreshRequest
<1>0. /\ wg' = (IF Concurrent THEN wg + 1 ELSE wg)
      /\ req' = [req EXCEPT ![k] = req[Reader], ![Reader] = 0]
      /\ pc' = [pc EXCEPT ![Reader] = label, ![k] = "start"]
      /\ UNCHANGED <<mode, outcome, resp, respMem, freeReq, freeResp, ctxVars, outVars, closed>>
  BY <1>c DEF Spawn, Added
<1>b. TypeOK /\ StageInv /\ ObjInv /\ ContentInv /\ WriteInv /\ SentInv /\ CtxInv /\ CountInv
  BY DEF ServerInv
<1>d. /\ pc'[Reader] = label /\ pc'[k] = "start"
      /\ \A n \in Handlers \ {k} : pc'[n] = pc[n]
      /\ req'[Reader] = 0 /\ req'[k] = req[Reader]
      /\ \A n \in Handlers \ {k} : req'[n] = req[n]
  BY <1>0, <1>b, <1>c, ProcFacts DEF TypeOK
<1>g. label \in {"loop", "serving"}
  OBVIOUS
<1>1. TypeOK'
  <2>1. wg' \in Nat
    BY <1>0, <1>b DEF TypeOK
  <2>2. req' \in [Procs -> Nat]
    BY <1>0, <1>b, <1>c, ProcFacts DEF TypeOK
  <2> QED
    BY <1>0, <1>b, <1>c, <1>g, <2>1, <2>2 DEF TypeOK
<1>a. Active' = Active \cup {k} /\ k \notin Active
  <2>1. \A n \in Handlers : pc'[n] \in Serving <=> pc[n] \in Serving \/ n = k
    BY <1>d DEF Serving
  <2>2. pc[k] \notin Serving
    BY <1>c DEF Serving, Registered, Responding
  <2> QED
    BY <2>1, <2>2 DEF Active
<1>2. StageInv'
  <2>1. \A n \in Handlers : n > nread' => pc'[n] = "none"
    <3>1. \A n \in Handlers : n > nread' => n > nread /\ n # k
      BY <1>c
    <3> QED
      BY <1>b, <1>d, <3>1 DEF StageInv
  <2>2. \A n \in Active' : Concurrent' \/ (pc'[Reader] = "serving" /\ \A m \in Active' : m = n)
    BY <1>0, <1>a, <1>c, <1>d DEF Concurrent
  <2>3. \A n \in Handlers : pc'[n] \in {"none", "done"} \cup Serving
    BY <1>b, <1>d DEF StageInv, Serving
  <2>4. pc'[Reader] \in {"loop", "serving"}
    BY <1>d, <1>g
  <2> QED
    BY <1>0, <1>c, <2>1, <2>2, <2>3, <2>4 DEF StageInv, Responding
<1>h. /\ ~HoldsReq(Reader)' /\ ~HoldsResp(Reader)' /\ ~HoldsResp(k)'
      /\ \A n \in Handlers \ {k} : /\ HoldsReq(n)' <=> HoldsReq(n)
                                   /\ HoldsResp(n)' <=> HoldsResp(n)
  BY <1>d, <1>g DEF HoldsReq, HoldsResp
<1>3. ObjInv'
  <2>1. \A q \in Procs : HoldsResp(q)' => HoldsResp(q)
    BY <1>h, ProcFacts
  <2>2. HoldsReq(Reader)
    BY <1>c DEF HoldsReq
  <2>3. \A q \in Procs : HoldsReq(q)' => /\ req'[q] \in 1 .. Len(reqMem')
                                         /\ req'[q] \notin Range(freeReq)
    <3>1. /\ Len(reqMem') = Len(reqMem) /\ req[Reader] \in 1 .. Len(reqMem)
          /\ req[Reader] \notin Range(freeReq)
      BY <1>b, <1>c, <2>2, ProcFacts DEF ObjInv, NoAliasing
    <3>2. \A n \in Handlers \ {k} : HoldsReq(n) => /\ req[n] \in 1 .. Len(reqMem)
                                                  /\ req[n] \notin Range(freeReq)
      BY <1>b, ProcFacts DEF ObjInv, NoAliasing
    <3> HIDE DEF FreshRequest
    <3> QED
      BY <1>d, <1>h, <3>1, <3>2, ProcFacts
  <2>4. \A q, r \in Procs : q # r /\ HoldsReq(q)' /\ HoldsReq(r)' => req'[q] # req'[r]
    <3>1. \A n \in Handlers : HoldsReq(n) => req[n] # req[Reader]
      BY <1>c
    <3>2. \A n, m \in Handlers : n # m /\ HoldsReq(n) /\ HoldsReq(m) => req[n] # req[m]
      BY <1>b, ProcFacts DEF ObjInv, NoAliasing
    <3>3. \A q \in Procs : HoldsReq(q)' => q \in Handlers
      BY <1>h, ProcFacts
    <3> HIDE DEF FreshRequest
    <3>4. ASSUME NEW q \in Handlers, NEW r \in Handlers, q # r, HoldsReq(q)', HoldsReq(r)'
          PROVE  req'[q] # req'[r]
      <4>1. CASE q # k /\ r # k
        BY <1>d, <1>h, <3>2, <3>4, <4>1
      <4>2. CASE q = k \/ r = k
        BY <1>d, <1>h, <3>1, <3>4, <4>2
      <4> QED
        BY <4>1, <4>2
    <3> QED
      BY <3>3, <3>4
  <2> QED
    BY <1>0, <1>b, <1>c, <2>1, <2>3, <2>4 DEF ObjInv, NoAliasing
<1>4. ContentInv'
  <2>1. \A n \in Handlers : HoldsReq(n)' => reqMem'[req'[n]] = n
    <3>1. \A n \in Handlers \ {k} : HoldsReq(n)' => reqMem'[req'[n]] = n
      <4> SUFFICES ASSUME NEW n \in Handlers \ {k}, HoldsReq(n)'
                   PROVE  reqMem'[req'[n]] = n
        OBVIOUS
      <4>1. HoldsReq(n) /\ req'[n] = req[n] /\ req[n] # req[Reader]
        BY <1>c, <1>d, <1>h
      <4>2. req[n] \in 1 .. Len(reqMem) /\ reqMem[req[n]] = n
        BY <1>b, <4>1, ProcFacts DEF ContentInv, ObjInv
      <4> QED
        BY <1>c, <4>1, <4>2
    <3> QED
      BY <1>c, <1>d, <3>1
  <2>2. pc'[Reader] \notin Responding
    BY <1>d, <1>g DEF Responding
  <2>3. \A q \in Procs : HoldsResp(q)' => HoldsResp(q) /\ Num(q)' = Num(q) /\ ErrorOf(Num(q))' = ErrorOf(Num(q))
    BY <1>0, <1>h, ProcFacts DEF Num, ErrorOf
  <2> QED
    BY <1>0, <1>b, <2>1, <2>2, <2>3 DEF ContentInv
<1>5. WriteInv'
  <2>1. \A q \in Procs : pc'[q] = "body" => q \in Handlers /\ pc[q] = "body"
    BY <1>d, <1>g, ProcFacts
  <2>2. \A q \in Handlers : Num(q)' = Num(q) /\ ErrorOf(Num(q))' = ErrorOf(Num(q))
    BY <1>0, ProcFacts DEF Num, ErrorOf
  <2> QED
    BY <1>0, <1>b, <2>1, <2>2, ProcFacts DEF WriteInv
<1>6. SentInv'
  <2>1. \A n \in Handlers : sent[n] # {} => n # k /\ n <= nread' /\ pc'[n] \notin {"start", "run"}
    BY <1>b, <1>c, <1>d, ProcFacts DEF SentInv
  <2>2. SentForm'
    BY <1>0, <1>b DEF SentInv, SentForm
  <2>3. ASSUME NEW n \in 1 .. nread'
        PROVE  sent[n] # {} \/ broken \/ n \in dropped \/ pc'[n] \in Unanswered
    <3>1. CASE n = k
      BY <1>d, <3>1 DEF Unanswered
    <3>2. CASE n \in 1 .. nread
      <4>1. n \in Handlers /\ n # k
        BY <1>b, <1>c, <3>2, ServerAssumption DEF TypeOK, Handlers
      <4> QED
        BY <1>0, <1>b, <1>c, <1>d, <3>2, <4>1 DEF SentInv, Unanswered
    <3> QED
      BY <1>c, <3>1, <3>2
  <2> QED
    BY <1>0, <2>1, <2>2, <2>3 DEF SentInv, Unanswered
<1>7. CtxInv'
  <2>1. ctxDone \subseteq Handlers /\ k \notin ctxDone /\ k \notin DOMAIN pending
    BY <1>b, <1>c DEF TypeOK, CtxInv, Registered, Responding
  <2>2. CanceledByRequest'
    <3>1. UNCHANGED <<ctxDone, parentDone>> /\ CanceledByRequest
      BY <1>0, <1>b DEF CtxInv
    <3>2. \A n \in ctxDone : pc'[n] = "run" => pc[n] = "run"
      BY <1>d, <2>1
    <3> HIDE DEF FreshRequest
    <3> QED
      BY <1>c, <3>1, <3>2, CanceledFrame
  <2> QED
    <3>1. \A m \in DOMAIN pending : /\ m \in Handlers /\ pending[m] = m /\ pc[m] \in Registered
                                    /\ m # k
      BY <1>b, <2>1 DEF CtxInv
    <3>2. \A m \in Handlers : pc'[m] \in Registered => deferred[m] = m
      BY <1>b, <1>d DEF CtxInv, Registered, Responding
    <3>3. \A m \in ctxDone : pc'[m] \notin {"none", "start"}
      BY <1>b, <1>d, <2>1 DEF CtxInv
    <3>4. UNCHANGED <<pending, deferred, ctxDone>>
      BY <1>0
    <3>5. \A m \in DOMAIN pending : pc'[m] \in Registered
      BY <1>d, <3>1
    <3> HIDE DEF FreshRequest
    <3> QED
      BY <2>2, <3>1, <3>2, <3>3, <3>4, <3>5 DEF CtxInv
<1>8. CountInv'
  <2>1. Cardinality(Active') = Cardinality(Active) + 1
    BY <1>a, ActiveFinite, FS_AddElement
  <2> QED
    BY <1>0, <1>b, <2>1 DEF CountInv, Concurrent
<1> QED
  BY <1>1, <1>2, <1>3, <1>4, <1>5, <1>6, <1>7, <1>8 DEF ServerInv

-----------------------------------------------------------------------------
(* Service.call *)

(* What svc.Pending is: a map from requests to the goroutines that serve   *)
(* them.                                                                   *)
LEMMA PendingFacts ==
  ASSUME TypeOK
  PROVE  DOMAIN pending \subseteq Handlers /\ pending \in [DOMAIN pending -> Handlers]
BY DEF TypeOK

(* Begin preserves the invariant: the call registers under its own number. *)
LEMMA BeginStep ==
  ASSUME ServerInv, NEW n \in Handlers, Begin(n)
  PROVE  ServerInv'
<1> USE DEF histVars, outVars, objVars
<1>b. TypeOK /\ StageInv /\ ObjInv /\ ContentInv /\ WriteInv /\ SentInv /\ CtxInv /\ CountInv
  BY DEF ServerInv
<1>a. pc[n] = "start" /\ Moves(n, "run") /\ HoldsReq(n) /\ reqMem[req[n]] = n
  BY <1>b, GotoFacts, ProcFacts DEF Begin, ContentInv, HoldsReq
<1>0. /\ Start(n, n) /\ deferred' = [deferred EXCEPT ![n] = n]
      /\ UNCHANGED <<histVars, outcome, objVars, parentDone, outVars, wg, closed>>
  BY <1>a DEF Begin
<1>c. /\ DOMAIN pending' = DOMAIN pending \cup {n} /\ pending'[n] = n
      /\ \A s \in DOMAIN pending \ {n} : pending'[s] = pending[s]
      /\ ctxDone' = IF parentDone THEN ctxDone \cup {n} ELSE ctxDone
  BY <1>0 DEF Start, Inherited
<1>d. pending' \in [DOMAIN pending' -> Handlers] /\ DOMAIN pending' \subseteq Handlers
  BY <1>0, <1>b, <1>c, PendingFacts DEF Start
<1>1. TypeOK'
  <2>1. pc' = [pc EXCEPT ![n] = "run"]
    BY DEF Begin, Goto
  <2>2. deferred' \in [Handlers -> 0 .. MaxReq]
    BY <1>0, <1>b, ProcFacts DEF TypeOK
  <2>3. ctxDone' \subseteq Handlers
    BY <1>b, <1>c DEF TypeOK
  <2>4. \E S \in SUBSET Handlers : pending' \in [S -> Handlers]
    BY <1>d
  <2> QED
    BY <1>0, <1>b, <2>1, <2>2, <2>3, <2>4 DEF TypeOK
<1>2. StageInv' /\ Active' = Active
  BY <1>0, <1>a, <1>b, StageFrame, ProcFacts DEF Serving, Registered, Responding
<1>e. ~HoldsResp(n)'
  BY <1>a DEF HoldsResp, Moves
<1>3. ObjInv'
  BY <1>0, <1>a, <1>b, <1>e, ObjFrame, ProcFacts
<1>4. ContentInv'
  BY <1>0, <1>a, <1>b, <1>e, ContentFrame, ProcFacts
<1>5. WriteInv'
  BY <1>0, <1>a, <1>b, WriteFrame, ProcFacts
<1>6. SentInv'
  BY <1>0, <1>a, <1>b, SentFrame, ProcFacts DEF Unanswered
<1>7. CtxInv'
  <2>1. ctxDone \subseteq Handlers /\ n \notin ctxDone /\ "run" \in Registered
    BY <1>a, <1>b DEF TypeOK, CtxInv, Registered
  <2>2. pc'[n] = "run" /\ \A m \in Handlers \ {n} : pc'[m] = pc[m]
    BY <1>a, ProcFacts DEF Moves
  <2>3. \A s \in DOMAIN pending' : s \in Handlers /\ pending'[s] = s /\ pc'[s] \in Registered
    BY <1>b, <1>c, <2>1, <2>2 DEF CtxInv
  <2>4. \A m \in Handlers : pc'[m] \in Registered => deferred'[m] = m
    BY <1>0, <1>b, <2>2 DEF CtxInv, TypeOK
  <2>5. \A m \in ctxDone' : pc'[m] \notin {"none", "start"}
    BY <1>b, <1>c, <2>1, <2>2 DEF CtxInv
  <2>6. CanceledByRequest'
    BY <1>0, <1>b, <1>c, <2>1, <2>2 DEF CtxInv, CanceledByRequest
  <2> QED
    BY <2>3, <2>4, <2>5, <2>6 DEF CtxInv
<1>8. CountInv'
  BY <1>0, <1>b, <1>2, CountFrame
<1> QED
  BY <1>1, <1>2, <1>3, <1>4, <1>5, <1>6, <1>7, <1>8 DEF ServerInv

(* A method that returns has no response yet, so its outcome concerns      *)
(* nothing that has been written or is being written.                      *)
LEMMA OutcomeFrame ==
  ASSUME ServerInv, NEW n \in Handlers, NEW result \in {"ok", "err", "blank"},
         pc[n] = "run", Goto(n, "respond"),
         outcome' = [outcome EXCEPT ![n] = result],
         UNCHANGED <<histVars, objVars, outVars, wg, closed>>
  PROVE  /\ StageInv' /\ ObjInv' /\ ContentInv' /\ WriteInv' /\ SentInv' /\ CountInv'
         /\ Moves(n, "respond") /\ pc' = [pc EXCEPT ![n] = "respond"]
         /\ outcome' \in [Handlers -> {"none", "ok", "err", "blank"}]
<1> USE DEF histVars, outVars, objVars
<1>b. TypeOK /\ StageInv /\ ObjInv /\ ContentInv /\ WriteInv /\ SentInv /\ CtxInv /\ CountInv
  BY DEF ServerInv
<1>0. Moves(n, "respond") /\ n # Reader
  BY <1>b, GotoFacts, ProcFacts
<1>1. outcome \in [Handlers -> {"none", "ok", "err", "blank"}]
  BY <1>b DEF TypeOK
<1>2. StageInv' /\ Active' = Active
  BY <1>0, <1>b, StageFrame, ProcFacts DEF Serving, Registered, Responding
<1>3. HoldsReq(n) /\ ~HoldsResp(n)' /\ ~HoldsResp(n)
  BY <1>0 DEF HoldsReq, HoldsResp, Moves
<1>4. ObjInv'
  BY <1>0, <1>b, <1>3, ObjFrame, ProcFacts
<1>5. \A q \in Procs : HoldsResp(q) =>
         Num(q) \in Handlers /\ Num(q)' = Num(q) /\ ErrorOf(Num(q))' = ErrorOf(Num(q))
  <2> SUFFICES ASSUME NEW q \in Procs, HoldsResp(q)
               PROVE  Num(q) \in Handlers /\ Num(q)' = Num(q) /\ ErrorOf(Num(q))' = ErrorOf(Num(q))
    OBVIOUS
  <2>1. pc[q] \in Responding /\ pc[n] \in Responding \cup {"start", "run"} /\ q # n
    BY <1>3 DEF HoldsResp, Responding
  <2>2. Num(q) \in Handlers /\ Num(n) = n /\ Num(q) # Num(n)
    BY <1>b, <2>1, NumFacts, ProcFacts
  <2>3. Num(q)' = Num(q)
    BY DEF Num
  <2> QED
    BY <1>1, <2>2, <2>3 DEF ErrorOf
<1>6. \A q \in Procs : /\ HoldsResp(q)' <=> HoldsResp(q) /\ q # n
                       /\ HoldsReq(q)' <=> HoldsReq(q)
                       /\ pc'[q] = "body" => pc[q] = "body" /\ HoldsResp(q)
  BY <1>0, <1>3 DEF HoldsResp, HoldsReq, Moves
<1>7. ContentInv'
  <2>1. pc'[Reader] = pc[Reader]
    BY <1>0, ProcFacts DEF Moves
  <2> QED
    BY <1>b, <1>5, <1>6, <2>1, ProcFacts DEF ContentInv
<1>8. WriteInv'
  BY <1>b, <1>5, <1>6 DEF WriteInv
<1>9. SentInv'
  <2>1. sent[n] = {}
    BY <1>b DEF SentInv
  <2>2. SentForm'
    BY <1>1, <1>b, <2>1 DEF SentInv, SentForm
  <2>3. \A m \in Handlers : sent[m] # {} => m <= nread /\ pc'[m] \notin {"start", "run"}
    BY <1>0, <1>b, ProcFacts DEF SentInv, Moves
  <2>4. ASSUME NEW m \in 1 .. nread, sent[m] = {}, ~broken, m \notin dropped
        PROVE  \/ pc'[m] \in Unanswered
               \/ m = nread /\ pc'[Reader] \in {"respond", "lock", "body"}
    <3>1. m \in Handlers
      BY <1>b, ServerAssumption DEF TypeOK, Handlers
    <3> QED
      BY <1>0, <1>b, <2>4, <3>1, ProcFacts DEF SentInv, Unanswered, Moves
  <2> QED
    BY <2>2, <2>3, <2>4 DEF SentInv, Unanswered
<1>10. CountInv'
  BY <1>b, <1>2, CountFrame
<1> QED
  BY <1>0, <1>1, <1>2, <1>4, <1>7, <1>8, <1>9, <1>10 DEF Goto

(* Return preserves the invariant.                                         *)
LEMMA ReturnStep ==
  ASSUME ServerInv, NEW n \in Handlers, NEW result \in {"ok", "err", "blank"}, Return(n, result)
  PROVE  ServerInv'
<1> USE DEF histVars, outVars, objVars, ctxVars
<1>b. TypeOK /\ CtxInv
  BY DEF ServerInv
<1>0. /\ pc[n] = "run" /\ Goto(n, "respond") /\ outcome' = [outcome EXCEPT ![n] = result]
      /\ UNCHANGED <<histVars, objVars, ctxVars, outVars, wg, closed>>
  BY DEF Return
<1>1. /\ StageInv' /\ ObjInv' /\ ContentInv' /\ WriteInv' /\ SentInv' /\ CountInv'
      /\ Moves(n, "respond") /\ pc' = [pc EXCEPT ![n] = "respond"]
      /\ outcome' \in [Handlers -> {"none", "ok", "err", "blank"}]
  BY <1>0, OutcomeFrame
<1>2. TypeOK'
  BY <1>0, <1>1, <1>b DEF TypeOK
<1>3. CtxInv'
  BY <1>0, <1>1, <1>b, CtxFrame, ProcFacts DEF Registered, Responding
<1> QED
  BY <1>1, <1>2, <1>3 DEF ServerInv

(* pending.Cancel ends the context of the request it is given and removes  *)
(* it, if it is there, and touches no other.                               *)
LEMMA CancelSeqFacts ==
  ASSUME TypeOK, CtxInv, NEW s, CancelSeq(s)
  PROVE  /\ DOMAIN pending' = DOMAIN pending \ {s}
         /\ \A r \in DOMAIN pending' : pending'[r] = pending[r]
         /\ \E S \in SUBSET Handlers : pending' \in [S -> Handlers]
         /\ ctxDone' \subseteq ctxDone \cup {s} /\ ctxDone \subseteq ctxDone'
         /\ ctxDone' \subseteq Handlers
         /\ s \in ctxDone' \ ctxDone => pc[s] \in Registered
<1>1. pending' = [r \in DOMAIN pending \ {s} |-> pending[r]]
  BY DEF CancelSeq, Restrict
<1>2. DOMAIN pending' \in SUBSET Handlers /\ pending' \in [DOMAIN pending' -> Handlers]
  BY <1>1, PendingFacts
<1>3. /\ ctxDone' \subseteq ctxDone \cup {s} /\ ctxDone \subseteq ctxDone'
      /\ ctxDone' \subseteq Handlers
      /\ s \in ctxDone' \ ctxDone => pc[s] \in Registered
  BY DEF CancelSeq, CtxInv, TypeOK
<1> QED
  BY <1>1, <1>2, <1>3

(* Cancel preserves the invariant: the context it ends is that of the      *)
(* request it names.                                                       *)
LEMMA CancelStep ==
  ASSUME ServerInv, NEW n \in Handlers, Cancel(n)
  PROVE  ServerInv'
<1> USE DEF histVars, outVars, objVars
<1>b. TypeOK /\ CtxInv /\ StageInv
  BY DEF ServerInv
<1> DEFINE s == Target(n)
<1>0. /\ pc[n] = "run" /\ asked[n][1] = "cancel" /\ CancelSeq(s) /\ Goto(n, "respond")
      /\ outcome' = [outcome EXCEPT ![n] = "ok"]
      /\ UNCHANGED <<histVars, objVars, deferred, parentDone, outVars, wg, closed>>
  BY DEF Cancel
<1>1. /\ StageInv' /\ ObjInv' /\ ContentInv' /\ WriteInv' /\ SentInv' /\ CountInv'
      /\ Moves(n, "respond") /\ pc' = [pc EXCEPT ![n] = "respond"]
      /\ outcome' \in [Handlers -> {"none", "ok", "err", "blank"}]
  BY <1>0, OutcomeFrame
<1>a. n \in 1 .. nread /\ asked[n] = <<"cancel", s>>
  <2>1. ~(n > nread) /\ nread \in Nat /\ n \in Nat /\ n >= 1
    <3>1. ~(n > nread)
      BY <1>0, <1>b DEF StageInv
    <3>2. nread \in Nat
      BY <1>b, ServerAssumption DEF TypeOK
    <3>3. n \in Nat /\ n >= 1
      BY ServerAssumption DEF Handlers
    <3> QED
      BY <3>1, <3>2, <3>3
  <2>2. asked[n] \in {"none", "quick", "wait", "cancel", "bad"} \X (0 .. MaxReq)
    BY <1>b DEF TypeOK
  <2> QED
    BY <1>0, <2>1, <2>2 DEF Target
<1> HIDE DEF s
<1>c. /\ DOMAIN pending' = DOMAIN pending \ {s}
      /\ \A r \in DOMAIN pending' : pending'[r] = pending[r]
      /\ \E S \in SUBSET Handlers : pending' \in [S -> Handlers]
      /\ ctxDone' \subseteq ctxDone \cup {s} /\ ctxDone' \subseteq Handlers
      /\ s \in ctxDone' \ ctxDone => pc[s] \in Registered
  BY <1>0, <1>b, CancelSeqFacts
<1>2. TypeOK'
  BY <1>0, <1>1, <1>b, <1>c DEF TypeOK
<1>3. CtxInv'
  <2>1. /\ pc'[n] = "respond" /\ \A m \in Handlers \ {n} : pc'[m] = pc[m]
        /\ "respond" \in Registered /\ pc[n] \in Registered
    BY <1>0, <1>1, ProcFacts DEF Moves, Registered, Responding
  <2>2. \A r \in DOMAIN pending' : r \in Handlers /\ pending'[r] = r /\ pc'[r] \in Registered
    BY <1>b, <1>c, <2>1 DEF CtxInv
  <2>3. \A m \in Handlers : pc'[m] \in Registered => deferred'[m] = m
    BY <1>0, <1>b, <2>1 DEF CtxInv
  <2>4. \A m \in ctxDone' : pc'[m] \notin {"none", "start"}
    BY <1>b, <1>c, <2>1 DEF CtxInv, Registered, Responding
  <2>5. ASSUME NEW m \in ctxDone', pc'[m] = "run"
        PROVE  parentDone' \/ \E r \in 1 .. nread' : asked'[r] = <<"cancel", m>>
    <3>1. CASE m = s
      BY <1>0, <1>a, <3>1
    <3>2. CASE m # s
      <4>1. m \in ctxDone /\ pc[m] = "run"
        BY <1>c, <2>1, <2>5, <3>2
      <4> QED
        BY <1>0, <1>b, <4>1 DEF CtxInv, CanceledByRequest
    <3> QED
      BY <3>1, <3>2
  <2> QED
    BY <2>2, <2>3, <2>4, <2>5 DEF CtxInv, CanceledByRequest
<1> QED
  BY <1>1, <1>2, <1>3 DEF ServerInv

(* DeferredCancel preserves the invariant: a call that ends cancels its    *)
(* own context and no other.                                               *)
LEMMA DeferredCancelStep ==
  ASSUME ServerInv, NEW n \in Handlers, DeferredCancel(n)
  PROVE  ServerInv'
<1> USE DEF histVars, outVars, objVars
<1>b. TypeOK /\ StageInv /\ ObjInv /\ ContentInv /\ WriteInv /\ SentInv /\ CtxInv /\ CountInv
  BY DEF ServerInv
<1>a. pc[n] = "cancel" /\ Moves(n, "wgDone")
  BY <1>b, GotoFacts, ProcFacts DEF DeferredCancel
<1>0. /\ CancelSeq(n)
      /\ UNCHANGED <<histVars, outcome, objVars, deferred, parentDone, outVars, wg, closed>>
  <2>1. deferred[n] = n
    BY <1>a, <1>b DEF CtxInv, Registered
  <2> QED
    BY <2>1 DEF DeferredCancel, DeferredSeq
<1>c. /\ DOMAIN pending' = DOMAIN pending \ {n}
      /\ \A r \in DOMAIN pending' : pending'[r] = pending[r]
      /\ \E S \in SUBSET Handlers : pending' \in [S -> Handlers]
      /\ ctxDone' \subseteq ctxDone \cup {n} /\ ctxDone' \subseteq Handlers
  BY <1>0, <1>b, CancelSeqFacts
<1>1. TypeOK'
  <2>1. pc' = [pc EXCEPT ![n] = "wgDone"]
    BY DEF DeferredCancel, Goto
  <2> QED
    BY <1>0, <1>b, <1>c, <2>1 DEF TypeOK
<1>2. StageInv' /\ Active' = Active
  BY <1>0, <1>a, <1>b, StageFrame, ProcFacts DEF Serving, Registered, Responding
<1>d. ~HoldsReq(n)' /\ ~HoldsResp(n)'
  BY <1>a DEF HoldsReq, HoldsResp, Moves
<1>3. ObjInv'
  BY <1>0, <1>a, <1>b, <1>d, ObjFrame, ProcFacts
<1>4. ContentInv'
  BY <1>0, <1>a, <1>b, <1>d, ContentFrame, ProcFacts
<1>5. WriteInv'
  BY <1>0, <1>a, <1>b, WriteFrame, ProcFacts
<1>6. SentInv'
  BY <1>0, <1>a, <1>b, SentFrame, ProcFacts DEF Unanswered
<1>7. CtxInv'
  <2>1. /\ pc'[n] = "wgDone" /\ \A m \in Handlers \ {n} : pc'[m] = pc[m]
        /\ "wgDone" \notin Registered
    BY <1>a, ProcFacts DEF Moves, Registered, Responding
  <2>2. \A r \in DOMAIN pending' : r \in Handlers /\ pending'[r] = r /\ pc'[r] \in Registered
    BY <1>b, <1>c, <2>1 DEF CtxInv
  <2>3. \A m \in Handlers : pc'[m] \in Registered => deferred'[m] = m
    BY <1>0, <1>b, <2>1 DEF CtxInv
  <2>4. \A m \in ctxDone' : pc'[m] \notin {"none", "start"}
    BY <1>b, <1>c, <2>1 DEF CtxInv
  <2>5. ASSUME NEW m \in ctxDone', pc'[m] = "run"
        PROVE  parentDone' \/ \E r \in 1 .. nread' : asked'[r] = <<"cancel", m>>
    <3>1. m \in ctxDone /\ pc[m] = "run"
      BY <1>c, <2>1, <2>5
    <3> QED
      BY <1>0, <1>b, <3>1 DEF CtxInv, CanceledByRequest
  <2> QED
    BY <2>2, <2>3, <2>4, <2>5 DEF CtxInv, CanceledByRequest
<1>8. CountInv'
  BY <1>0, <1>b, <1>2, CountFrame
<1> QED
  BY <1>1, <1>2, <1>3, <1>4, <1>5, <1>6, <1>7, <1>8 DEF ServerInv

(* WgDone preserves the invariant: the WaitGroup had counted the handler,  *)
(* and with ServeRequestContext it was the only one.                       *)
LEMMA WgDoneStep ==
  ASSUME ServerInv, NEW n \in Handlers, WgDone(n)
  PROVE  ServerInv'
<1> USE DEF histVars, outVars
<1>b. TypeOK /\ StageInv /\ ObjInv /\ ContentInv /\ WriteInv /\ SentInv /\ CtxInv /\ CountInv
  BY DEF ServerInv
<1>0. /\ pc[n] = "wgDone" /\ wg' = (IF Concurrent THEN wg - 1 ELSE wg)
      /\ req' = [req EXCEPT ![n] = 0] /\ deferred' = [deferred EXCEPT ![n] = 0]
      /\ pc' = [pc EXCEPT ![n] = "done", ![Reader] = IF Concurrent THEN @ ELSE "loop"]
      /\ UNCHANGED <<histVars, outcome, resp, reqMem, respMem, freeReq, freeResp, pending,
                     ctxDone, parentDone, outVars, closed>>
  BY DEF WgDone, Released
<1>a. n \in Active /\ (Concurrent \/ (pc[Reader] = "serving" /\ Active = {n}))
  BY <1>0, <1>b DEF StageInv, Active, Serving
<1>c. /\ pc'[n] = "done" /\ \A m \in Handlers \ {n} : pc'[m] = pc[m]
      /\ pc'[Reader] = pc[Reader] \/ (~Concurrent /\ pc[Reader] = "serving" /\ pc'[Reader] = "loop")
      /\ \A q \in Procs \ {n} : req'[q] = req[q]
  BY <1>0, <1>a, <1>b, ProcFacts DEF TypeOK
<1>d. Active' = Active \ {n}
  <2>1. \A m \in Handlers : pc'[m] \in Serving <=> pc[m] \in Serving /\ m # n
    BY <1>c DEF Serving, Registered, Responding
  <2> QED
    BY <2>1 DEF Active
<1>e. Cardinality(Active') = Cardinality(Active) - 1 /\ Cardinality(Active) \in Nat \ {0}
  BY <1>a, <1>d, ActiveFinite, FS_RemoveElement
<1>1. TypeOK'
  <2>1. wg' \in Nat
    BY <1>0, <1>b, <1>e DEF CountInv
  <2>2. req' \in [Procs -> Nat] /\ deferred' \in [Handlers -> 0 .. MaxReq]
    <3>1. 0 \in Nat /\ 0 \in 0 .. MaxReq
      BY ServerAssumption
    <3>2. req \in [Procs -> Nat] /\ deferred \in [Handlers -> 0 .. MaxReq]
      BY <1>b DEF TypeOK
    <3> QED
      BY <1>0, <3>1, <3>2
  <2>3. pc' \in [Procs -> {"none", "loop", "header", "serving", "wait", "start", "run",
                           "respond", "lock", "body", "freeResp", "freeReq", "cancel",
                           "wgDone", "done"}]
    BY <1>0, <1>b DEF TypeOK
  <2> QED
    BY <1>0, <1>b, <2>1, <2>2, <2>3 DEF TypeOK
<1>2. StageInv'
  <2>1. pc'[Reader] \in Responding => nread > 0 /\ pc'[nread] = "none"
    <3> SUFFICES ASSUME pc'[Reader] \in Responding PROVE nread > 0 /\ pc'[nread] = "none"
      OBVIOUS
    <3>1. pc[Reader] \in Responding
      BY <1>c DEF Responding
    <3>2. nread > 0 /\ pc[nread] = "none" /\ nread \in Handlers
      BY <1>b, <3>1, ServerAssumption DEF StageInv, TypeOK, Handlers
    <3> QED
      BY <1>0, <1>c, <3>2
  <2>2. pc'[Reader] \in {"loop", "header", "serving", "wait", "done"} \cup Responding
    BY <1>b, <1>c DEF StageInv
  <2>3. \A m \in Handlers : /\ pc'[m] \in {"none", "done"} \cup Serving
                            /\ m > nread => pc'[m] = "none"
    BY <1>0, <1>b, <1>c DEF StageInv
  <2>4. \A m \in Active' : Concurrent' \/ (pc'[Reader] = "serving" /\ \A r \in Active' : r = m)
    BY <1>0, <1>a, <1>d DEF Concurrent
  <2>5. ~closed'
    BY <1>0, <1>a, <1>b DEF StageInv
  <2> QED
    BY <1>0, <2>1, <2>2, <2>3, <2>4, <2>5 DEF StageInv
<1>f. \A q \in Procs : /\ HoldsReq(q)' => HoldsReq(q) /\ q # n
                       /\ HoldsResp(q)' => HoldsResp(q)
                       /\ pc'[q] = "body" => pc[q] = "body"
  BY <1>0, <1>c, ProcFacts DEF HoldsReq, HoldsResp
<1>g. \A q \in Procs : Num(q)' = Num(q) /\ ErrorOf(Num(q))' = ErrorOf(Num(q))
  BY <1>0 DEF Num, ErrorOf
<1>3. ObjInv'
  <2>1. \A q \in Procs : HoldsReq(q)' => req'[q] = req[q]
    BY <1>c, <1>f
  <2> QED
    BY <1>0, <1>b, <1>f, <2>1 DEF ObjInv, NoAliasing
<1>4. ContentInv'
  <2>1. pc'[Reader] \in Responding => pc[Reader] \in Responding
    BY <1>c DEF Responding
  <2> QED
    <3>1. \A m \in Handlers : HoldsReq(m)' => reqMem'[req'[m]] = m
      <4>1. \A m \in Handlers : HoldsReq(m)' => HoldsReq(m) /\ req'[m] = req[m]
        BY <1>c, <1>f, ProcFacts
      <4> QED
        BY <1>0, <1>b, <4>1 DEF ContentInv
    <3>2. pc'[Reader] \in Responding => reqMem'[req'[Reader]] = nread'
      <4>1. req'[Reader] = req[Reader] /\ UNCHANGED <<reqMem, nread>>
        BY <1>0, <1>c, ProcFacts
      <4> QED
        BY <1>b, <2>1, <4>1 DEF ContentInv
    <3>3. \A q \in Procs : HoldsResp(q)' =>
            respMem'[resp'[q]] = [seq |-> Num(q)', err |-> ErrorOf(Num(q))']
      BY <1>0, <1>b, <1>f, <1>g DEF ContentInv
    <3> QED
      BY <3>1, <3>2, <3>3 DEF ContentInv
<1>5. WriteInv'
  BY <1>0, <1>b, <1>f, <1>g DEF WriteInv
<1>6. SentInv'
  <2>1. SentForm'
    BY <1>0, <1>b DEF SentInv, SentForm
  <2>2. \A m \in Handlers : sent[m] # {} => m <= nread /\ pc'[m] \notin {"start", "run"}
    BY <1>b, <1>c DEF SentInv
  <2>3. ASSUME NEW m \in 1 .. nread, sent[m] = {}, ~broken, m \notin dropped
        PROVE  \/ pc'[m] \in Unanswered
               \/ m = nread /\ pc'[Reader] \in {"respond", "lock", "body"}
    <3>1. m \in Handlers
      BY <1>b, ServerAssumption DEF TypeOK, Handlers
    <3> QED
      BY <1>0, <1>b, <1>c, <2>3, <3>1 DEF SentInv, Unanswered
  <2> QED
    BY <1>0, <2>1, <2>2, <2>3 DEF SentInv, Unanswered
<1>7. CtxInv'
  <2>1. ctxDone \subseteq Handlers /\ deferred \in [Handlers -> 0 .. MaxReq]
        /\ "done" \notin Registered /\ "wgDone" \notin Registered
    BY <1>b DEF TypeOK, Registered, Responding
  <2>2. \A s \in DOMAIN pending : s \in Handlers /\ pending[s] = s /\ pc'[s] \in Registered
    <3>1. \A s \in DOMAIN pending : s \in Handlers /\ pending[s] = s /\ pc[s] \in Registered
      BY <1>b DEF CtxInv
    <3>2. n \notin DOMAIN pending
      BY <1>0, <2>1, <3>1
    <3> QED
      BY <1>c, <3>1, <3>2
  <2>3. \A m \in Handlers : pc'[m] \in Registered => deferred'[m] = m
    BY <1>0, <1>b, <1>c, <2>1 DEF CtxInv
  <2>4. \A m \in ctxDone : pc'[m] \notin {"none", "start"} /\ (pc'[m] = "run" => pc[m] = "run")
    BY <1>b, <1>c, <2>1 DEF CtxInv
  <2>5. CanceledByRequest'
    BY <1>0, <1>b, <2>4 DEF CtxInv, CanceledByRequest
  <2> QED
    BY <1>0, <2>2, <2>3, <2>4, <2>5 DEF CtxInv
<1>8. CountInv'
  BY <1>0, <1>b, <1>e DEF CountInv, Concurrent
<1> QED
  BY <1>1, <1>2, <1>3, <1>4, <1>5, <1>6, <1>7, <1>8 DEF ServerInv

-----------------------------------------------------------------------------
(* The theorems *)

(* The invariant holds before ServeCodec, or ServeRequestContext, starts.  *)
LEMMA InitInv == Init => ServerInv
<1> SUFFICES ASSUME Init PROVE ServerInv
  OBVIOUS
<1>0. /\ pc[Reader] = "loop" /\ \A n \in Handlers : pc[n] = "none"
      /\ Active = {} /\ Range(freeReq) = {} /\ Range(freeResp) = {}
      /\ IsInjective(freeReq) /\ IsInjective(freeResp)
      /\ \A p \in Procs : ~HoldsReq(p) /\ ~HoldsResp(p)
  <2>1. pc[Reader] = "loop" /\ \A n \in Handlers : pc[n] = "none"
    BY ProcFacts DEF Init
  <2>2. \A p \in Procs : ~HoldsReq(p) /\ ~HoldsResp(p)
    BY <2>1, ProcFacts DEF HoldsReq, HoldsResp
  <2>3. Active = {}
    BY <2>1 DEF Active, Serving, Registered, Responding
  <2>4. Range(freeReq) = {} /\ Range(freeResp) = {} /\ IsInjective(freeReq) /\ IsInjective(freeResp)
    BY DEF Init, Range, IsInjective
  <2> QED
    BY <2>1, <2>2, <2>3, <2>4
<1>1. TypeOK
  <2>1. /\ 0 \in 0 .. MaxReq /\ 0 \in Nat /\ NoHeader \in Headers
        /\ <<"none", 0>> \in {"none", "quick", "wait", "cancel", "bad"} \X (0 .. MaxReq)
    BY ServerAssumption DEF NoHeader, Headers
  <2>2. \E S \in SUBSET Handlers : pending \in [S -> Handlers]
    <3>1. pending \in [{} -> Handlers] /\ {} \in SUBSET Handlers
      BY DEF Init
    <3> QED
      BY <3>1
  <2>3. /\ reqMem \in Seq(Nat) /\ respMem \in Seq(Headers)
        /\ freeReq \in Seq(Nat) /\ freeResp \in Seq(Nat)
    BY DEF Init
  <2>4. /\ asked \in [Handlers -> {"none", "quick", "wait", "cancel", "bad"} \X (0 .. MaxReq)]
        /\ outcome \in [Handlers -> {"none", "ok", "err", "blank"}]
        /\ deferred \in [Handlers -> 0 .. MaxReq]
        /\ sent \in [Handlers -> SUBSET [err : 0 .. MaxReq, body : 0 .. MaxReq]]
        /\ hdr \in Headers
    BY <2>1 DEF Init
  <2>5. /\ pc \in [Procs -> {"none", "loop", "header", "serving", "wait", "start", "run",
                             "respond", "lock", "body", "freeResp", "freeReq", "cancel",
                             "wgDone", "done"}]
        /\ req \in [Procs -> Nat] /\ resp \in [Procs -> Nat]
    BY DEF Init
  <2>6. /\ mode \in {"ServeCodec", "ServeRequestContext"} /\ nread \in 0 .. MaxReq
        /\ ctxDone \subseteq Handlers /\ parentDone \in BOOLEAN /\ sending \in 0 .. MaxReq
        /\ broken \in BOOLEAN /\ dropped \subseteq Handlers /\ wg \in Nat /\ closed \in BOOLEAN
    BY <2>1 DEF Init, NoOne
  <2> QED
    BY <2>2, <2>3, <2>4, <2>5, <2>6 DEF TypeOK
<1>2. StageInv
  BY <1>0 DEF StageInv, Init, Responding
<1>3. ObjInv /\ ContentInv /\ WriteInv
  BY <1>0, ProcFacts DEF ObjInv, NoAliasing, ContentInv, WriteInv, Responding
<1>4. SentInv
  BY DEF SentInv, SentForm, Init
<1>5. CtxInv
  BY <1>0 DEF CtxInv, CanceledByRequest, Init, Registered, Responding
<1>6. CountInv
  BY <1>0, FS_EmptySet DEF CountInv, Init
<1> QED
  BY <1>1, <1>2, <1>3, <1>4, <1>5, <1>6 DEF ServerInv

(* Every step preserves the invariant.                                     *)
LEMMA NextInv == ServerInv /\ [Next]_vars => ServerInv'
<1> SUFFICES ASSUME ServerInv, [Next]_vars PROVE ServerInv'
  OBVIOUS
<1>1. CASE GetRequest
  BY <1>1, GetRequestStep
<1>2. CASE Read
  <2>1. CASE BadRequest
    BY <2>1, BadRequestStep
  <2>2. CASE \E op \in Ops \cap {"quick", "wait"} : Spawn(op, 0)
    <3>1. 0 \in 0 .. MaxReq
      BY ServerAssumption
    <3> QED
      BY <2>2, <3>1, SpawnStep
  <2>3. CASE \E s \in 1 .. nread : Spawn("cancel", s)
    <3>1. \A s \in 1 .. nread : s \in 0 .. MaxReq
      BY ServerAssumption DEF ServerInv, TypeOK
    <3> QED
      BY <2>3, <3>1, SpawnStep
  <2>4. CASE HeaderFails
    BY <2>4, HeaderFailsStep
  <2> QED
    BY <1>2, <2>1, <2>2, <2>3, <2>4 DEF Read
<1>3. CASE CloseCodec
  BY <1>3, CloseCodecStep
<1>4. CASE ParentEnds
  BY <1>4, ParentEndsStep
<1>5. ASSUME NEW n \in Handlers, Call(n) PROVE ServerInv'
  BY <1>5, BeginStep, ReturnStep, CancelStep, DeferredCancelStep, WgDoneStep DEF Call
<1>6. ASSUME NEW p \in Procs, WriteHeader(p) \/ Respond(p) PROVE ServerInv'
  BY <1>6, WriteHeaderStep, GetResponseStep, WriteBodyStep, FreeResponseStep, FreeRequestStep
  DEF Respond
<1>7. CASE Finished \/ UNCHANGED vars
  BY <1>7, StutterStep DEF Finished
<1> QED
  BY <1>1, <1>2, <1>3, <1>4, <1>5, <1>6, <1>7 DEF Next

(* ServerInv holds in every reachable state of ServeCodec and of           *)
(* ServeRequestContext.                                                    *)
THEOREM ServerInvariance == Spec => []ServerInv
BY InitInv, NextInv, PTL DEF Spec

(* The variables of the server keep their types, and wg.Done never takes   *)
(* the WaitGroup below zero.                                               *)
THEOREM TypeCorrect == Spec => []TypeOK
<1>1. ServerInv => TypeOK
  BY DEF ServerInv
<1> QED
  BY <1>1, ServerInvariance, PTL

(* Every response on the wire is that of one request: header and body      *)
(* match, and there is one at most, however the handlers interleave and    *)
(* the free lists recycle Request and Response.                            *)
THEOREM ResponsesMatch == Spec => []ResponseMatches
<1>1. ServerInv => ResponseMatches
  <2>1. ASSUME NEW n \in Handlers, SentForm
        PROVE  \/ outcome[n] # "ok" /\ sent[n] \subseteq {[err |-> n, body |-> 0]}
               \/ outcome[n] # "err" /\ sent[n] \subseteq {[err |-> 0, body |-> n]}
    BY <2>1 DEF SentForm
  <2> QED
    BY <2>1 DEF ServerInv, SentInv, ResponseMatches
<1> QED
  BY <1>1, ServerInvariance, PTL

(* getRequest and getResponse never hand out an object that is in use.     *)
THEOREM NeverAliased == Spec => []NoAliasing
<1>1. ServerInv => NoAliasing
  BY DEF ServerInv, ObjInv
<1> QED
  BY <1>1, ServerInvariance, PTL

(* The deferred pending.Cancel of a call never ends another call: a        *)
(* running method loses its context only to a request for that, or with    *)
(* the context given to ServeRequestContext.                               *)
THEOREM OnlyCanceledByRequest == Spec => []CanceledByRequest
<1>1. ServerInv => CanceledByRequest
  BY DEF ServerInv, CtxInv
<1> QED
  BY <1>1, ServerInvariance, PTL

(* codec.Close() comes after the last response, and leaves no context in   *)
(* svc.Pending.                                                            *)
THEOREM ClosedLast == Spec => []ClosedMeansAnswered
<1>1. ServerInv => ClosedMeansAnswered
  <2> SUFFICES ASSUME ServerInv, closed PROVE ClosedMeansAnswered
    BY DEF ClosedMeansAnswered
  <2>1. pc[Reader] = "done" /\ \A n \in Handlers : pc[n] \in {"none", "done"}
    BY DEF ServerInv, StageInv, Active
  <2>2. DOMAIN pending = {}
    BY <2>1 DEF ServerInv, CtxInv, Registered, Responding
  <2>3. \A n \in 1 .. nread : n \in Handlers
    BY ServerAssumption DEF ServerInv, TypeOK, Handlers
  <2>4. \A n \in 1 .. nread : sent[n] # {} \/ broken \/ n \in dropped
    BY <2>1, <2>3 DEF ServerInv, SentInv
  <2> QED
    BY <2>1, <2>2, <2>4 DEF ClosedMeansAnswered
<1> QED
  BY <1>1, ServerInvariance, PTL
=============================================================================
