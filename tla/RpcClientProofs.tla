--------------------------- MODULE RpcClientProofs ---------------------------
(***************************************************************************)
(* Proofs about RpcClient, for every set of callers and every channel      *)
(* capacity.  IInv is the inductive invariant; there is one lemma for each *)
(* action, and the theorems follow from IInv.                              *)
(***************************************************************************)
EXTENDS RpcClient, FiniteSetTheorems, TLAPS

-----------------------------------------------------------------------------
(* Facts about calls, pending and done() *)

(* The objects of a call are pairs, and equal pairs have equal parts.      *)
LEMMA ObjFacts ==
  /\ \A t \in Callers : Main(t) \in Objs
  /\ \A t \in Calls : Cancel(t) \in Objs
  /\ \A o \in Objs : o[1] \in Callers /\ o[2] \in {"main", "cancel"} /\ o = <<o[1], o[2]>>
  /\ \A t, u : Main(t) = Main(u) => t = u
  /\ \A t, u : Cancel(t) = Cancel(u) => t = u
  /\ \A t, u : Main(t) # Cancel(u)
BY DEF Objs, Main, Cancel, Callers

(* The call a goroutine is sending is one of its two calls.                *)
LEMMA CurFacts ==
  ASSUME TypeOK
  PROVE  \A t \in Callers :
           /\ Obj(t) \in Objs
           /\ cur[t] = "main" => Obj(t) = Main(t)
           /\ cur[t] = "cancel" => Obj(t) = Cancel(t) /\ t \in Calls
BY DEF TypeOK, Obj, Main, Cancel, Objs, Callers

(* pending is a finite map from assigned sequence numbers to calls.        *)
LEMMA PendingFacts ==
  ASSUME TypeOK
  PROVE  /\ DOMAIN pending \subseteq 1 .. seq
         /\ pending \in [DOMAIN pending -> Objs]
         /\ Range(pending) \subseteq Objs
         /\ \A o : o \in Range(pending) <=> \E s \in DOMAIN pending : pending[s] = o
BY DEF TypeOK, Range

(* delete(client.pending, s) removes the call under s and no other.        *)
LEMMA DeleteFacts ==
  ASSUME TypeOK, SeqInv, NEW s, Delete(s)
  PROVE  /\ DOMAIN pending' = DOMAIN pending \ {s}
         /\ \A k \in DOMAIN pending' : pending'[k] = pending[k]
         /\ pending' \in [DOMAIN pending' -> Objs]
         /\ Range(pending') = Range(pending) \ {Lookup(s)}
<1>1. pending' = [k \in DOMAIN pending \cap (DOMAIN pending \ {s}) |-> pending[k]]
  BY DEF Delete, Restrict
<1>2. /\ DOMAIN pending' = DOMAIN pending \ {s}
      /\ \A k \in DOMAIN pending' : pending'[k] = pending[k]
  BY <1>1
<1>3. pending' \in [DOMAIN pending' -> Objs]
  BY <1>1, <1>2, PendingFacts
<1>4. \A o : o \in Range(pending') <=> \E k \in DOMAIN pending' : pending'[k] = o
  BY <1>1 DEF Range
<1>5. ASSUME NEW o \in Range(pending) \ {Lookup(s)} PROVE o \in Range(pending')
  BY <1>2, <1>4, PendingFacts DEF Lookup
<1>6. ASSUME NEW o \in Range(pending') PROVE o \in Range(pending) \ {Lookup(s)}
  <2>1. PICK k \in DOMAIN pending : k # s /\ pending[k] = o
    BY <1>2, <1>4
  <2>2. s \in DOMAIN pending => pending[s] # o
    BY <2>1 DEF SeqInv
  <2>3. o # NoCall
    BY <2>1, PendingFacts, ClientAssumption
  <2> QED
    BY <2>1, <2>2, <2>3, PendingFacts DEF Lookup
<1> QED
  BY <1>2, <1>3, <1>5, <1>6

(* done() for a call that has not completed puts it into its channel or    *)
(* drops it; a call made by Client.Call is not dropped, because the        *)
(* channel has room for both calls that use it.                            *)
LEMMA DoneFacts ==
  ASSUME TypeOK, DoneInv, CallNeverDropped,
         NEW o \in Objs, completed[o] = 0, done(o)
  PROVE  /\ inChan' \cup discarded' = inChan \cup discarded \cup {o}
         /\ inChan' \subseteq Objs /\ discarded' \subseteq Objs
         /\ completed' = [completed EXCEPT ![o] = 1]
         /\ CallNeverDropped'
<1>1. ASSUME o[1] \in Calls, Load(o) >= Cap(o)
      PROVE  FALSE
  <2> DEFINE C == {x \in inChan : x[1] \in Chan(o)}
             other == IF o = Main(o[1]) THEN Cancel(o[1]) ELSE Main(o[1])
  <2>1. Cardinality(C) >= 2
    BY <1>1 DEF Load, Cap
  <2>2. o \notin inChan
    BY DEF DoneInv, TypeOK
  <2>3. C \subseteq {other}
    <3> SUFFICES ASSUME NEW x \in C PROVE x = other
      OBVIOUS
    <3>1. x \in Objs /\ x[1] = o[1] /\ x # o
      BY <1>1, <2>2 DEF TypeOK, Chan
    <3> QED
      BY <3>1, <1>1, ObjFacts DEF Main, Cancel
  <2>4. IsFiniteSet({other}) /\ Cardinality({other}) = 1
    BY FS_Singleton
  <2>5. Cardinality(C) <= 1
    BY <2>3, <2>4, FS_Subset
  <2>6. Cardinality(C) \in Nat
    BY <2>3, <2>4, FS_Subset, FS_CardinalityType
  <2> QED
    BY <2>1, <2>5, <2>6
<1>2. CallNeverDropped'
  <2> SUFFICES ASSUME NEW x \in discarded' PROVE x[1] \in GoCalls
    BY DEF CallNeverDropped
  <2>1. CASE x \in discarded
    BY <2>1 DEF CallNeverDropped
  <2>2. CASE x \notin discarded
    <3>1. x = o /\ Load(o) >= Cap(o)
      BY <2>2 DEF done
    <3> QED
      BY <3>1, <1>1, ObjFacts DEF Callers
  <2> QED
    BY <2>1, <2>2
<1>3. completed' = [completed EXCEPT ![o] = 1]
  BY DEF done, TypeOK
<1> QED
  BY <1>2, <1>3 DEF done, TypeOK

(* What Complete does to a call that has not completed yet.                *)
LEMMA CompleteFacts ==
  ASSUME TypeOK, DoneInv, CallNeverDropped, NEW o \in Objs \cup {NoCall},
         NEW e \in Errors, o # NoCall => completed[o] = 0, Complete(o, e)
  PROVE  /\ inChan' \cup discarded' = (inChan \cup discarded \cup {o}) \ {NoCall}
         /\ inChan' \subseteq Objs /\ discarded' \subseteq Objs
         /\ completed' \in [Objs -> Nat] /\ error' \in [Objs -> Errors]
         /\ \A x \in Objs : /\ completed'[x] = IF x = o THEN 1 ELSE completed[x]
                            /\ error'[x] = IF x = o THEN e ELSE error[x]
         /\ CallNeverDropped'
<1>1. CASE o = NoCall
  BY <1>1, ClientAssumption DEF Complete, TypeOK, CallNeverDropped
<1>2. CASE o # NoCall
  <2>1. o \in Objs /\ error' = [error EXCEPT ![o] = e] /\ done(o)
    BY <1>2 DEF Complete
  <2> QED
    BY <2>1, <1>2, DoneFacts, ClientAssumption DEF TypeOK
<1> QED
  BY <1>1, <1>2

-----------------------------------------------------------------------------
(* The initial state satisfies the invariant.                              *)
LEMMA InitInv == Init => IInv
<1> SUFFICES ASSUME Init PROVE IInv
  OBVIOUS
<1>0. Range(pending) = {} /\ DOMAIN pending = {}
  BY DEF Init, Range
<1>1. TypeOK
  <2>1. {} \in SUBSET (1 .. seq) /\ pending \in [{} -> Objs]
    BY <1>0 DEF Init
  <2> QED
    BY <2>1, ClientAssumption DEF Init, TypeOK, Errors, NoResp, Callers
<1>2. FreshInv
  <2>1. \A o \in Objs : Fresh(o)
    <3>1. NoCall \notin Objs /\ resp.call = NoCall
      BY ClientAssumption DEF Init, NoResp
    <3> QED
      BY <1>0, <3>1 DEF Init, Fresh
  <2>2. \A t \in Callers : pc[t] = "idle" /\ cur[t] = "main" /\ Obj(t) \in Objs
    BY ObjFacts DEF Init, Obj, Main
  <2> QED
    BY <2>1, <2>2, ObjFacts DEF FreshInv
<1>3. MutexInv /\ InputInv /\ DoneInv /\ ReachInv
  BY <1>0, ClientAssumption DEF Init, MutexInv, InputInv, DoneInv, ReachInv, NoResp, Sending
<1>4. SeqInv
  BY <1>0, ObjFacts DEF Init, SeqInv, Obj, Main
<1>5. CompletedOnce /\ ReplyToItsCall /\ CallNeverDropped /\ SuccessMeansReplied
  BY ObjFacts DEF Init, CompletedOnce, ReplyToItsCall, CallNeverDropped, SuccessMeansReplied, NoResp
<1> QED
  BY <1>1, <1>2, <1>3, <1>4, <1>5 DEF IInv

-----------------------------------------------------------------------------
(* Steps that move a goroutine and change nothing else *)

LEMMA GoInv == ASSUME IInv, NEW t \in Callers, Go(t) PROVE IInv'
<1> USE DEF IInv
<1>0. UNCHANGED <<cur, ctxDone, result, clientVars, callVars, inputVars, netVars>>
      /\ pc[t] = "idle" /\ pc' = [pc EXCEPT ![t] = "lock"]
  BY DEF Go, Goto
<1>1. TypeOK'
  BY <1>0 DEF TypeOK, clientVars, callVars, inputVars, netVars
<1>2. FreshInv'
  <2>1. \A o : Fresh(o) => Fresh(o)'
    BY <1>0 DEF Fresh, clientVars, callVars, inputVars
  <2>2. \A u \in Callers : Obj(u)' = Obj(u) /\ (u = t \/ pc'[u] = pc[u])
    BY <1>0 DEF Obj, TypeOK
  <2>3. pc'[t] # pc[t] /\ cur' = cur
    BY <1>0 DEF TypeOK
  <2> QED
    BY <1>0, <2>1, <2>2, <2>3 DEF FreshInv, TypeOK, Cancel
<1>3. MutexInv' /\ SeqInv' /\ ReachInv'
  BY <1>0 DEF TypeOK, MutexInv, SeqInv, ReachInv, Reachable, Obj, Main, Sending,
              clientVars, callVars, inputVars, netVars
<1>4. InputInv' /\ DoneInv' /\ CompletedOnce' /\ ReplyToItsCall' /\ CallNeverDropped'
      /\ SuccessMeansReplied'
  BY <1>0 DEF InputInv, DoneInv, CompletedOnce, ReplyToItsCall, CallNeverDropped,
              SuccessMeansReplied, Main, clientVars, callVars, inputVars
<1> QED
  BY <1>1, <1>2, <1>3, <1>4

LEMMA ContextEndsInv == ASSUME IInv, NEW t \in Callers, ContextEnds(t) PROVE IInv'
<1> USE DEF IInv
<1>0. UNCHANGED <<pc, cur, result, clientVars, callVars, inputVars, netVars>>
      /\ t \in Calls /\ ctxDone' = ctxDone \cup {t}
  BY DEF ContextEnds
<1>1. TypeOK'
  BY <1>0 DEF TypeOK, clientVars, callVars, inputVars, netVars
<1>2. FreshInv' /\ MutexInv' /\ SeqInv' /\ ReachInv'
  BY <1>0 DEF FreshInv, Fresh, MutexInv, SeqInv, ReachInv, Reachable, Obj, Main, Cancel,
              clientVars, callVars, inputVars, netVars
<1>3. InputInv' /\ DoneInv' /\ CompletedOnce' /\ ReplyToItsCall' /\ CallNeverDropped'
      /\ SuccessMeansReplied'
  BY <1>0 DEF InputInv, DoneInv, CompletedOnce, ReplyToItsCall, CallNeverDropped,
              SuccessMeansReplied, Main, clientVars, callVars, inputVars
<1> QED
  BY <1>1, <1>2, <1>3

LEMMA SelectCtxInv == ASSUME IInv, NEW t \in Callers, SelectCtx(t) PROVE IInv'
<1> USE DEF IInv
<1>0. UNCHANGED <<cur, ctxDone, result, clientVars, callVars, inputVars, netVars>>
      /\ pc[t] = "wait" /\ t \in ctxDone /\ pc' = [pc EXCEPT ![t] = "cancel"]
  BY DEF SelectCtx, Goto
<1>1. TypeOK'
  BY <1>0 DEF TypeOK, clientVars, callVars, inputVars, netVars
<1>2. FreshInv'
  <2>1. \A o : Fresh(o) => Fresh(o)'
    BY <1>0 DEF Fresh, clientVars, callVars, inputVars
  <2>2. \A u \in Callers : Obj(u)' = Obj(u) /\ (u = t \/ pc'[u] = pc[u])
    BY <1>0 DEF Obj, TypeOK
  <2>3. pc'[t] # pc[t] /\ cur' = cur
    BY <1>0 DEF TypeOK
  <2> QED
    BY <1>0, <2>1, <2>2, <2>3 DEF FreshInv, TypeOK, Cancel
<1>3. MutexInv' /\ SeqInv' /\ ReachInv'
  BY <1>0 DEF TypeOK, MutexInv, SeqInv, ReachInv, Reachable, Obj, Main, Sending,
              clientVars, callVars, inputVars, netVars
<1>4. InputInv' /\ DoneInv' /\ CompletedOnce' /\ ReplyToItsCall' /\ CallNeverDropped'
      /\ SuccessMeansReplied'
  BY <1>0 DEF InputInv, DoneInv, CompletedOnce, ReplyToItsCall, CallNeverDropped,
              SuccessMeansReplied, Main, clientVars, callVars, inputVars
<1> QED
  BY <1>1, <1>2, <1>3, <1>4

-----------------------------------------------------------------------------
(* send *)

LEMMA WriteRequestInv ==
  ASSUME IInv, NEW t \in Callers, NEW ok \in BOOLEAN, NEW reached \in BOOLEAN,
         WriteRequest(t, ok, reached)
  PROVE  IInv'
<1> USE DEF IInv
<1> DEFINE m == [seq |-> request[1], method |-> request[2], args |-> Obj(t)]
<1>0. /\ UNCHANGED <<cur, ctxDone, result, clientVars, callVars, inputVars, codecOpen>>
      /\ pc[t] = "write" /\ wire' \subseteq wire \cup {m}
      /\ pc' = [pc EXCEPT ![t] = IF ok THEN "wrote" ELSE "failed"]
  BY DEF WriteRequest, Goto
<1>1. /\ m.seq = callSeq[Obj(t)] /\ m.method = Obj(t) /\ m.args = Obj(t)
      /\ m \in Requests
  BY <1>0, CurFacts DEF MutexInv, Sending, TypeOK, Requests
<1>2. TypeOK'
  BY <1>0, <1>1 DEF TypeOK, clientVars, callVars, inputVars
<1>3. FreshInv'
  BY <1>0 DEF FreshInv, Fresh, Obj, TypeOK, clientVars, callVars, inputVars, Cancel
<1>4. MutexInv' /\ ReachInv'
  BY <1>0 DEF TypeOK, MutexInv, ReachInv, Reachable, Obj, Main, Sending,
              clientVars, callVars, inputVars
<1>5. SeqInv'
  <2>1. \A u \in Callers : pc'[u] # "returned" => pc[u] # "returned"
    BY <1>0 DEF TypeOK
  <2>2. m.seq <= seq /\ (m.seq \in DOMAIN pending => pending[m.seq] = m.args)
    BY <1>0, <1>1 DEF SeqInv
  <2> QED
    BY <1>0, <1>1, <2>1, <2>2 DEF SeqInv, Obj, clientVars, callVars
<1>6. InputInv' /\ DoneInv' /\ CompletedOnce' /\ ReplyToItsCall' /\ CallNeverDropped'
      /\ SuccessMeansReplied'
  BY <1>0 DEF InputInv, DoneInv, CompletedOnce, ReplyToItsCall, CallNeverDropped,
              SuccessMeansReplied, Main, clientVars, callVars, inputVars
<1> QED
  BY <1>2, <1>3, <1>4, <1>5, <1>6

(* What the return from send does to the goroutine.                        *)
LEMMA SendReturnsFacts ==
  ASSUME TypeOK, NEW t \in Callers, SendReturns(t)
  PROVE  /\ UNCHANGED <<cur, ctxDone>>
         /\ pc' = [pc EXCEPT ![t] = pc'[t]]
         /\ pc'[t] \in {"returned", "wait", "sent"}
         /\ pc'[t] = "wait" => t \in Calls /\ cur[t] = "main"
         /\ pc'[t] # "returned" => cur[t] = "main"
         /\ result' \in [Callers -> Errors \cup {"none", "ctx"}]
         /\ \A u \in Callers : result'[u] = "nil" => result[u] = "nil"
BY DEF SendReturns, Goto, TypeOK

(* FreshInv survives a return from send that touched only the call sent.   *)
LEMMA SendReturnsFresh ==
  ASSUME TypeOK, FreshInv, NEW t \in Callers, SendReturns(t),
         \A x \in Objs \ {Obj(t)} : Fresh(x) => Fresh(x)'
  PROVE  FreshInv'
<1> SUFFICES ASSUME NEW u \in Callers
             PROVE  /\ pc'[u] \in {"idle", "sent"} => cur'[u] = "main"
                    /\ pc'[u] \in {"idle", "lock"} => Fresh(Obj(u))'
                    /\ u \in Calls /\ cur'[u] = "main" => Fresh(Cancel(u))'
                    /\ pc'[u] \in {"wait", "cancel"} => u \in Calls /\ cur'[u] = "main"
  BY DEF FreshInv
<1>1. Obj(u)' = Obj(u) /\ Obj(u) \in Objs /\ (u # t => Obj(u) # Obj(t))
  BY SendReturnsFacts, CurFacts DEF Obj
<1>2. u \in Calls /\ cur[u] = "main" =>
        Cancel(u) \in Objs /\ Cancel(u) # Obj(t) /\ Cancel(u)' = Cancel(u)
  BY ObjFacts DEF Cancel, Obj
<1>3. u \in Calls /\ cur'[u] = "main" => Fresh(Cancel(u))'
  BY <1>2, SendReturnsFacts DEF FreshInv
<1>4. CASE u = t
  BY <1>3, <1>4, SendReturnsFacts DEF TypeOK
<1>5. CASE u # t
  BY <1>1, <1>3, <1>5, SendReturnsFacts DEF FreshInv, TypeOK
<1> QED
  BY <1>4, <1>5

LEMMA WroteInv == ASSUME IInv, NEW t \in Callers, Wrote(t) PROVE IInv'
<1> USE DEF IInv
<1>0. /\ UNCHANGED <<request, seq, pending, closing, shutdown, callVars, inputVars, netVars>>
      /\ pc[t] = "wrote" /\ reqMutex' = NoOne /\ SendReturns(t)
  BY DEF Wrote
<1>1. TypeOK'
  BY <1>0, SendReturnsFacts DEF TypeOK, callVars, inputVars, netVars
<1>2. FreshInv'
  BY <1>0, SendReturnsFresh DEF Fresh, callVars, inputVars
<1>3. MutexInv'
  <2>1. ASSUME NEW u \in Callers, pc'[u] \in Sending PROVE FALSE
    BY <1>0, <2>1, SendReturnsFacts DEF TypeOK, MutexInv, Sending
  <2> QED
    BY <1>0, <2>1, ClientAssumption DEF MutexInv
<1>4. SeqInv' /\ ReachInv'
  <2>1. \A u \in Callers : /\ Obj(u)' = Obj(u)
                           /\ pc'[u] # "returned" => pc[u] # "returned"
                           /\ u # t => pc'[u] = pc[u]
    BY <1>0, SendReturnsFacts DEF TypeOK, Obj
  <2>2. SeqInv'
    BY <1>0, <2>1 DEF SeqInv, callVars, netVars
  <2>3. ReachInv'
    BY <1>0, <2>1, SendReturnsFacts DEF ReachInv, Reachable, Main, Sending, callVars, inputVars
  <2> QED
    BY <2>2, <2>3
<1>5. InputInv' /\ DoneInv' /\ CompletedOnce' /\ ReplyToItsCall' /\ CallNeverDropped'
      /\ SuccessMeansReplied'
  BY <1>0, SendReturnsFacts
     DEF InputInv, DoneInv, CompletedOnce, ReplyToItsCall, CallNeverDropped,
         SuccessMeansReplied, Main, callVars, inputVars
<1> QED
  BY <1>1, <1>2, <1>3, <1>4, <1>5

LEMMA RegisterInv == ASSUME IInv, NEW t \in Callers, Register(t) PROVE IInv'
<1> USE DEF IInv
<1> DEFINE o == Obj(t)  n == seq + 1
<1>0. /\ UNCHANGED <<cur, ctxDone, result, closing, shutdown, error, inChan,
                     discarded, completed, replied, inputVars, netVars>>
      /\ pc[t] = "lock" /\ reqMutex = NoOne /\ ~shutdown /\ callSeq[o] = 0
      /\ reqMutex' = t /\ seq' = n /\ request' = <<n, o>>
      /\ callSeq' = [callSeq EXCEPT ![o] = n]
      /\ pending' = [s \in DOMAIN pending \cup {n} |-> IF s = n THEN o ELSE pending[s]]
      /\ pc' = [pc EXCEPT ![t] = "write"]
  BY DEF Register, Goto, LockReq, Down, NextSeq
<1>1. o \in Objs /\ n \in Nat \ {0} /\ n \notin DOMAIN pending
  BY CurFacts, PendingFacts DEF TypeOK
<1>2. /\ DOMAIN pending' = DOMAIN pending \cup {n}
      /\ \A s \in DOMAIN pending : pending'[s] = pending[s] /\ s # n
      /\ pending'[n] = o
      /\ Range(pending') = Range(pending) \cup {o}
  <2>1. /\ DOMAIN pending' = DOMAIN pending \cup {n}
        /\ \A s \in DOMAIN pending : pending'[s] = pending[s] /\ s # n
        /\ pending'[n] = o
    BY <1>0, <1>1
  <2> QED
    BY <2>1 DEF Range
<1>3. TypeOK'
  <2>1. /\ DOMAIN pending' \in SUBSET (1 .. seq')
        /\ pending' \in [DOMAIN pending' -> Objs]
    BY <1>0, <1>1, <1>2, PendingFacts DEF TypeOK
  <2>2. \E S \in SUBSET (1 .. seq') : pending' \in [S -> Objs]
    BY <2>1
  <2>3. /\ pc' \in [Callers -> {"idle", "lock", "write", "wrote", "failed", "wait", "sent",
                                 "cancel", "returned"}]
        /\ seq' \in Nat /\ callSeq' \in [Objs -> Nat]
        /\ reqMutex' \in Callers \cup {NoOne} /\ request' \in Nat \X (Objs \cup {NoCall})
    BY <1>0, <1>1 DEF TypeOK
  <2>4. UNCHANGED <<cur, ctxDone, result, closing, shutdown, error, inChan, discarded,
                    completed, replied, inputVars, netVars>>
    BY <1>0
  <2> QED
    BY <2>2, <2>3, <2>4 DEF TypeOK, inputVars, netVars
<1>4. Fresh(o) /\ o \notin Range(pending)
  BY <1>0 DEF FreshInv, Fresh
<1>5. FreshInv'
  <2> SUFFICES ASSUME NEW u \in Callers
               PROVE  /\ pc'[u] \in {"idle", "sent"} => cur'[u] = "main"
                      /\ pc'[u] \in {"idle", "lock"} => Fresh(Obj(u))'
                      /\ u \in Calls /\ cur'[u] = "main" => Fresh(Cancel(u))'
                      /\ pc'[u] \in {"wait", "cancel"} => u \in Calls /\ cur'[u] = "main"
    BY DEF FreshInv
  <2>1. \A x \in Objs : Fresh(x) /\ x # o => Fresh(x)'
    BY <1>0, <1>2 DEF Fresh, inputVars, TypeOK
  <2>2. Obj(u)' = Obj(u) /\ Obj(u) \in Objs /\ (u # t => Obj(u) # o)
    BY <1>0, CurFacts DEF Obj
  <2>3. u \in Calls /\ cur[u] = "main" => Cancel(u) \in Objs /\ Cancel(u) # o
    BY ObjFacts DEF Cancel, Obj
  <2> QED
    BY <1>0, <2>1, <2>2, <2>3 DEF FreshInv, TypeOK, Cancel
<1>6. MutexInv'
  <2>1. \A u \in Callers : (pc'[u] \in Sending <=> reqMutex' = u) /\ (pc'[u] \in Sending => u = t)
    BY <1>0, <1>1, ClientAssumption DEF MutexInv, Sending, TypeOK
  <2>2. \A u \in Callers : pc'[u] \in Sending => request' = <<callSeq'[Obj(u)'], Obj(u)'>>
    BY <1>0, <1>1, <2>1 DEF Obj, TypeOK
  <2> QED
    BY <2>1, <2>2 DEF MutexInv
<1>7. SeqInv'
  <2>1. \A s \in DOMAIN pending' : callSeq'[pending'[s]] = s
    BY <1>0, <1>1, <1>2, <1>4, PendingFacts DEF SeqInv, TypeOK
  <2>2. ASSUME NEW u \in Callers, pc'[u] # "returned"
        PROVE  /\ callSeq'[Obj(u)'] <= seq'
               /\ callSeq'[Obj(u)'] \in DOMAIN pending'
                    => pending'[callSeq'[Obj(u)']] = Obj(u)'
    <3>1. Obj(u)' = Obj(u) /\ Obj(u) \in Objs /\ (u # t => Obj(u) # o)
      BY <1>0, CurFacts DEF Obj
    <3>2. CASE u = t
      BY <1>0, <1>1, <1>2, <3>1, <3>2 DEF TypeOK
    <3>3. CASE u # t
      <4>1. /\ callSeq'[Obj(u)] = callSeq[Obj(u)] /\ callSeq[Obj(u)] \in Nat
            /\ callSeq[Obj(u)] <= seq
            /\ callSeq[Obj(u)] \in DOMAIN pending => pending[callSeq[Obj(u)]] = Obj(u)
        BY <1>0, <3>1, <3>3, <2>2 DEF SeqInv, TypeOK
      <4> QED
        BY <1>0, <1>1, <1>2, <3>1, <4>1 DEF TypeOK
    <3> QED
      BY <3>2, <3>3
  <2>3. ASSUME NEW m \in wire'
        PROVE  /\ m.seq <= seq' /\ m.method = m.args
               /\ m.seq \in DOMAIN pending' => pending'[m.seq] = m.args
    <3>1. m \in wire /\ m.seq \in Nat
      BY <1>0 DEF netVars, TypeOK, Requests
    <3>2. m.seq <= seq /\ m.method = m.args
          /\ (m.seq \in DOMAIN pending => pending[m.seq] = m.args)
      BY <3>1 DEF SeqInv
    <3> QED
      BY <1>0, <1>2, <3>1, <3>2 DEF TypeOK
  <2> QED
    BY <2>1, <2>2, <2>3 DEF SeqInv
<1>8. InputInv'
  BY <1>0, <1>2, <1>4 DEF InputInv, Fresh, inputVars
<1>9. DoneInv' /\ CompletedOnce' /\ ReplyToItsCall' /\ CallNeverDropped' /\ SuccessMeansReplied'
  BY <1>0, <1>2, <1>4
     DEF DoneInv, Fresh, CompletedOnce, ReplyToItsCall, CallNeverDropped,
         SuccessMeansReplied, Main, inputVars
<1>10. ReachInv'
  <2> SUFFICES ASSUME NEW u \in Callers, cur'[u] = "main",
                      pc'[u] \in Sending \cup {"wait", "sent"}
               PROVE  Reachable(u)'
    BY DEF ReachInv
  <2>1. CASE u = t
    BY <1>0, <1>2, <2>1, CurFacts DEF Reachable, Main, Obj
  <2>2. CASE u # t
    <3>1. Reachable(u)
      BY <1>0, <2>2 DEF ReachInv, TypeOK
    <3> QED
      BY <1>0, <1>2, <3>1 DEF Reachable, Main, inputVars
  <2> QED
    BY <2>1, <2>2
<1> QED
  BY <1>3, <1>5, <1>6, <1>7, <1>8, <1>9, <1>10

(* Completing a call for the first time keeps the facts about completed    *)
(* calls, if an absent error stands for a reply.                           *)
LEMMA CompletePreserves ==
  ASSUME TypeOK, DoneInv, CallNeverDropped, CompletedOnce,
         NEW o \in Objs \cup {NoCall}, NEW e \in Errors,
         o # NoCall => completed[o] = 0, Complete(o, e),
         replied \subseteq replied', e = "nil" => o \in replied' \cup {NoCall}
  PROVE  /\ CompletedOnce' /\ CallNeverDropped'
         /\ \A x \in inChan' \cup discarded' : completed'[x] # 0
         /\ \A x \in Objs : completed'[x] # 0 /\ error'[x] = "nil" => x \in replied'
<1>1. \A x \in Objs : completed[x] \in Nat /\ completed[x] <= 1
  BY DEF TypeOK, CompletedOnce
<1>2. CompletedOnce' /\ CallNeverDropped'
  BY <1>1, CompleteFacts DEF CompletedOnce
<1>3. ASSUME NEW x \in inChan' \cup discarded' PROVE completed'[x] # 0
  <2>1. x \in Objs /\ x \in inChan \cup discarded \cup {o}
    BY CompleteFacts
  <2>2. completed'[x] = IF x = o THEN 1 ELSE completed[x]
    BY <2>1, CompleteFacts
  <2> QED
    BY <2>1, <2>2 DEF DoneInv
<1>4. \A x \in Objs : completed'[x] # 0 /\ error'[x] = "nil" => x \in replied'
  BY CompleteFacts, ClientAssumption DEF DoneInv
<1> QED
  BY <1>2, <1>3, <1>4

LEMMA RefuseInv == ASSUME IInv, NEW t \in Callers, Refuse(t) PROVE IInv'
<1> USE DEF IInv
<1> DEFINE o == Obj(t)  e == IF Down THEN "ErrShutdown" ELSE "Canceled"
<1>0. /\ UNCHANGED <<clientVars, callSeq, replied, inputVars, netVars>>
      /\ pc[t] = "lock" /\ Complete(o, e) /\ SendReturns(t)
  BY DEF Refuse
<1>1. o \in Objs /\ Fresh(o) /\ completed[o] = 0 /\ e \in Errors \ {"nil"}
  BY <1>0, CurFacts DEF FreshInv, Fresh, Errors
<1> HIDE DEF e
<1>2. /\ inChan' \cup discarded' = (inChan \cup discarded \cup {o}) \ {NoCall}
      /\ inChan' \subseteq Objs /\ discarded' \subseteq Objs
      /\ completed' \in [Objs -> Nat] /\ error' \in [Objs -> Errors]
      /\ \A x \in Objs : /\ completed'[x] = IF x = o THEN 1 ELSE completed[x]
                         /\ error'[x] = IF x = o THEN e ELSE error[x]
  BY <1>0, <1>1, CompleteFacts
<1>3. /\ CompletedOnce' /\ CallNeverDropped'
      /\ \A x \in inChan' \cup discarded' : completed'[x] # 0
      /\ \A x \in Objs : completed'[x] # 0 /\ error'[x] = "nil" => x \in replied'
  BY <1>0, <1>1, CompletePreserves
<1>4. TypeOK'
  BY <1>0, <1>2, SendReturnsFacts DEF TypeOK, clientVars, inputVars, netVars
<1>5. FreshInv'
  <2>1. \A x \in Objs \ {o} : Fresh(x) => Fresh(x)'
    BY <1>0, <1>2 DEF Fresh, clientVars, inputVars
  <2> QED
    BY <1>0, <2>1, SendReturnsFresh
<1>6. \A u \in Callers : /\ Obj(u)' = Obj(u)
                         /\ pc'[u] # "returned" => pc[u] # "returned"
                         /\ u # t => pc'[u] = pc[u]
  BY <1>0, SendReturnsFacts DEF TypeOK, Obj
<1>7. MutexInv'
  <2>1. pc'[t] \notin Sending /\ pc[t] \notin Sending
    BY <1>0, SendReturnsFacts DEF Sending
  <2> QED
    BY <1>0, <1>6, <2>1 DEF MutexInv, clientVars
<1>8. SeqInv'
  BY <1>0, <1>6 DEF SeqInv, clientVars, netVars
<1>9. InputInv'
  BY <1>0, <1>1, <1>2 DEF InputInv, Fresh, clientVars, inputVars, TypeOK
<1>10. DoneInv'
  BY <1>0, <1>1, <1>2, <1>3, PendingFacts DEF DoneInv, Fresh, clientVars, inputVars
<1>11. ReachInv'
  <2>1. \A u \in Callers : Reachable(u) => Reachable(u)'
    BY <1>0, <1>2, ObjFacts, ClientAssumption DEF Reachable, clientVars, inputVars, Main
  <2>2. cur[t] = "main" => Reachable(t)'
    BY <1>1, <1>2, CurFacts, ClientAssumption DEF Reachable, Main
  <2> QED
    BY <1>0, <1>6, <2>1, <2>2, SendReturnsFacts DEF ReachInv
<1>12. ReplyToItsCall' /\ SuccessMeansReplied'
  BY <1>0, SendReturnsFacts DEF ReplyToItsCall, SuccessMeansReplied, inputVars, Main
<1> QED
  BY <1>3, <1>4, <1>5, <1>7, <1>8, <1>9, <1>10, <1>11, <1>12

LEMMA WriteFailedInv == ASSUME IInv, NEW t \in Callers, WriteFailed(t) PROVE IInv'
<1> USE DEF IInv
<1> DEFINE s == callSeq[Obj(t)]  o == Lookup(s)
<1>0. /\ UNCHANGED <<request, seq, closing, shutdown, callSeq, replied, inputVars, netVars>>
      /\ pc[t] = "failed" /\ Delete(s) /\ Complete(o, "write") /\ reqMutex' = NoOne
      /\ SendReturns(t)
  BY DEF WriteFailed
<1>1. reqMutex = t /\ ~shutdown
  BY <1>0, ClientAssumption DEF MutexInv, Sending, InputInv
<1>2. o \in Objs \cup {NoCall} /\ (o # NoCall => o = Obj(t) /\ o \in Range(pending))
  BY <1>0, PendingFacts DEF Lookup, SeqInv
<1>3. o # NoCall => completed[o] = 0
  BY <1>1, <1>2 DEF DoneInv
<1>4. /\ DOMAIN pending' = DOMAIN pending \ {s}
      /\ \A k \in DOMAIN pending' : pending'[k] = pending[k]
      /\ pending' \in [DOMAIN pending' -> Objs]
      /\ Range(pending') = Range(pending) \ {o}
  BY <1>0, DeleteFacts
<1>5. /\ inChan' \cup discarded' = (inChan \cup discarded \cup {o}) \ {NoCall}
      /\ inChan' \subseteq Objs /\ discarded' \subseteq Objs
      /\ completed' \in [Objs -> Nat] /\ error' \in [Objs -> Errors]
      /\ \A x \in Objs : /\ completed'[x] = IF x = o THEN 1 ELSE completed[x]
                         /\ error'[x] = IF x = o THEN "write" ELSE error[x]
  BY <1>0, <1>2, <1>3, CompleteFacts DEF Errors
<1>6. /\ CompletedOnce' /\ CallNeverDropped'
      /\ \A x \in inChan' \cup discarded' : completed'[x] # 0
      /\ \A x \in Objs : completed'[x] # 0 /\ error'[x] = "nil" => x \in replied'
  BY <1>0, <1>2, <1>3, CompletePreserves DEF Errors
<1> HIDE DEF o, s
<1>7. TypeOK'
  <2>1. \E S \in SUBSET (1 .. seq') : pending' \in [S -> Objs]
    BY <1>0, <1>4, PendingFacts
  <2>2. pc' \in [Callers -> {"idle", "lock", "write", "wrote", "failed", "wait", "sent",
                             "cancel", "returned"}]
    BY <1>0, SendReturnsFacts DEF TypeOK
  <2> QED
    BY <1>0, <1>5, <2>1, <2>2, SendReturnsFacts DEF TypeOK, inputVars, netVars
<1>8. FreshInv'
  <2>1. ASSUME NEW x \in Objs \ {Obj(t)}, Fresh(x) PROVE Fresh(x)'
    <3>1. x # o
      BY <1>2, ClientAssumption
    <3>2. completed'[x] = completed[x] /\ x \notin inChan' \cup discarded'
      BY <1>5, <2>1, <3>1 DEF Fresh
    <3> QED
      BY <1>0, <1>4, <2>1, <3>2 DEF Fresh, inputVars
  <2> QED
    BY <1>0, <2>1, SendReturnsFresh
<1>9. \A u \in Callers : /\ Obj(u)' = Obj(u)
                         /\ pc'[u] # "returned" => pc[u] # "returned"
                         /\ u # t => pc'[u] = pc[u]
  BY <1>0, SendReturnsFacts DEF TypeOK, Obj
<1>10. MutexInv'
  <2>1. ASSUME NEW u \in Callers, pc'[u] \in Sending PROVE FALSE
    BY <1>0, <1>9, <2>1, SendReturnsFacts DEF MutexInv, Sending
  <2> QED
    BY <1>0, <2>1, ClientAssumption DEF MutexInv
<1>11. SeqInv'
  BY <1>0, <1>4, <1>9 DEF SeqInv, netVars
<1>12. InputInv'
  BY <1>0, <1>1, <1>2, <1>4, <1>5 DEF InputInv, inputVars, TypeOK
<1>13. DoneInv'
  <2>1. doomed = {}
    BY <1>1 DEF InputInv
  <2> QED
    BY <1>0, <1>1, <1>4, <1>5, <1>6, <2>1, PendingFacts DEF DoneInv, inputVars
<1>14. ReachInv'
  <2>1. \A u \in Callers : Reachable(u) => Reachable(u)'
    BY <1>0, <1>4, <1>5, ObjFacts, ClientAssumption DEF Reachable, inputVars, Main
  <2> QED
    BY <1>0, <1>9, <2>1, SendReturnsFacts DEF ReachInv, Sending
<1>15. ReplyToItsCall' /\ SuccessMeansReplied'
  BY <1>0, SendReturnsFacts DEF ReplyToItsCall, SuccessMeansReplied, inputVars, Main
<1> QED
  BY <1>6, <1>7, <1>8, <1>10, <1>11, <1>12, <1>13, <1>14, <1>15

-----------------------------------------------------------------------------
(* The select of Call, and Close *)

LEMMA ReceiveInv == ASSUME IInv, NEW t \in Callers, Receive(t) PROVE IInv'
<1> USE DEF IInv
<1>0. /\ UNCHANGED <<cur, ctxDone, clientVars, callSeq, error, discarded, completed,
                     replied, inputVars, netVars>>
      /\ pc[t] \in {"wait", "sent"} /\ Main(t) \in inChan /\ inChan' = inChan \ {Main(t)}
      /\ result' = [result EXCEPT ![t] = error[Main(t)]]
      /\ pc' = [pc EXCEPT ![t] = "returned"]
  BY DEF Receive, Goto
<1>1. TypeOK'
  BY <1>0, ObjFacts DEF TypeOK, clientVars, inputVars, netVars
<1>2. \A u \in Callers : Obj(u)' = Obj(u) /\ Main(u)' = Main(u) /\ Cancel(u)' = Cancel(u)
  BY <1>0 DEF Obj, Main, Cancel
<1>3. FreshInv'
  <2>1. \A x : Fresh(x) => Fresh(x)'
    BY <1>0 DEF Fresh, clientVars, inputVars
  <2> QED
    BY <1>0, <1>2, <2>1 DEF FreshInv, TypeOK
<1>4. MutexInv' /\ SeqInv'
  BY <1>0, <1>2 DEF TypeOK, MutexInv, SeqInv, Sending, clientVars, netVars
<1>5. ReachInv'
  <2>1. \A u \in Callers : u # t /\ Reachable(u) => Reachable(u)'
    BY <1>0, <1>2, ObjFacts DEF Reachable, clientVars, inputVars
  <2> QED
    BY <1>0, <2>1 DEF ReachInv, Sending, TypeOK
<1>6. InputInv' /\ DoneInv' /\ CompletedOnce' /\ ReplyToItsCall' /\ CallNeverDropped'
  BY <1>0 DEF InputInv, DoneInv, CompletedOnce, ReplyToItsCall, CallNeverDropped,
              clientVars, inputVars
<1>7. SuccessMeansReplied'
  <2>1. error[Main(t)] = "nil" => Main(t) \in replied
    BY <1>0, ObjFacts DEF DoneInv
  <2> QED
    BY <1>0, <1>2, <2>1 DEF SuccessMeansReplied, TypeOK
<1> QED
  BY <1>1, <1>3, <1>4, <1>5, <1>6, <1>7

LEMMA CancelPendingInv == ASSUME IInv, NEW t \in Callers, CancelPending(t) PROVE IInv'
<1> USE DEF IInv
<1> DEFINE s == callSeq[Main(t)]  again == s # 0 /\ s \in DOMAIN pending
<1>0. /\ UNCHANGED <<ctxDone, reqMutex, request, seq, closing, shutdown, error,
                     inChan, discarded, completed, replied, inputVars, netVars>>
      /\ pc[t] = "cancel" /\ ipc # "draining" /\ Delete(s)
      /\ callSeq' = [callSeq EXCEPT ![Main(t)] = IF s = 0 THEN 1 ELSE s]
      /\ cur' = [cur EXCEPT ![t] = IF again THEN "cancel" ELSE "main"]
      /\ pc' = [pc EXCEPT ![t] = IF again THEN "lock" ELSE "returned"]
      /\ result' = IF again THEN result ELSE [result EXCEPT ![t] = "ctx"]
  BY DEF CancelPending, Goto, MutexFree
<1>1. /\ t \in Calls /\ cur[t] = "main" /\ Obj(t) = Main(t) /\ Fresh(Cancel(t))
      /\ Main(t) \in Objs /\ Cancel(t) \in Objs /\ s \in Nat
  BY <1>0, CurFacts, ObjFacts DEF FreshInv, TypeOK
<1>2. Lookup(s) \in {Main(t), NoCall} /\ doomed = {}
  BY <1>0, <1>1 DEF SeqInv, Lookup, InputInv
<1>3. /\ DOMAIN pending' = DOMAIN pending \ {s}
      /\ \A k \in DOMAIN pending' : pending'[k] = pending[k]
      /\ pending' \in [DOMAIN pending' -> Objs]
      /\ Range(pending') = Range(pending) \ {Lookup(s)}
  BY <1>0, DeleteFacts
<1>4. \A u \in Callers : u # t => /\ Obj(u)' = Obj(u) /\ Obj(u) # Main(t)
                                  /\ pc'[u] = pc[u] /\ cur'[u] = cur[u]
  BY <1>0 DEF Obj, Main, TypeOK
<1>5. /\ pc'[t] = IF again THEN "lock" ELSE "returned"
      /\ cur'[t] = IF again THEN "cancel" ELSE "main"
      /\ Obj(t)' = IF again THEN Cancel(t) ELSE Main(t)
  BY <1>0 DEF Obj, Main, Cancel, TypeOK
<1>6. \A x \in Objs : x # Main(t) => callSeq'[x] = callSeq[x]
  BY <1>0 DEF TypeOK
<1> HIDE DEF again
<1>7. TypeOK'
  <2>1. \E S \in SUBSET (1 .. seq') : pending' \in [S -> Objs]
    BY <1>0, <1>3, PendingFacts
  <2>2. callSeq' \in [Objs -> Nat] /\ cur' \in [Callers -> {"main", "cancel"}]
        /\ result' \in [Callers -> Errors \cup {"none", "ctx"}]
    BY <1>0, <1>1 DEF TypeOK
  <2>3. \A u \in GoCalls : cur'[u] = "main"
    BY <1>1, <1>4, ClientAssumption DEF TypeOK, Callers
  <2>4. pc' \in [Callers -> {"idle", "lock", "write", "wrote", "failed", "wait", "sent",
                             "cancel", "returned"}]
    BY <1>0 DEF TypeOK
  <2> QED
    BY <1>0, <2>1, <2>2, <2>3, <2>4 DEF TypeOK, inputVars, netVars
<1>8. FreshInv'
  <2> SUFFICES ASSUME NEW u \in Callers
               PROVE  /\ pc'[u] \in {"idle", "sent"} => cur'[u] = "main"
                      /\ pc'[u] \in {"idle", "lock"} => Fresh(Obj(u))'
                      /\ u \in Calls /\ cur'[u] = "main" => Fresh(Cancel(u))'
                      /\ pc'[u] \in {"wait", "cancel"} => u \in Calls /\ cur'[u] = "main"
    BY DEF FreshInv
  <2>1. \A x \in Objs : x # Main(t) /\ Fresh(x) => Fresh(x)'
    BY <1>0, <1>3, <1>6 DEF Fresh, inputVars
  <2>2. u \in Calls => Cancel(u) \in Objs /\ Cancel(u) # Main(t) /\ Cancel(u)' = Cancel(u)
    BY ObjFacts DEF Cancel
  <2>3. CASE u = t
    BY <1>1, <1>5, <2>1, <2>2, <2>3
  <2>4. CASE u # t
    BY <1>4, <2>1, <2>2, <2>4, CurFacts DEF FreshInv
  <2> QED
    BY <2>3, <2>4
<1>9. MutexInv'
  <2>1. pc'[t] \notin Sending /\ pc[t] \notin Sending
    BY <1>0, <1>5 DEF Sending
  <2>2. \A u \in Callers : u # t => callSeq'[Obj(u)'] = callSeq[Obj(u)]
    BY <1>4, <1>6, CurFacts
  <2> QED
    BY <1>0, <1>4, <2>1, <2>2 DEF MutexInv
<1>10. SeqInv'
  <2>1. ASSUME NEW k \in DOMAIN pending' PROVE callSeq'[pending'[k]] = k
    <3>1. k \in DOMAIN pending /\ k # s /\ pending'[k] = pending[k] /\ callSeq[pending[k]] = k
      BY <1>3 DEF SeqInv
    <3>2. pending[k] \in Objs /\ pending[k] # Main(t)
      BY <3>1, PendingFacts
    <3> QED
      BY <1>6, <3>1, <3>2
  <2>2. ASSUME NEW u \in Callers, pc'[u] # "returned"
        PROVE  /\ callSeq'[Obj(u)'] <= seq'
               /\ callSeq'[Obj(u)'] \in DOMAIN pending'
                    => pending'[callSeq'[Obj(u)']] = Obj(u)'
    <3>1. CASE u = t
      <4>1. Obj(u)' = Cancel(t) /\ callSeq'[Cancel(t)] = 0
        BY <1>1, <1>5, <1>6, <2>2, <3>1, ObjFacts DEF Fresh
      <4>2. 0 \notin DOMAIN pending'
        BY <1>3, PendingFacts DEF TypeOK
      <4> QED
        BY <1>0, <4>1, <4>2 DEF TypeOK
    <3>2. CASE u # t
      <4>1. callSeq'[Obj(u)'] = callSeq[Obj(u)] /\ pc[u] # "returned"
        BY <1>4, <1>6, <2>2, <3>2, CurFacts
      <4> QED
        BY <1>0, <1>3, <1>4, <3>2, <4>1 DEF SeqInv
    <3> QED
      BY <3>1, <3>2
  <2>3. ASSUME NEW m \in wire'
        PROVE  /\ m.seq <= seq' /\ m.method = m.args
               /\ m.seq \in DOMAIN pending' => pending'[m.seq] = m.args
    BY <1>0, <1>3 DEF SeqInv, netVars
  <2> QED
    BY <2>1, <2>2, <2>3 DEF SeqInv
<1>11. InputInv' /\ DoneInv'
  BY <1>0, <1>2, <1>3 DEF InputInv, DoneInv, inputVars
<1>12. ReachInv'
  <2>1. \A u \in Callers : u # t /\ Reachable(u) => Reachable(u)'
    BY <1>0, <1>2, <1>3, ObjFacts, ClientAssumption DEF Reachable, inputVars, Main
  <2> QED
    BY <1>4, <1>5, <2>1 DEF ReachInv, Sending
<1>13. CompletedOnce' /\ ReplyToItsCall' /\ CallNeverDropped'
  BY <1>0 DEF CompletedOnce, ReplyToItsCall, CallNeverDropped, inputVars
<1>14. SuccessMeansReplied'
  BY <1>0 DEF SuccessMeansReplied, TypeOK, Main
<1> QED
  BY <1>7, <1>8, <1>9, <1>10, <1>11, <1>12, <1>13, <1>14

LEMMA CloseInv == ASSUME IInv, Close \/ CodecClose PROVE IInv'
<1> USE DEF IInv
<1>0. /\ UNCHANGED <<callerVars, reqMutex, request, seq, pending, shutdown, callVars,
                     inputVars, wire>>
      /\ closing' \in BOOLEAN /\ codecOpen' \in BOOLEAN
  BY DEF Close, CodecClose, clientVars, netVars, TypeOK
<1>1. TypeOK'
  BY <1>0 DEF TypeOK, callerVars, callVars, inputVars
<1>2. FreshInv' /\ MutexInv' /\ SeqInv' /\ ReachInv'
  BY <1>0 DEF FreshInv, Fresh, MutexInv, SeqInv, ReachInv, Reachable, Obj, Main, Cancel,
              callerVars, callVars, inputVars
<1>3. InputInv' /\ DoneInv' /\ CompletedOnce' /\ ReplyToItsCall' /\ CallNeverDropped'
      /\ SuccessMeansReplied'
  BY <1>0 DEF InputInv, DoneInv, CompletedOnce, ReplyToItsCall, CallNeverDropped,
              SuccessMeansReplied, Main, callerVars, callVars, inputVars
<1> QED
  BY <1>1, <1>2, <1>3

-----------------------------------------------------------------------------
(* input *)

(* The callers' own state, and what of it the invariant mentions.          *)
LEMMA CallersUnchanged ==
  ASSUME UNCHANGED callerVars
  PROVE  \A u \in Callers : /\ pc'[u] = pc[u] /\ cur'[u] = cur[u] /\ result'[u] = result[u]
                            /\ Obj(u)' = Obj(u) /\ Main(u)' = Main(u)
                            /\ Cancel(u)' = Cancel(u)
BY DEF callerVars, Obj, Main, Cancel

(* FreshInv survives a step that leaves the callers and their fresh calls  *)
(* alone.                                                                  *)
LEMMA InputFresh ==
  ASSUME TypeOK, FreshInv, UNCHANGED callerVars, \A x \in Objs : Fresh(x) => Fresh(x)'
  PROVE  FreshInv'
BY CallersUnchanged, CurFacts, ObjFacts DEF FreshInv

LEMMA ReadResponseHeaderInv ==
  ASSUME IInv, NEW m \in wire, NEW failed \in BOOLEAN, ReadResponseHeader(m, failed)
  PROVE  IInv'
<1> USE DEF IInv
<1> DEFINE o == Lookup(m.seq)
<1>0. /\ UNCHANGED <<callerVars, reqMutex, request, seq, closing, shutdown, callVars,
                     ierr, doomed, codecOpen>>
      /\ ipc = "header" /\ ipc' = "body" /\ wire' = wire \ {m} /\ Delete(m.seq)
      /\ resp' = [call |-> o, method |-> m.method, args |-> m.args, failed |-> failed]
  BY DEF ReadResponseHeader
<1>1. resp = NoResp /\ ~shutdown /\ doomed = {}
  BY <1>0 DEF InputInv
<1>2. /\ m \in Requests /\ m.method = m.args /\ o \in Objs \cup {NoCall}
      /\ o # NoCall => o \in Range(pending) /\ o = m.args
  BY PendingFacts DEF Lookup, SeqInv, TypeOK
<1>3. /\ DOMAIN pending' = DOMAIN pending \ {m.seq}
      /\ \A k \in DOMAIN pending' : pending'[k] = pending[k]
      /\ pending' \in [DOMAIN pending' -> Objs]
      /\ Range(pending') = Range(pending) \ {o}
  BY <1>0, DeleteFacts
<1> HIDE DEF o
<1>4. resp'.call = o /\ resp'.method = m.method /\ resp'.args = m.args
  BY <1>0
<1>5. TypeOK'
  <2>1. \E S \in SUBSET (1 .. seq') : pending' \in [S -> Objs]
    BY <1>0, <1>3, PendingFacts
  <2>2. resp' \in [call : Objs \cup {NoCall}, method : Objs \cup {NoCall},
                   args : Objs \cup {NoCall}, failed : BOOLEAN]
    BY <1>0, <1>2 DEF Requests
  <2> QED
    BY <1>0, <2>1, <2>2 DEF TypeOK, callerVars, callVars
<1>6. FreshInv'
  <2>1. ASSUME NEW x \in Objs, Fresh(x) PROVE Fresh(x)'
    <3>1. x # o
      BY <1>2, <2>1, ClientAssumption DEF Fresh
    <3> QED
      BY <1>0, <1>3, <1>4, <2>1, <3>1 DEF Fresh, callVars
  <2> QED
    BY <1>0, <2>1, InputFresh
<1>7. MutexInv'
  BY <1>0, CallersUnchanged DEF MutexInv, callVars
<1>8. SeqInv'
  BY <1>0, <1>3, CallersUnchanged DEF SeqInv, callVars
<1>9. InputInv'
  BY <1>0, <1>1, <1>2, <1>3, <1>4 DEF InputInv, DoneInv, callVars
<1>10. DoneInv'
  BY <1>0, <1>1, <1>3 DEF DoneInv, callVars
<1>11. ReachInv'
  <2>1. \A u \in Callers : Reachable(u) => Reachable(u)'
    BY <1>0, <1>1, <1>3, <1>4, ObjFacts, CallersUnchanged, ClientAssumption
       DEF Reachable, NoResp, callVars
  <2> QED
    BY <1>0, <2>1, CallersUnchanged DEF ReachInv
<1>12. ReplyToItsCall'
  BY <1>2, <1>4 DEF ReplyToItsCall
<1>13. CompletedOnce' /\ CallNeverDropped' /\ SuccessMeansReplied'
  BY <1>0, CallersUnchanged DEF CompletedOnce, CallNeverDropped, SuccessMeansReplied, callVars
<1> QED
  BY <1>5, <1>6, <1>7, <1>8, <1>9, <1>10, <1>11, <1>12, <1>13

LEMMA ReadResponseBodyInv ==
  ASSUME IInv, NEW e \in {"nil", "EOF", "other"}, ReadResponseBody(e)
  PROVE  IInv'
<1> USE DEF IInv
<1> DEFINE o == resp.call
           err == CallError(e)
           reply == resp.call # NoCall /\ ~resp.failed
<1>0. /\ UNCHANGED <<callerVars, clientVars, callSeq, doomed, netVars>>
      /\ ipc = "body" /\ Complete(o, err) /\ resp' = NoResp
      /\ replied' = IF reply /\ e = "nil" THEN replied \cup {o} ELSE replied
      /\ ipc' = IF e = "nil" THEN "header" ELSE "final"
      /\ ierr' = IF e = "EOF" /\ ~reply THEN "other" ELSE e
  BY DEF ReadResponseBody
<1>1. /\ o \in Objs \cup {NoCall} /\ err \in Errors
      /\ o # NoCall => completed[o] = 0 /\ o \notin Range(pending)
      /\ ~shutdown /\ doomed = {}
  BY <1>0 DEF InputInv, TypeOK, CallError, Errors
<1>2. replied \subseteq replied' /\ replied' \subseteq Objs
      /\ (err = "nil" => o \in replied' \cup {NoCall})
  BY <1>0, <1>1 DEF CallError, TypeOK
<1> HIDE DEF err, reply, o
<1>3. /\ inChan' \cup discarded' = (inChan \cup discarded \cup {o}) \ {NoCall}
      /\ inChan' \subseteq Objs /\ discarded' \subseteq Objs
      /\ completed' \in [Objs -> Nat] /\ error' \in [Objs -> Errors]
      /\ \A x \in Objs : /\ completed'[x] = IF x = o THEN 1 ELSE completed[x]
                         /\ error'[x] = IF x = o THEN err ELSE error[x]
  BY <1>0, <1>1, CompleteFacts
<1>4. /\ CompletedOnce' /\ CallNeverDropped'
      /\ \A x \in inChan' \cup discarded' : completed'[x] # 0
      /\ \A x \in Objs : completed'[x] # 0 /\ error'[x] = "nil" => x \in replied'
  BY <1>0, <1>1, <1>2, CompletePreserves
<1>5. /\ resp'.call = NoCall
      /\ NoResp \in [call : Objs \cup {NoCall}, method : Objs \cup {NoCall},
                     args : Objs \cup {NoCall}, failed : BOOLEAN]
  BY <1>0 DEF NoResp
<1>6. TypeOK'
  BY <1>0, <1>2, <1>3, <1>5 DEF TypeOK, callerVars, clientVars, netVars
<1>7. FreshInv'
  <2>1. ASSUME NEW x \in Objs, Fresh(x) PROVE Fresh(x)'
    <3>1. x # o /\ x # NoCall
      BY <2>1, ClientAssumption DEF Fresh, o
    <3>2. completed'[x] = completed[x] /\ x \notin inChan' \cup discarded'
      BY <1>3, <2>1, <3>1 DEF Fresh
    <3> QED
      BY <1>0, <1>5, <2>1, <3>1, <3>2 DEF Fresh, clientVars
  <2> QED
    BY <1>0, <2>1, InputFresh
<1>8. MutexInv' /\ SeqInv'
  BY <1>0, CallersUnchanged DEF MutexInv, SeqInv, clientVars, netVars
<1>9. InputInv'
  BY <1>0, <1>1, <1>5 DEF InputInv, clientVars
<1>10. DoneInv'
  BY <1>0, <1>1, <1>3, <1>4, PendingFacts, ClientAssumption DEF DoneInv, clientVars
<1>11. ReachInv'
  <2>1. \A u \in Callers : Reachable(u) => Reachable(u)'
    BY <1>0, <1>3, <1>5, ObjFacts, CallersUnchanged, ClientAssumption
       DEF Reachable, clientVars, o
  <2> QED
    BY <1>0, <2>1, CallersUnchanged DEF ReachInv
<1>12. ReplyToItsCall' /\ SuccessMeansReplied'
  BY <1>0, <1>2, <1>5, CallersUnchanged DEF ReplyToItsCall, SuccessMeansReplied
<1> QED
  BY <1>4, <1>6, <1>7, <1>8, <1>9, <1>10, <1>11, <1>12

LEMMA HeaderFailsInv == ASSUME IInv, NEW e \in {"EOF", "other"}, HeaderFails(e) PROVE IInv'
<1> USE DEF IInv
<1>0. /\ UNCHANGED <<callerVars, clientVars, callVars, resp, doomed, netVars>>
      /\ ipc = "header" /\ ipc' = "final" /\ ierr' = e
  BY DEF HeaderFails
<1>1. TypeOK'
  BY <1>0 DEF TypeOK, callerVars, clientVars, callVars, netVars
<1>2. FreshInv' /\ MutexInv' /\ SeqInv' /\ ReachInv'
  BY <1>0 DEF FreshInv, Fresh, MutexInv, SeqInv, ReachInv, Reachable, Obj, Main, Cancel,
              callerVars, clientVars, callVars, netVars
<1>3. InputInv'
  BY <1>0 DEF InputInv, clientVars, callVars
<1>4. DoneInv' /\ CompletedOnce' /\ ReplyToItsCall' /\ CallNeverDropped' /\ SuccessMeansReplied'
  BY <1>0, CallersUnchanged
     DEF DoneInv, CompletedOnce, ReplyToItsCall, CallNeverDropped, SuccessMeansReplied,
         clientVars, callVars
<1> QED
  BY <1>1, <1>2, <1>3, <1>4

LEMMA TerminateInv == ASSUME IInv, Terminate PROVE IInv'
<1> USE DEF IInv
<1>0. /\ UNCHANGED <<callerVars, reqMutex, request, seq, pending, closing, callVars, resp,
                     netVars>>
      /\ ipc = "final" /\ reqMutex = NoOne /\ shutdown' = TRUE /\ doomed' = Range(pending)
      /\ ierr' = IF ierr # "EOF" THEN ierr
                 ELSE IF closing THEN "ErrShutdown" ELSE "UnexpectedEOF"
      /\ ipc' = IF DOMAIN pending = {} THEN "stopped" ELSE "draining"
  BY DEF Terminate, InputLocksReq
<1>1. resp = NoResp /\ ~shutdown /\ resp.call = NoCall /\ ierr # "nil"
  BY <1>0 DEF InputInv, NoResp
<1>2. /\ ierr' \in {"other", "ErrShutdown", "UnexpectedEOF"}
      /\ doomed' \subseteq Objs /\ (doomed' # {} <=> ipc' = "draining")
  <2>1. ierr' \in {"other", "ErrShutdown", "UnexpectedEOF"}
    BY <1>0, <1>1 DEF TypeOK
  <2>2. Range(pending) \subseteq Objs /\ (Range(pending) # {} <=> DOMAIN pending # {})
    BY PendingFacts DEF Range
  <2> QED
    BY <1>0, <2>1, <2>2
<1>3. TypeOK'
  BY <1>0, <1>2 DEF TypeOK, callerVars, callVars, netVars
<1>4. FreshInv' /\ MutexInv' /\ SeqInv'
  BY <1>0 DEF FreshInv, Fresh, MutexInv, SeqInv, Obj, Main, Cancel,
              callerVars, callVars, netVars
<1>5. InputInv'
  BY <1>0, <1>1, <1>2 DEF InputInv, Errors, callVars
<1>6. DoneInv' /\ CompletedOnce' /\ ReplyToItsCall' /\ CallNeverDropped' /\ SuccessMeansReplied'
  BY <1>0, <1>1, CallersUnchanged
     DEF DoneInv, CompletedOnce, ReplyToItsCall, CallNeverDropped, SuccessMeansReplied, callVars
<1>7. ReachInv'
  <2>1. ASSUME NEW u \in Callers, Reachable(u) PROVE Reachable(u)'
    <3>1. Main(u) \in Objs /\ Main(u) # NoCall /\ Main(u)' = Main(u)
      BY ObjFacts, ClientAssumption DEF Main
    <3>2. doomed = {}
      BY <1>0 DEF InputInv
    <3> QED
      BY <1>0, <1>1, <2>1, <3>1, <3>2 DEF Reachable, callVars
  <2> QED
    BY <1>0, <2>1, CallersUnchanged DEF ReachInv
<1> QED
  BY <1>3, <1>4, <1>5, <1>6, <1>7

LEMMA DrainInv == ASSUME IInv, NEW o \in doomed, Drain(o) PROVE IInv'
<1> USE DEF IInv
<1>0. /\ UNCHANGED <<callerVars, clientVars, callSeq, replied, resp, ierr, netVars>>
      /\ ipc = "draining" /\ Complete(o, ierr) /\ doomed' = doomed \ {o}
      /\ ipc' = IF doomed = {o} THEN "stopped" ELSE "draining"
  BY DEF Drain
<1>1. /\ o \in Objs /\ completed[o] = 0 /\ o \in Range(pending)
      /\ ierr \in Errors \ {"nil"} /\ shutdown /\ resp = NoResp /\ resp.call = NoCall
  BY <1>0 DEF DoneInv, InputInv, TypeOK, NoResp
<1>2. /\ inChan' \cup discarded' = (inChan \cup discarded \cup {o}) \ {NoCall}
      /\ inChan' \subseteq Objs /\ discarded' \subseteq Objs
      /\ completed' \in [Objs -> Nat] /\ error' \in [Objs -> Errors]
      /\ \A x \in Objs : /\ completed'[x] = IF x = o THEN 1 ELSE completed[x]
                         /\ error'[x] = IF x = o THEN ierr ELSE error[x]
  BY <1>0, <1>1, CompleteFacts
<1>3. /\ CompletedOnce' /\ CallNeverDropped'
      /\ \A x \in inChan' \cup discarded' : completed'[x] # 0
      /\ \A x \in Objs : completed'[x] # 0 /\ error'[x] = "nil" => x \in replied'
  BY <1>0, <1>1, CompletePreserves
<1>4. TypeOK'
  BY <1>0, <1>2 DEF TypeOK, callerVars, clientVars, netVars
<1>5. FreshInv'
  <2>1. ASSUME NEW x \in Objs, Fresh(x) PROVE Fresh(x)'
    <3>1. x # o
      BY <1>1, <2>1 DEF Fresh
    <3>2. completed'[x] = completed[x] /\ x \notin inChan' \cup discarded'
      BY <1>2, <2>1, <3>1 DEF Fresh
    <3> QED
      BY <1>0, <2>1, <3>2 DEF Fresh, clientVars
  <2> QED
    BY <1>0, <2>1, InputFresh
<1>6. MutexInv' /\ SeqInv'
  BY <1>0, CallersUnchanged DEF MutexInv, SeqInv, clientVars, netVars
<1>7. InputInv'
  BY <1>0, <1>1 DEF InputInv, clientVars
<1>8. DoneInv'
  BY <1>0, <1>1, <1>2, <1>3, PendingFacts DEF DoneInv, clientVars, TypeOK
<1>9. ReachInv'
  <2>1. ASSUME NEW u \in Callers, Reachable(u) PROVE Reachable(u)'
    <3>1. Main(u) \in Objs /\ Main(u) # NoCall /\ Main(u)' = Main(u)
      BY ObjFacts, ClientAssumption DEF Main
    <3> QED
      BY <1>0, <1>1, <1>2, <2>1, <3>1 DEF Reachable, clientVars
  <2> QED
    BY <1>0, <2>1, CallersUnchanged DEF ReachInv
<1>10. ReplyToItsCall' /\ SuccessMeansReplied'
  BY <1>0, CallersUnchanged DEF ReplyToItsCall, SuccessMeansReplied
<1> QED
  BY <1>3, <1>4, <1>5, <1>6, <1>7, <1>8, <1>9, <1>10

-----------------------------------------------------------------------------
(* The theorems *)

(* Every step of the client preserves the invariant.                       *)
LEMMA NextInv == IInv /\ [Next]_vars => IInv'
<1> SUFFICES ASSUME IInv, [Next]_vars PROVE IInv'
  OBVIOUS
<1>1. ASSUME NEW t \in Callers,
             Go(t) \/ Refuse(t) \/ Register(t) \/ Write(t) \/ Step(t) \/ ContextEnds(t)
      PROVE  IInv'
  BY <1>1, GoInv, RefuseInv, RegisterInv, WriteRequestInv, WroteInv, WriteFailedInv,
     ReceiveInv, SelectCtxInv, CancelPendingInv, ContextEndsInv DEF Step, Write
<1>2. CASE Close \/ CodecClose
  BY <1>2, CloseInv
<1>3. ASSUME NEW m \in wire, NEW failed \in BOOLEAN, ReadResponseHeader(m, failed)
      PROVE  IInv'
  BY <1>3, ReadResponseHeaderInv
<1>4. ASSUME NEW e \in {"nil", "EOF", "other"}, ReadResponseBody(e) PROVE IInv'
  BY <1>4, ReadResponseBodyInv
<1>5. ASSUME NEW e \in {"EOF", "other"}, HeaderFails(e) PROVE IInv'
  BY <1>5, HeaderFailsInv
<1>6. CASE Terminate
  BY <1>6, TerminateInv
<1>7. ASSUME NEW o \in doomed, Drain(o) PROVE IInv'
  BY <1>7, DrainInv
<1>8. CASE UNCHANGED vars
  <2> USE <1>8 DEF IInv, vars, callerVars, clientVars, callVars, inputVars, netVars
  <2>1. TypeOK'
    BY DEF TypeOK
  <2>2. FreshInv' /\ MutexInv' /\ SeqInv' /\ ReachInv'
    BY DEF FreshInv, Fresh, MutexInv, SeqInv, ReachInv, Reachable, Obj, Main, Cancel
  <2>3. InputInv' /\ DoneInv' /\ CompletedOnce' /\ ReplyToItsCall' /\ CallNeverDropped'
        /\ SuccessMeansReplied'
    BY DEF InputInv, DoneInv, CompletedOnce, ReplyToItsCall, CallNeverDropped,
           SuccessMeansReplied, Main
  <2> QED
    BY <2>1, <2>2, <2>3
<1> QED
  BY <1>1, <1>2, <1>3, <1>4, <1>5, <1>6, <1>7, <1>8 DEF Next, Finished

(* Every reachable state of the client satisfies the inductive invariant.  *)
THEOREM Invariance == Spec => []IInv
BY InitInv, NextInv, PTL DEF Spec

(* The client's variables keep their types.                                *)
THEOREM TypeCorrect == Spec => []TypeOK
BY Invariance, PTL DEF IInv

(* done() runs at most once for a call, whichever of the response, the     *)
(* failed write, the refusal and the end of input gets to it.              *)
THEOREM AtMostOneCompletion == Spec => []CompletedOnce
BY Invariance, PTL DEF IInv

(* A caller blocked on its Done channel always has a completion coming.    *)
THEOREM NoCallIsLost == Spec => []NoLostCall
<1>1. IInv => NoLostCall
  BY DEF IInv, NoLostCall, ReachInv, Reachable, FreshInv, Sending
<1> QED
  BY <1>1, Invariance, PTL

(* A response goes to the call whose request it answers.                   *)
THEOREM RepliesMatch == Spec => []ReplyToItsCall
BY Invariance, PTL DEF IInv

(* The channel Call makes is large enough for the call and its             *)
(* cancellation.                                                           *)
THEOREM CallChannelSuffices == Spec => []CallNeverDropped
BY Invariance, PTL DEF IInv

(* "No error" means that the reply was decoded.                            *)
THEOREM SuccessIsReal == Spec => []SuccessMeansReplied
BY Invariance, PTL DEF IInv

(* Once input has shut the client down nobody is inside WriteRequest, and  *)
(* nobody gets there again.                                                *)
THEOREM NothingSentAfterShutdown == Spec => SilentAfterShutdown
<1>1. IInv /\ [Next]_vars => [shutdown => wire' \subseteq wire]_vars
  <2> SUFFICES ASSUME IInv, Next, shutdown PROVE wire' \subseteq wire
    OBVIOUS
  <2>1. \A t \in Callers : pc[t] # "write"
    BY ClientAssumption DEF IInv, InputInv, MutexInv, Sending
  <2>2. ASSUME NEW t \in Callers,
               Go(t) \/ Refuse(t) \/ Register(t) \/ Write(t) \/ Step(t) \/ ContextEnds(t)
        PROVE  wire' \subseteq wire
    BY <2>1, <2>2 DEF Go, Refuse, Register, Write, Step, ContextEnds, WriteRequest, Wrote,
         WriteFailed, Receive, SelectCtx, CancelPending, netVars
  <2>3. CASE \E m \in wire, failed \in BOOLEAN : ReadResponseHeader(m, failed)
    BY <2>3 DEF ReadResponseHeader
  <2>4. CASE Close \/ CodecClose \/ Terminate \/ Finished
    BY <2>4 DEF Close, CodecClose, Terminate, Finished, netVars, vars
  <2>5. CASE \/ \E e \in {"nil", "EOF", "other"} : ReadResponseBody(e)
             \/ \E e \in {"EOF", "other"} : HeaderFails(e)
             \/ \E o \in doomed : Drain(o)
    BY <2>5 DEF ReadResponseBody, HeaderFails, Drain, netVars
  <2> QED
    BY <2>2, <2>3, <2>4, <2>5 DEF Next
<1> QED
  BY <1>1, Invariance, PTL DEF Spec, SilentAfterShutdown
=============================================================================
