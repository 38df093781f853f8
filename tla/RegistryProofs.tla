---------------------------- MODULE RegistryProofs ----------------------------
(***************************************************************************)
(* Proofs about Registry, for any types, names, renaming functions and     *)
(* requests, and for any number of registrations.                          *)
(***************************************************************************)
EXTENDS Registry, TLAPS

(* A Service as NewService makes it, its methods renamed or not: each of   *)
(* them is a suitable method of the receiver's type.                       *)
GoodService(s) ==
  /\ s.rcvr \in Rcvrs
  /\ \A n \in DOMAIN s.methods : s.methods[n] \in TypeOf[s.rcvr].methods /\ Suitable(s.methods[n])

Registered == {serviceMap[n] : n \in DOMAIN serviceMap}

(* Only such Services are registered, kept by the application, or found,   *)
(* and serviceMap has each of them under its own name.                     *)
ServiceInv ==
  /\ \A n \in DOMAIN serviceMap : serviceMap[n].name = n
  /\ \A s \in Registered \cup built : GoodService(s)
  /\ \A h \in Requests : GoodService(svc[h])

(* What a lookup has found so far, and that the window of a request that   *)
(* is about to be looked up has what serviceMap holds for it now.          *)
LookupInv ==
  \A h \in Requests :
    /\ pc[h] # "none" => via[h] # "none"
    /\ pc[h] = "load" => Look(h, serviceMap) \subseteq window[h]
    /\ pc[h] \in {"method", "call", "ran"} => svc[h] \in window[h] /\ svc[h].name = Front(asked[h])
    /\ pc[h] \in {"call", "ran"} => /\ MethodName(asked[h]) \in DOMAIN svc[h].methods
                                    /\ mtype[h] = svc[h].methods[MethodName(asked[h])]

(* The inductive invariant.                                                *)
RegistryInv ==
  /\ RTypeOK /\ NoPanic /\ LookupIsAtomic /\ ServiceInv /\ LookupInv
  /\ DOMAIN svc = Requests /\ DOMAIN mtype = Requests /\ DOMAIN window = Requests

-----------------------------------------------------------------------------
(* NewService *)

(* The three fields of a Service.                                          *)
Fields(s) == s = [name |-> s.name, rcvr |-> s.rcvr, methods |-> s.methods]

(* suitableMethods returns methods of the type that pass its tests.        *)
LEMMA SuitableFacts ==
  ASSUME NEW r \in Rcvrs
  PROVE  \A n \in DOMAIN suitableMethods(r) :
           /\ suitableMethods(r)[n] \in TypeOf[r].methods
           /\ Suitable(suitableMethods(r)[n])
<1> DEFINE S == {m \in TypeOf[r].methods : Suitable(m)}
<1>1. suitableMethods(r) = [n \in {m.name : m \in S} |-> CHOOSE m \in S : m.name = n]
  BY DEF suitableMethods
<1> SUFFICES ASSUME NEW n \in {m.name : m \in S} PROVE suitableMethods(r)[n] \in S
  BY <1>1
<1>2. \E m \in S : m.name = n
  OBVIOUS
<1>3. (CHOOSE m \in S : m.name = n) \in S
  BY <1>2
<1> QED
  BY <1>1, <1>3

(* NewService returns a good Service, if it returns one.                   *)
LEMMA NewServiceFacts ==
  ASSUME NEW r \in Rcvrs, NEW name, NEW useName, NEW s \in NewService(r, name, useName)
  PROVE  GoodService(s) /\ Fields(s) /\ (useName => s.name = name)
<1>1. PICK sname : /\ s = [name |-> sname, rcvr |-> r, methods |-> suitableMethods(r)]
                   /\ useName => sname = name
  BY DEF NewService
<1>2. s.rcvr = r /\ s.methods = suitableMethods(r) /\ s.name = sname
  BY <1>1
<1> QED
  BY <1>1, <1>2, SuitableFacts DEF GoodService, Fields

(* updateMethodName gives the methods other names and leaves them as they  *)
(* are.                                                                    *)
LEMMA RenameFacts ==
  ASSUME NEW s, GoodService(s), Fields(s), NEW f, NEW t \in updateMethodName(s, f)
  PROVE  GoodService(t)
<1> DEFINE new == {f[k] : k \in DOMAIN s.methods}
<1>1. PICK g \in [new -> DOMAIN s.methods] :
        t = [s EXCEPT !.methods = [n \in new |-> s.methods[g[n]]]]
  BY DEF updateMethodName
<1> HIDE DEF new
<1>2. t.rcvr = s.rcvr /\ t.methods = [n \in new |-> s.methods[g[n]]]
  BY <1>1 DEF Fields
<1> QED
  BY <1>2 DEF GoodService

(* What newBasicServer registers.                                          *)
LEMMA GoRPCFacts ==
  LET s == CHOOSE s \in NewService(GoRPC, <<"_goRPC_">>, TRUE) : TRUE
  IN  GoodService(s) /\ s.name = <<"_goRPC_">>
<1> DEFINE t == [name |-> <<"_goRPC_">>, rcvr |-> GoRPC, methods |-> suitableMethods(GoRPC)]
<1>1. PICK m \in TypeOf[GoRPC].methods : Suitable(m)
  BY GoRPCAssumption
<1>2. m.name \in DOMAIN suitableMethods(GoRPC)
  BY <1>1 DEF suitableMethods
<1>3. <<"_goRPC_">> # Empty
  BY DEF Empty
<1>4. t \in NewService(GoRPC, <<"_goRPC_">>, TRUE)
  BY <1>2, <1>3 DEF NewService
<1>5. (CHOOSE s \in NewService(GoRPC, <<"_goRPC_">>, TRUE) : TRUE)
        \in NewService(GoRPC, <<"_goRPC_">>, TRUE)
  BY <1>4
<1>6. GoRPC \in Rcvrs
  BY RegistryAssumption
<1> QED
  BY <1>5, <1>6, NewServiceFacts

(* A good Service is one by the type invariant, and so is none.            *)
LEMMA ServiceFacts ==
  /\ \A s : GoodService(s) => Service(s)
  /\ GoodService(None)
<1>1. GoodService(None)
  BY RegistryAssumption DEF GoodService, None
<1> QED
  BY <1>1 DEF GoodService, Service, Methods

-----------------------------------------------------------------------------
(* Changes of serviceMap *)

(* No lookup moves while serviceMap changes: each window gets what the new *)
(* map has, and keeps what it had.                                         *)
LEMMA WatchFacts ==
  ASSUME RegistryInv, Watch, UNCHANGED lookupVars
  PROVE  /\ NoPanic' /\ LookupIsAtomic' /\ LookupInv'
         /\ DOMAIN svc' = Requests /\ DOMAIN mtype' = Requests /\ DOMAIN window' = Requests
<1> USE DEF lookupVars
<1>1. \A h \in Requests : /\ window[h] \subseteq window'[h]
                          /\ pc[h] = "load" => Look(h, serviceMap') \subseteq window'[h]
  BY DEF Watch
<1>2. NoPanic'
  BY DEF RegistryInv, NoPanic
<1>3. RunsWhatWasNamed'
  BY <1>1 DEF RegistryInv, LookupIsAtomic, RunsWhatWasNamed
<1>4. RejectedWithCause'
  BY <1>1 DEF RegistryInv, LookupIsAtomic, RejectedWithCause
<1>5. \A h \in Requests : Look(h, serviceMap)' = Look(h, serviceMap')
  BY DEF Look
<1>6. LookupInv'
  BY <1>1, <1>5 DEF RegistryInv, LookupInv, MethodName
<1>7. DOMAIN window' = Requests
  BY DEF Watch
<1> QED
  BY <1>2, <1>3, <1>4, <1>6, <1>7 DEF RegistryInv, LookupIsAtomic

(* Registering a good Service preserves the invariant.                     *)
LEMMA RegisterStep ==
  ASSUME RegistryInv, NEW s, GoodService(s),
         register(s), UNCHANGED built
  PROVE  RegistryInv'
<1>1. /\ nops < MaxOps /\ nops' = nops + 1 /\ s.name \notin DOMAIN serviceMap
      /\ serviceMap' = [n \in DOMAIN serviceMap \cup {s.name} |->
                          IF n = s.name THEN s ELSE serviceMap[n]]
      /\ Watch /\ UNCHANGED lookupVars
  BY DEF register, Bound, Free
<1>2. /\ NoPanic' /\ LookupIsAtomic' /\ LookupInv'
      /\ DOMAIN svc' = Requests /\ DOMAIN mtype' = Requests /\ DOMAIN window' = Requests
  BY <1>1, WatchFacts
<1>3. nops' \in 0 .. MaxOps
  BY <1>1, RegistryAssumption DEF RegistryInv, RTypeOK
<1>4. \A n \in DOMAIN serviceMap' : /\ serviceMap'[n].name = n
                                    /\ serviceMap'[n] = s \/ serviceMap'[n] \in Registered
  BY <1>1 DEF RegistryInv, ServiceInv, Registered
<1>5. RTypeOK'
  <2>1. \A n \in DOMAIN serviceMap' : Service(serviceMap'[n])
    BY <1>4, ServiceFacts DEF RegistryInv, ServiceInv
  <2> QED
    BY <1>1, <1>3, <2>1 DEF RegistryInv, RTypeOK, lookupVars, Service
<1>6. ServiceInv'
  <2>1. \A t \in Registered' : t = s \/ t \in Registered
    BY <1>4 DEF Registered
  <2> QED
    BY <1>1, <1>4, <2>1 DEF RegistryInv, ServiceInv, lookupVars
<1> QED
  BY <1>2, <1>5, <1>6 DEF RegistryInv

(* So does removing one.                                                   *)
LEMMA UnregisterStep ==
  ASSUME RegistryInv, NEW name, UnregisterName(name)
  PROVE  RegistryInv'
<1>1. /\ nops < MaxOps /\ nops' = nops + 1
      /\ serviceMap' = [n \in DOMAIN serviceMap \ {name} |-> serviceMap[n]]
      /\ Watch /\ UNCHANGED lookupVars /\ built' = built
  BY DEF UnregisterName, Bound
<1>2. /\ NoPanic' /\ LookupIsAtomic' /\ LookupInv'
      /\ DOMAIN svc' = Requests /\ DOMAIN mtype' = Requests /\ DOMAIN window' = Requests
  BY <1>1, WatchFacts
<1>3. nops' \in 0 .. MaxOps
  BY <1>1, RegistryAssumption DEF RegistryInv, RTypeOK
<1>4. \A n \in DOMAIN serviceMap' : n \in DOMAIN serviceMap /\ serviceMap'[n] = serviceMap[n]
  BY <1>1
<1>5. RTypeOK'
  BY <1>1, <1>3, <1>4 DEF RegistryInv, RTypeOK, lookupVars, Service
<1>6. ServiceInv'
  BY <1>1, <1>4 DEF RegistryInv, ServiceInv, Registered, lookupVars, GoodService
<1> QED
  BY <1>2, <1>5, <1>6 DEF RegistryInv

(* And so does making one that is not registered yet.                      *)
LEMMA BuildStep ==
  ASSUME RegistryInv, NEW r \in Rcvrs, NEW name, NEW useName, NEW f, Build(r, name, useName, f)
  PROVE  RegistryInv'
<1>1. PICK t \in NewServiceWithMethodsRename(r, name, useName, f) :
        built' = {t} /\ UNCHANGED <<serviceMap, nops, lookupVars, window>>
  BY DEF Build
<1>2. PICK s \in NewService(r, name, useName) : t \in updateMethodName(s, f)
  BY DEF NewServiceWithMethodsRename
<1>3. GoodService(t)
  BY <1>2, NewServiceFacts, RenameFacts
<1>4. Registered' = Registered
  BY <1>1 DEF Registered
<1>5. ServiceInv'
  BY <1>1, <1>3, <1>4 DEF RegistryInv, ServiceInv, lookupVars, GoodService
<1>6. RTypeOK'
  BY <1>1, <1>3, ServiceFacts DEF RegistryInv, RTypeOK, lookupVars, Service
<1>7. NoPanic' /\ LookupIsAtomic'
  BY <1>1 DEF RegistryInv, NoPanic, LookupIsAtomic, RunsWhatWasNamed, RejectedWithCause, lookupVars
<1>8. LookupInv'
  BY <1>1 DEF RegistryInv, LookupInv, lookupVars, Look, MethodName
<1> QED
  BY <1>1, <1>5, <1>6, <1>7, <1>8 DEF RegistryInv, lookupVars

-----------------------------------------------------------------------------
(* Lookups *)

(* What a step of request h leaves to show: serviceMap and the other       *)
(* requests are as they were.                                              *)
Alone(h) ==
  /\ UNCHANGED <<serviceMap, built, nops>>
  /\ \A g \in Requests \ {h} : /\ pc'[g] = pc[g] /\ asked'[g] = asked[g] /\ svc'[g] = svc[g]
                               /\ mtype'[g] = mtype[g] /\ window'[g] = window[g]
                               /\ via'[g] = via[g]
  /\ DOMAIN svc' = Requests /\ DOMAIN mtype' = Requests /\ DOMAIN window' = Requests
  /\ pc' \in [Requests -> {"none", "load", "method", "call", "rejected", "refused", "ran",
                           "panic"}]
  /\ asked' \in [Requests -> Asked \cup {Empty}]
  /\ via' \in [Requests -> {"none", "request", "call", "misuse"}]

(* The part of the invariant that concerns h, in the new state.            *)
Kept(h) ==
  /\ GoodService(svc'[h]) /\ mtype'[h] \in Methods \cup {<<>>}
  /\ pc'[h] = "panic" => via'[h] = "misuse" \/ (via'[h] = "call" /\ svc'[h].rcvr = GoRPC)
  /\ pc'[h] = "rejected" =>
       \/ Len(asked'[h]) < 2
       \/ \E s \in window'[h] : s = None \/ <<Last(asked'[h])>> \notin DOMAIN s.methods
  /\ pc'[h] # "none" => via'[h] # "none"
  /\ pc'[h] = "load" =>
       IF Front(asked'[h]) \in DOMAIN serviceMap THEN serviceMap[Front(asked'[h])] \in window'[h]
                                                 ELSE None \in window'[h]
  /\ pc'[h] \in {"method", "call", "ran"} =>
       svc'[h] \in window'[h] /\ svc'[h].name = Front(asked'[h])
  /\ pc'[h] \in {"call", "ran"} =>
       /\ <<Last(asked'[h])>> \in DOMAIN svc'[h].methods
       /\ mtype'[h] = svc'[h].methods[<<Last(asked'[h])>>]

(* Together they preserve the invariant.                                   *)
LEMMA LookupFrame ==
  ASSUME RegistryInv, NEW h \in Requests, Alone(h), Kept(h)
  PROVE  RegistryInv'
<1>0. /\ UNCHANGED <<serviceMap, built, nops>> /\ Registered' = Registered
      /\ \A g \in Requests \ {h} : /\ pc'[g] = pc[g] /\ asked'[g] = asked[g] /\ svc'[g] = svc[g]
                                   /\ mtype'[g] = mtype[g] /\ window'[g] = window[g]
                                   /\ via'[g] = via[g]
  BY DEF Alone, Registered
<1>1. RTypeOK'
  <2>1. \A g \in Requests : Service(svc'[g]) /\ mtype'[g] \in Methods \cup {<<>>}
    BY <1>0, ServiceFacts DEF RegistryInv, RTypeOK, Kept
  <2> QED
    BY <1>0, <2>1 DEF RegistryInv, RTypeOK, Alone
<1>2. NoPanic'
  BY <1>0 DEF RegistryInv, NoPanic, Kept
<1>3. ServiceInv'
  BY <1>0 DEF RegistryInv, ServiceInv, Kept
<1>4. RejectedWithCause'
  BY <1>0 DEF RegistryInv, LookupIsAtomic, RejectedWithCause, Kept
<1>5. RunsWhatWasNamed'
  <2>1. ASSUME NEW g \in Requests \ {h}, pc'[g] \in {"call", "ran"}
        PROVE  \E s \in window'[g] : /\ s.name = Front(asked'[g]) /\ s = svc'[g]
                                     /\ mtype'[g] = s.methods[<<Last(asked'[g])>>]
    BY <1>0, <2>1 DEF RegistryInv, LookupIsAtomic, RunsWhatWasNamed
  <2>2. ASSUME pc'[h] \in {"call", "ran"}
        PROVE  \E s \in window'[h] : /\ s.name = Front(asked'[h]) /\ s = svc'[h]
                                     /\ mtype'[h] = s.methods[<<Last(asked'[h])>>]
    BY <2>2 DEF Kept
  <2> QED
    BY <2>1, <2>2 DEF RunsWhatWasNamed
<1>6. LookupInv'
  <2>1. ASSUME NEW g \in Requests \ {h}
        PROVE  Look(g, serviceMap)' = Look(g, serviceMap)
    BY <1>0 DEF Look
  <2>2. pc'[h] = "load" => Look(h, serviceMap)' \subseteq window'[h]
    BY <1>0 DEF Kept, Look
  <2> QED
    BY <1>0, <2>1, <2>2 DEF RegistryInv, LookupInv, Kept, MethodName
<1> QED
  BY <1>0, <1>1, <1>2, <1>3, <1>4, <1>5, <1>6 DEF RegistryInv, LookupIsAtomic, Alone

(* Arrive preserves the invariant: the window starts with what serviceMap  *)
(* has now.                                                                *)
LEMMA ArriveStep ==
  ASSUME RegistryInv, NEW h \in Requests, NEW sm \in Asked, Arrive(h, sm)
  PROVE  RegistryInv'
<1>1. Alone(h)
  BY DEF RegistryInv, RTypeOK, Arrive, Goto, Alone
<1>2. /\ asked'[h] = sm /\ via'[h] = "request" /\ svc'[h] = svc[h] /\ mtype'[h] = mtype[h]
      /\ pc'[h] = IF Len(sm) < 2 THEN "rejected" ELSE "load"
      /\ window'[h] = IF Len(sm) < 2 \/ Front(sm) \notin DOMAIN serviceMap THEN {None}
                      ELSE {serviceMap[Front(sm)]}
  BY DEF RegistryInv, RTypeOK, Arrive, Goto
<1>3. GoodService(svc[h]) /\ mtype[h] \in Methods \cup {<<>>}
  BY DEF RegistryInv, ServiceInv, RTypeOK
<1>4. Kept(h)
  BY <1>2, <1>3 DEF Kept
<1> QED
  BY <1>1, <1>4, LookupFrame

(* Load preserves the invariant: what it finds, or does not, is in the     *)
(* window.                                                                 *)
LEMMA LoadStep ==
  ASSUME RegistryInv, NEW h \in Requests, Load(h)
  PROVE  RegistryInv'
<1>1. Alone(h)
  BY DEF RegistryInv, RTypeOK, Load, Goto, Alone
<1> DEFINE name == Front(asked[h])
<1>2. /\ pc[h] = "load" /\ asked'[h] = asked[h] /\ mtype'[h] = mtype[h] /\ window'[h] = window[h]
      /\ via'[h] = via[h] /\ via[h] # "none"
      /\ IF name \in DOMAIN serviceMap THEN pc'[h] = "method" /\ svc'[h] = serviceMap[name]
                                       ELSE pc'[h] = "rejected" /\ svc'[h] = svc[h]
  BY DEF RegistryInv, RTypeOK, LookupInv, Load, Goto, ServiceName
<1>3. GoodService(svc[h]) /\ mtype[h] \in Methods \cup {<<>>}
  BY DEF RegistryInv, ServiceInv, RTypeOK
<1>4. CASE name \in DOMAIN serviceMap
  <2>1. /\ GoodService(serviceMap[name]) /\ serviceMap[name].name = name
        /\ serviceMap[name] \in window[h]
    BY <1>2, <1>4 DEF RegistryInv, ServiceInv, Registered, RTypeOK, LookupInv, Look
  <2>2. Kept(h)
    BY <1>2, <1>3, <1>4, <2>1 DEF Kept
  <2> QED
    BY <1>1, <2>2, LookupFrame
<1>5. CASE name \notin DOMAIN serviceMap
  <2>1. None \in window[h]
    BY <1>2, <1>5 DEF RegistryInv, LookupInv, Look
  <2>2. Kept(h)
    BY <1>2, <1>3, <1>5, <2>1 DEF Kept
  <2> QED
    BY <1>1, <2>2, LookupFrame
<1> QED
  BY <1>4, <1>5

(* ServiceCall preserves the invariant.                                    *)
LEMMA ServiceCallStep ==
  ASSUME RegistryInv, NEW h \in Requests, NEW sm \in Asked, NEW how \in {"call", "misuse"},
         ServiceCall(h, sm, how)
  PROVE  RegistryInv'
<1>1. Alone(h)
  BY DEF RegistryInv, RTypeOK, ServiceCall, Goto, Alone
<1>2. PICK s \in Registered :
        /\ asked'[h] = sm /\ mtype'[h] = mtype[h] /\ window'[h] = {s} /\ svc'[h] = s
        /\ via'[h] = how
        /\ pc'[h] = IF Len(sm) < 2 \/ s.name # Front(sm) THEN "refused" ELSE "method"
  BY DEF RegistryInv, RTypeOK, ServiceCall, Goto, ServiceName, Registered
<1>3. GoodService(s) /\ mtype[h] \in Methods \cup {<<>>}
  BY DEF RegistryInv, ServiceInv, RTypeOK
<1>4. Kept(h)
  BY <1>2, <1>3 DEF Kept
<1> QED
  BY <1>1, <1>4, LookupFrame

(* FindMethod preserves the invariant: the Service it looks into is the    *)
(* one that was found, whatever serviceMap has by now.                     *)
LEMMA FindMethodStep ==
  ASSUME RegistryInv, NEW h \in Requests, FindMethod(h)
  PROVE  RegistryInv'
<1>1. Alone(h)
  BY DEF RegistryInv, RTypeOK, FindMethod, Goto, Alone
<1> DEFINE name == <<Last(asked[h])>>
<1>2. /\ pc[h] = "method" /\ asked'[h] = asked[h] /\ svc'[h] = svc[h] /\ window'[h] = window[h]
      /\ via'[h] = via[h] /\ via[h] # "none"
      /\ IF name \in DOMAIN svc[h].methods
         THEN pc'[h] = "call" /\ mtype'[h] = svc[h].methods[name]
         ELSE pc'[h] = "rejected" /\ mtype'[h] = mtype[h]
  BY DEF RegistryInv, RTypeOK, LookupInv, FindMethod, Goto, Holder, MethodName
<1>3. /\ GoodService(svc[h]) /\ mtype[h] \in Methods \cup {<<>>}
      /\ svc[h] \in window[h] /\ svc[h].name = Front(asked[h])
  BY <1>2 DEF RegistryInv, ServiceInv, RTypeOK, LookupInv
<1>4. name \in DOMAIN svc[h].methods => svc[h].methods[name] \in Methods
  BY <1>3, ServiceFacts DEF Service
<1>5. Kept(h)
  BY <1>2, <1>3, <1>4 DEF Kept
<1> QED
  BY <1>1, <1>5, LookupFrame

(* Invoke preserves the invariant: what it calls fits, and what a request  *)
(* passes is prepared.                                                     *)
LEMMA InvokeStep ==
  ASSUME RegistryInv, NEW h \in Requests, Invoke(h)
  PROVE  RegistryInv'
<1>1. Alone(h)
  BY DEF RegistryInv, RTypeOK, Invoke, Goto, Alone
<1>2. /\ pc[h] = "call" /\ asked'[h] = asked[h] /\ svc'[h] = svc[h] /\ window'[h] = window[h]
      /\ mtype'[h] = mtype[h] /\ via'[h] = via[h]
      /\ via[h] \in {"request", "call", "misuse"}
      /\ pc'[h] = IF Fits(mtype[h], svc[h].rcvr) /\ Prepared(h) THEN "ran" ELSE "panic"
  BY DEF RegistryInv, RTypeOK, LookupInv, Invoke, Goto
<1>3. /\ GoodService(svc[h]) /\ mtype[h] \in Methods \cup {<<>>}
      /\ svc[h] \in window[h] /\ svc[h].name = Front(asked[h])
      /\ <<Last(asked[h])>> \in DOMAIN svc[h].methods
      /\ mtype[h] = svc[h].methods[<<Last(asked[h])>>]
  BY <1>2 DEF RegistryInv, ServiceInv, RTypeOK, LookupInv, MethodName
<1>4. mtype[h] \in TypeOf[svc[h].rcvr].methods /\ Suitable(mtype[h])
  BY <1>3 DEF GoodService
<1>5. Fits(mtype[h], svc[h].rcvr)
  BY <1>4 DEF Fits, Suitable
<1>6. Kept(h)
  BY <1>2, <1>3, <1>5 DEF Kept, Prepared
<1> QED
  BY <1>1, <1>6, LookupFrame

-----------------------------------------------------------------------------
(* The theorems *)

(* The invariant holds in a new server.                                    *)
LEMMA InitInv == Init => RegistryInv
<1> SUFFICES ASSUME Init PROVE RegistryInv
  OBVIOUS
<1>1. /\ DOMAIN serviceMap = {<<"_goRPC_">>}
      /\ GoodService(serviceMap[<<"_goRPC_">>]) /\ serviceMap[<<"_goRPC_">>].name = <<"_goRPC_">>
  BY GoRPCFacts DEF Init
<1>2. \A h \in Requests : pc[h] = "none" /\ GoodService(svc[h]) /\ mtype[h] = <<>>
  BY ServiceFacts DEF Init
<1>3. built = {} /\ nops = 0 /\ 0 \in 0 .. MaxOps
  BY RegistryAssumption DEF Init
<1>4. ServiceInv
  BY <1>1, <1>2, <1>3 DEF ServiceInv, Registered
<1>5. RTypeOK
  <2>1. \A n \in DOMAIN serviceMap : Service(serviceMap[n])
    BY <1>1, ServiceFacts
  <2>2. \A h \in Requests : Service(svc[h]) /\ mtype[h] \in Methods \cup {<<>>}
    BY <1>2, ServiceFacts
  <2> QED
    BY <1>3, <2>1, <2>2 DEF RTypeOK, Init
<1>6. NoPanic /\ LookupIsAtomic /\ LookupInv
  BY <1>2 DEF NoPanic, LookupIsAtomic, RunsWhatWasNamed, RejectedWithCause, LookupInv
<1> QED
  BY <1>4, <1>5, <1>6 DEF RegistryInv, Init

(* Every step preserves the invariant.                                     *)
LEMMA NextInv ==
  ASSUME RegistryInv, Next \/ UNCHANGED vars
  PROVE  RegistryInv'
<1>1. ASSUME NEW r \in Rcvrs, NEW name, NEW useName, Register(r, name, useName)
      PROVE  RegistryInv'
  <2>1. PICK s \in NewService(r, name, useName) : register(s) /\ UNCHANGED built
    BY <1>1 DEF Register
  <2> QED
    BY <2>1, NewServiceFacts, RegisterStep
<1>2. ASSUME NEW s \in built, RegisterService(s)
      PROVE  RegistryInv'
  <2>1. GoodService(s)
    BY DEF RegistryInv, ServiceInv
  <2> QED
    BY <1>2, <2>1, RegisterStep DEF RegisterService
<1>3. ASSUME NEW h \in Requests, Lookup(h)
      PROVE  RegistryInv'
  BY <1>3, LoadStep, FindMethodStep, InvokeStep DEF Lookup
<1>4. ASSUME UNCHANGED vars
      PROVE  RegistryInv'
  <2>1. serviceMap' = serviceMap /\ Registered' = Registered
    BY <1>4 DEF vars, Registered
  <2>2. RTypeOK' /\ ServiceInv'
    BY <1>4, <2>1 DEF vars, lookupVars, RegistryInv, RTypeOK, ServiceInv
  <2>3. NoPanic' /\ LookupIsAtomic'
    BY <1>4 DEF vars, lookupVars, RegistryInv, NoPanic, LookupIsAtomic, RunsWhatWasNamed,
                RejectedWithCause
  <2>4. LookupInv'
    BY <1>4 DEF vars, lookupVars, RegistryInv, LookupInv, Look, MethodName
  <2> QED
    BY <1>4, <2>1, <2>2, <2>3, <2>4 DEF RegistryInv, vars, lookupVars
<1>5. CASE UNCHANGED vars \/ Finished
  BY <1>4, <1>5 DEF Finished
<1>6. CASE \E r \in Rcvrs \ {GoRPC}, name \in Names, useName \in BOOLEAN :
             Register(r, name, useName)
  BY <1>1, <1>6
<1>7. CASE \E r \in Rcvrs \ {GoRPC}, name \in Names, useName \in BOOLEAN, f \in Renamers :
             Build(r, name, useName, f)
  BY <1>7, BuildStep
<1>8. CASE \E s \in built : RegisterService(s)
  BY <1>2, <1>8
<1>9. CASE \E name \in Names : UnregisterName(name)
  BY <1>9, UnregisterStep
<1>10. CASE \E h \in Requests, sm \in Asked :
              Arrive(h, sm) \/ \E how \in {"call", "misuse"} : ServiceCall(h, sm, how)
  BY <1>10, ArriveStep, ServiceCallStep
<1>11. CASE \E h \in Requests : Lookup(h)
  BY <1>3, <1>11
<1> QED
  BY <1>5, <1>6, <1>7, <1>8, <1>9, <1>10, <1>11 DEF Next

(* RegistryInv holds in every reachable state.                             *)
THEOREM RegistryInvariance == Spec => []RegistryInv
<1>1. RegistryInv /\ [Next]_vars => RegistryInv'
  BY NextInv
<1> QED
  BY <1>1, InitInv, PTL DEF Spec

(* What serviceMap holds, however it was renamed, and what a lookup finds  *)
(* are services and methods of registered types.                           *)
THEOREM TypeCorrect == Spec => []RTypeOK
<1>1. RegistryInv => RTypeOK
  BY DEF RegistryInv
<1> QED
  BY <1>1, RegistryInvariance, PTL

(* No method that was found for a request panics for want of what call     *)
(* passes it, however names and methods are renamed, registered and        *)
(* unregistered meanwhile; Service.Call panics only where NoPanic says.    *)
THEOREM NeverPanics == Spec => []NoPanic
<1>1. RegistryInv => NoPanic
  BY DEF RegistryInv
<1> QED
  BY <1>1, RegistryInvariance, PTL

(* getService runs, or turns away, a request as the map at one moment of   *)
(* the lookup demands.                                                     *)
THEOREM LookupsAreAtomic == Spec => []LookupIsAtomic
<1>1. RegistryInv => LookupIsAtomic
  BY DEF RegistryInv
<1> QED
  BY <1>1, RegistryInvariance, PTL
=============================================================================
