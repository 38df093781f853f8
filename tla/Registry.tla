------------------------------- MODULE Registry -------------------------------
(***************************************************************************)
(* The services of a server: NewService and what it takes from the methods *)
(* of a type, the serviceMap of basicServer, which goroutines change with  *)
(* register and UnregisterName while others look requests up in it, and    *)
(* the call of the method that was found.  A string is the sequence of its *)
(* parts between dots: "Arith.Multiply" is <<"Arith", "Multiply">>.        *)
(***************************************************************************)
EXTENDS Naturals, SequencesExt

CONSTANTS
  Rcvrs,    \* receiver values, the GoRPC of newBasicServer among them
  GoRPC,
  TypeOf,   \* TypeOf[r]: name and methods of the type of r
  Names,    \* names given to RegisterName and UnregisterName
  Renamers, \* functions given to NewServiceWithMethodsRename
  Asked,    \* ServiceMethods that are asked for
  Requests, \* requests, and the goroutines that look them up and serve them
  MaxOps    \* how often the application changes serviceMap

ASSUME RegistryAssumption ==
  /\ GoRPC \in Rcvrs /\ DOMAIN TypeOf = Rcvrs
  /\ \A s \in Asked \cup Names : s # <<>>
  /\ \A r \in Rcvrs, f \in Renamers : {m.name : m \in TypeOf[r].methods} \subseteq DOMAIN f
  /\ MaxOps \in Nat

VARIABLES
  serviceMap, \* name -> Service
  built,      \* history: Services the application has made
  nops,
  pc,         \* where each request is
  asked,      \* its ServiceMethod
  via,        \* where its args and reply come from: "request" (a connection), "call"
              \* (Service.Call), "misuse" (Service.Call, with values of other types)
  svc, mtype, \* the Service and the method found for it
  window      \* history: what serviceMap had for its service while it was looked up

lookupVars == <<pc, asked, via, svc, mtype>>
vars == <<serviceMap, built, nops, lookupVars, window>>

Empty == <<"">>
None == [name |-> Empty, rcvr |-> GoRPC, methods |-> <<>>]

-----------------------------------------------------------------------------
(* NewService *)

(* The conditions of suitableMethods, on a method of the receiver's type.  *)
Suitable_Mut(m) == m.ins = 4 /\ m.ctx /\ m.argExported /\ m.replyExported /\ m.error
Suitable(m) ==
  /\ m.ins = 4 /\ m.ctx /\ m.argExported
  /\ m.replyPointer /\ m.replyExported
  /\ m.outs = 1 /\ m.error

(* Method Cancel of GoRPC, which newBasicServer registers, is one.         *)
ASSUME GoRPCAssumption == \E m \in TypeOf[GoRPC].methods : Suitable(m)

suitableMethods(r) ==
  LET S == {m \in TypeOf[r].methods : Suitable(m)}
  IN  [n \in {m.name : m \in S} |-> CHOOSE m \in S : m.name = n]

(* The set holds the new Service, or is empty if there is an error.        *)
NewService(r, name, useName) ==
  LET sname == IF useName THEN name ELSE TypeOf[r].name
      s == [name |-> sname, rcvr |-> r, methods |-> suitableMethods(r)]
  IN  {x \in {s} : sname # Empty /\ (useName \/ TypeOf[r].exported) /\ DOMAIN s.methods # {}}

(* updateMethodName: where f gives two methods one name, the order of the  *)
(* loop over the map decides which of them keeps it.                       *)
updateMethodName_Mut(s, f) ==
  LET new == {f[k] : k \in DOMAIN s.methods}
  IN  {[s EXCEPT !.methods =
          [n \in new |-> IF n \in DOMAIN s.methods THEN s.methods[n] ELSE <<>>]]}
updateMethodName(s, f) ==
  LET new == {f[k] : k \in DOMAIN s.methods}
      keep == {g \in [new -> DOMAIN s.methods] : \A n \in new : f[g[n]] = n}
  IN  {[s EXCEPT !.methods = [n \in new |-> s.methods[g[n]]]] : g \in keep}

NewServiceWithMethodsRename(r, name, useName, f) ==
  UNION {updateMethodName(s, f) : s \in NewService(r, name, useName)}

-----------------------------------------------------------------------------
(* serviceMap *)

Bound == nops < MaxOps /\ nops' = nops + 1

(* Every request that is being looked up has serviceMap' in its window.    *)
Look(h, map) ==
  LET n == Front(asked[h]) IN IF n \in DOMAIN map THEN {map[n]} ELSE {None}
Watch ==
  window' = [h \in Requests |->
    IF pc[h] = "load" THEN window[h] \cup Look(h, serviceMap') ELSE window[h]]

(* LoadOrStore: a name that is taken stays with its service.               *)
Free(name) == name \notin DOMAIN serviceMap

(* The end of register, for the Service it was given or has made.          *)
register(s) ==
  /\ Bound /\ Free(s.name)
  /\ serviceMap' = [n \in DOMAIN serviceMap \cup {s.name} |->
                      IF n = s.name THEN s ELSE serviceMap[n]]
  /\ Watch
  /\ UNCHANGED lookupVars

(* Register and RegisterName with a receiver.                              *)
Register(r, name, useName) ==
  /\ \E s \in NewService(r, name, useName) : register(s)
  /\ UNCHANGED built

(* The application makes a Service, whose methods it may rename,           *)
Build(r, name, useName, f) ==
  /\ built = {}
  /\ \E s \in NewServiceWithMethodsRename(r, name, useName, f) : built' = {s}
  /\ UNCHANGED <<serviceMap, nops, lookupVars, window>>

(* and registers it, by Register or RegisterName: it goes by its own name, *)
(* and the one that RegisterName was given is not used.                    *)
RegisterService(s) == register(s) /\ UNCHANGED built

UnregisterName(name) ==
  /\ Bound /\ name \in DOMAIN serviceMap
  /\ serviceMap' = [n \in DOMAIN serviceMap \ {name} |-> serviceMap[n]]
  /\ Watch
  /\ UNCHANGED <<built, lookupVars>>

-----------------------------------------------------------------------------
(* getService, and the call *)

(* strings.LastIndex(ServiceMethod, ".")                                   *)
ServiceName_Mut(sm) == <<Head(sm)>>
ServiceName(sm) == Front(sm)
MethodName(sm) == <<Last(sm)>>

Goto(h, label) == pc' = [pc EXCEPT ![h] = label]

(* A request has been read; one without a dot is ill-formed.               *)
Arrive(h, sm) ==
  /\ pc[h] = "none"
  /\ asked' = [asked EXCEPT ![h] = sm] /\ via' = [via EXCEPT ![h] = "request"]
  /\ Goto(h, IF Len(sm) < 2 THEN "rejected" ELSE "load")
  /\ window' = [window EXCEPT ![h] =
                  IF Len(sm) < 2 \/ Front(sm) \notin DOMAIN serviceMap THEN {None}
                  ELSE {serviceMap[Front(sm)]}]
  /\ UNCHANGED <<serviceMap, built, nops, svc, mtype>>

(* serviceMap.Load(serviceName)                                            *)
Load(h) ==
  LET name == ServiceName(asked[h]) IN
  /\ pc[h] = "load"
  /\ IF name \in DOMAIN serviceMap
     THEN Goto(h, "method") /\ svc' = [svc EXCEPT ![h] = serviceMap[name]]
     ELSE Goto(h, "rejected") /\ UNCHANGED svc
  /\ UNCHANGED <<serviceMap, built, nops, asked, via, mtype, window>>

(* Service.Call, on a Service the application has from Range, with args    *)
(* and reply of the application's, which Call does not look at.            *)
ServiceCall(h, sm, how) ==
  /\ pc[h] = "none"
  /\ \E s \in {serviceMap[n] : n \in DOMAIN serviceMap} :
       /\ asked' = [asked EXCEPT ![h] = sm] /\ via' = [via EXCEPT ![h] = how]
       /\ Goto(h, IF Len(sm) < 2 \/ s.name # ServiceName(sm) THEN "refused" ELSE "method")
       /\ svc' = [svc EXCEPT ![h] = s]
       /\ window' = [window EXCEPT ![h] = {s}]
  /\ UNCHANGED <<serviceMap, built, nops, mtype>>

(* The Service whose Methods are looked at.                                *)
Holder_Mut(h) ==
  LET n == ServiceName(asked[h]) IN IF n \in DOMAIN serviceMap THEN serviceMap[n] ELSE svc[h]
Holder(h) == svc[h]

(* svc.Methods[methodName]                                                 *)
FindMethod(h) ==
  LET methods == Holder(h).methods IN
  /\ pc[h] = "method"
  /\ IF MethodName(asked[h]) \in DOMAIN methods
     THEN Goto(h, "call") /\ mtype' = [mtype EXCEPT ![h] = methods[MethodName(asked[h])]]
     ELSE Goto(h, "rejected") /\ UNCHANGED mtype
  /\ UNCHANGED <<serviceMap, built, nops, asked, via, svc, window>>

(* What reflection asks of Method.Func.Call with the receiver, a context,  *)
(* argv and replyv, of getReplyv, and of the use of the first result.      *)
Fits(m, r) ==
  /\ m \in TypeOf[r].methods
  /\ m.ins = 4 /\ m.ctx /\ m.replyPointer
  /\ m.outs >= 1 /\ m.error

(* argv and replyv of a request are made from the method's types, and its  *)
(* CancelArgs are given the pending contexts that GoRPC.Cancel works on;   *)
(* Service.Call passes on what it was given, and gives nothing.            *)
Prepared(h) ==
  \/ via[h] = "request"
  \/ via[h] = "call" /\ svc[h].rcvr # GoRPC

(* The method runs; a call that does not fit panics.                       *)
Invoke(h) ==
  /\ pc[h] = "call"
  /\ Goto(h, IF Fits(mtype[h], svc[h].rcvr) /\ Prepared(h) THEN "ran" ELSE "panic")
  /\ UNCHANGED <<serviceMap, built, nops, asked, via, svc, mtype, window>>

-----------------------------------------------------------------------------
(* newBasicServer registers GoRPC.                                         *)
Init ==
  /\ serviceMap = [n \in {<<"_goRPC_">>} |->
                     CHOOSE s \in NewService(GoRPC, <<"_goRPC_">>, TRUE) : TRUE]
  /\ built = {} /\ nops = 0
  /\ pc = [h \in Requests |-> "none"] /\ asked = [h \in Requests |-> Empty]
  /\ via = [h \in Requests |-> "none"]
  /\ svc = [h \in Requests |-> None] /\ mtype = [h \in Requests |-> <<>>]
  /\ window = [h \in Requests |-> {}]

Lookup(h) == Load(h) \/ FindMethod(h) \/ Invoke(h)

Finished ==
  /\ \A h \in Requests : pc[h] \in {"rejected", "refused", "ran", "panic"}
  /\ UNCHANGED vars

Next ==
  \/ \E r \in Rcvrs \ {GoRPC}, name \in Names, useName \in BOOLEAN : Register(r, name, useName)
  \/ \E r \in Rcvrs \ {GoRPC}, name \in Names, useName \in BOOLEAN, f \in Renamers :
       Build(r, name, useName, f)
  \/ \E s \in built : RegisterService(s)
  \/ \E name \in Names : UnregisterName(name)
  \/ \E h \in Requests, sm \in Asked :
       Arrive(h, sm) \/ \E how \in {"call", "misuse"} : ServiceCall(h, sm, how)
  \/ \E h \in Requests : Lookup(h)
  \/ Finished

Spec == Init /\ [][Next]_vars

-----------------------------------------------------------------------------
(* Properties *)

Methods == UNION {TypeOf[r].methods : r \in Rcvrs}
Service(s) == s.rcvr \in Rcvrs /\ \A n \in DOMAIN s.methods : s.methods[n] \in Methods

(* serviceMap and the variables of a lookup have their types: whatever was *)
(* renamed, the methods of a service are methods of a registered type.     *)
RTypeOK ==
  /\ \A n \in DOMAIN serviceMap : Service(serviceMap[n])
  /\ \A s \in built : Service(s)
  /\ nops \in 0 .. MaxOps
  /\ pc \in [Requests -> {"none", "load", "method", "call", "rejected", "refused", "ran",
                          "panic"}]
  /\ asked \in [Requests -> Asked \cup {Empty}]
  /\ via \in [Requests -> {"none", "request", "call", "misuse"}]
  /\ \A h \in Requests : Service(svc[h]) /\ mtype[h] \in Methods \cup {<<>>}

(* Whatever is registered, unregistered and renamed meanwhile, a request   *)
(* never makes call invoke a method in a way that panics, which would end  *)
(* the process: the method is one of its receiver and takes what call      *)
(* passes.  A panic is always the application's: Service.Call with values  *)
(* of other types, or of a method of the _goRPC_ service, whose arguments  *)
(* only call can complete.                                                 *)
NoPanic ==
  \A h \in Requests : pc[h] = "panic" =>
    via[h] = "misuse" \/ (via[h] = "call" /\ svc[h].rcvr = GoRPC)

(* What getService and Service.Call find: the method that runs is one a    *)
(* service has under the name that was asked for, and the service was      *)
(* registered under that name when the request was read or since then.     *)
RunsWhatWasNamed ==
  \A h \in Requests : pc[h] \in {"call", "ran"} =>
    \E s \in window[h] :
      /\ s.name = Front(asked[h]) /\ s = svc[h]
      /\ mtype[h] = s.methods[<<Last(asked[h])>>]

(* A request is turned away only if at some moment while it was looked up  *)
(* nothing was registered under its name that had the method.              *)
RejectedWithCause ==
  \A h \in Requests : pc[h] = "rejected" =>
    \/ Len(asked[h]) < 2
    \/ \E s \in window[h] : s = None \/ <<Last(asked[h])>> \notin DOMAIN s.methods

(* Both: a lookup, which takes several steps, is as if it took one.        *)
LookupIsAtomic == RunsWhatWasNamed /\ RejectedWithCause
=============================================================================
