# A verification project for birpc

birpc is a fork of Go's `net/rpc` with contexts, cancellation and bidirectional
connections. This directory holds TLA+ models of it, the TLC runs that check them
on small instances, and TLAPS proofs of their safety for instances of any size.
`PROJECT.json` lists components, runs, mutants, the map from definitions to source
lines, findings, hazards and theorems.

## The system

| Component | State | Operations | Hard because |
|---|---|---|---|
| `basicClient` + `Client.input` (`basic_client.go`, `client.go`) | `seq`, `pending`, the shared header `request`, `closing`, `shutdown`, `reqMutex`, `mutex`, one Done channel per call | `Go`, `Call`, `Close`, `send`, `done`, the `input` loop | callers, `input`, `Close` and ending contexts race for the entries of `pending` |
| `Server.ServeCodec`, `ServeRequestContext`, `Service.call` (`server.go`, `basic_server.go`, `service.go`) | free lists of Request and Response, `sending`, a WaitGroup | read loop, a goroutine per request, `sendResponse` | objects are recycled while goroutines that used them still run |
| `svc.Pending`, `_goRPC_.Cancel` (`internal/svc`) | map from sequence number to cancel function | `Start`, `Cancel` | a cancellation is just another request, served by its own goroutine |
| `BirpcClient`, `BirpcServer.ServeCodec` (`birpc_client.go`, `birpc_server.go`) | both of the above, `disconnect`, registered callbacks | one `input` for requests and responses | methods and callbacks call back over the connection; the end must wait for them |
| JSON codecs (`jsonrpc/`) | two numberings of requests, a map from number to JSON id | read and write headers and bodies | numbers of the two ends need not agree; requests without ids |
| gob codecs (`codec.go`, `birpc_codec.go`) | encoder, write buffer, `closed` | read, write, `Close` | half-written messages; a transport that is full |
| registry (`basic_server.go`, `service.go`) | `sync.Map` of services, method tables | `NewService`, `Register`, `UnregisterName`, `getService`, `Service.Call` | registration while serving; what reflection accepts |
| dialling, HTTP, `Accept` (`client.go`, `server.go`, `birpc_server.go`) | a connection on its way to RPC | `Dial`, `DialHTTP`, `ServeHTTP`, `Accept` | buffered readers are dropped in mid-stream; who closes what |
| contexts, debug log | none of their own | | |

A caller writes its request through the codec under `reqMutex`; the other end's
read loop starts a goroutine that runs the method and writes the response under
`sending` (at a bidirectional endpoint this is the same `reqMutex`); `input`
reads the response, takes the call out of `pending` and puts it into its Done
channel. A `Call` whose context ends takes itself out of `pending` and sends
`_goRPC_.Cancel` with its sequence number.

What makes each part correct: a call completes once, with its own reply or with
an error that has a cause, and nobody is left waiting (client); a response
carries number, error and reply of one request, recycled objects have one user,
a context is cancelled only on behalf of its caller, and the connection is
closed after the last answer (server); one writer at a time, callbacks that may
call, and a disconnection that happens and is final (bidirectional endpoint); ids
lead responses back (JSON); a message that could not be written whole leads no
reply and no arguments to another call (gob); the method that runs is the one that
was named, and running it does not panic (registry); nothing is lost between handshake and RPC (dialling).

## Modules

| Module | Models |
|---|---|
| `RpcCalls` | abstract: calls are made, end once, outcomes have causes |
| `RpcClient` | `basicClient`, `Client.input` |
| `RpcServer` | `ServeCodec`, `ServeRequestContext`, `Service.call`, free lists, `svc.Pending` |
| `BirpcClient` | EXTENDS `RpcClient`: the bidirectional endpoint, and `BirpcServer.ServeCodec` around it |
| `JsonRpc` | a connection with JSON codecs at both ends |
| `GobPair` | two ends with gob codecs over a bounded transport |
| `Registry` | services, their registration, lookup and call |
| `HttpDial` | setting up a connection, up to the first call |
| `RpcClientProofs`, `BirpcProofs`, `RpcServerProofs`, `JsonRpcProofs`, `GobPairProofs`, `RegistryProofs`, `HttpDialProofs` | theorems about the module of that name |
| `RpcClientRefinement` | theorem: `RpcClient` implements `RpcCalls` |
| `MC*` | instances for TLC |

Definitions named `X_Mut` are the faulty variants of `X` that show the checks to
be sensitive; no specification uses them.

### RpcClient

Variables keep the names of the fields. `pc[t]` says where goroutine `t` is in
`Go`, `Call` or `send`: `lock` (waits for `reqMutex`), `write`, `wrote` and
`failed` (in or after `WriteRequest`, holding `reqMutex`), `wait` (the select of
`Call`), `sent` (`Go` has returned), `cancel` (the context branch). A call is a
pair of the caller and `"main"` or `"cancel"`: `Call` sends up to two requests.

A critical section of `mutex` contains no blocking operation and is one action
together with the step that leads to it. The exception is the loop in which
`input` completes the pending calls: receivers run between its iterations, which
matters because a shared Done channel may overflow or not. It is `Terminate`
followed by one `Drain` per call, with both mutexes held while
`ipc = "draining"`. After `shutdown` the calls stay in `pending`, as in the code.

The network is `wire`, the set of requests the server has seen and not answered:
it may answer in any order, or never. `WriteRequest` may fail although the
request got through, or block, and a write that blocks holds `reqMutex`: `Write` has to
end only once the codec is closed. Method and arguments are abstracted to the call they belong
to, so a header sent with the arguments of another call is visible. `completed`,
`replied` and `discarded` are history variables.

The branch of `send` for a call that "has already been canceled"
(`basic_client.go:57`) is in `Refuse`, but `FreshInv`, a part of `IInv`, says that a
call on its way to `send` has no number: the branch is dead, because `Call` looks at
its context only when `send` has returned. A call whose context has ended is sent, and
returns only when both that write and the one of its cancellation have ended.

### RpcServer

Goroutines are `Reader` (`ServeCodec`, or `ServeRequestContext` called for one request
after the other, as `mode` says) and one per request. A Request or Response
is an index into `reqMem` or `respMem`, the free lists are sequences of indices,
and what a goroutine reads is what is in the object at that time: a use after
free shows as a wrong number. `deferred[n]` is the argument of the deferred
`pending.Cancel`, evaluated at the defer statement. `WriteResponse` is two
steps, header and body. A request is `quick`, `wait` (the method returns when its
context ends), `cancel` or `bad` (unknown method, undecodable body). A method
returns without error, with one, or with one whose text is empty (`blank`), which
goes out as a success. A write that fails is logged and nothing more: over gob the
connection is `broken` from then on, a JSON codec that cannot encode a reply has written
nothing and goes on (`dropped`). With `ServeRequestContext` the handler is a part of `Reader`,
there is no WaitGroup, the codec stays open, and the context given by the
application may end at any time (`ParentEnds`).

### BirpcClient

Adds to `RpcClient` what `BirpcClient.input` does besides reading responses:
`Spawn` and `BadRequest` for requests, `TerminatePending`, `CloseDisconnect` after
`wg.Wait`, `InputCloses`; and, when `server` is TRUE, `PublishConnection`, `Publish` and
`DeferredClose` of `BirpcServer.ServeCodec`. The subscribers that `OnConnect` and
`OnDisconnect` install start a goroutine per function, `callback[e]`. `reqMutex` is
held by a caller, a handler or `input`. `nested` says which calls are made by which
method or callback. A method (`op`) is `quick`, `wait` (it returns when its context ends)
or `cancel`, `_goRPC_.Cancel`, which ends the context of a method that runs or finds
nothing; no other step ends a context in time, since `input` cancels them behind `wg.Wait`.
Free lists and the map of `svc.Pending` are not repeated from `RpcServer`. `Close` is allowed at a server's endpoint too: the value behind
`ctx.Client` has that method.

### JsonRpc

`callSeq` are the client's numbers (its JSON ids), `hseq` those of the serving
codec, `ids` the map between them, `running` the map of `svc.Pending`. `codec`,
chosen initially, says whether notifications are numbered (`serverCodec`) or not
(`jsonCodec`). `send` and `WriteResponse` are single actions, their locking being
the subject of the other modules. A request that is rejected is answered before
the reader reads on. A reply that cannot be encoded (`unencodable`) is not sent, its id
is forgotten, and the connection goes on; a reply that is null or cannot be decoded
ends the client's `input` and all its pending calls.

### GobPair

The two ends are a Client with `gobClientCodec` and a Server with `gobServerCodec`
(`Buffered`), or two BirpcClients with `gobCodec`, which may both call. What goes over
the connection is a sequence of gob values, a header or a body, of which the
transport holds `Cap` in each direction; a reader takes the next value, which need not be
of the kind it expects.

gob compares the names of fields. A type without fields, as `struct{}` and the
`invalidRequest` that goes out with errors, decodes from and into anything; so does one that
shares a field with the headers. `loose` is the set of calls whose arguments and reply
are like that, with no field or with a field `Seq`, as `svc.CancelArgs` has. A body of a
loose type, where a header is expected, is a header with no method, no error and the
number 0 or any number in use (`AsHeader`); any other body is an error. Conversely a
header decodes into a loose type and no other (`Decodes`). Types with a field
`ServiceMethod` or `Error` are not considered. `misled` records ends that have taken a
body for a header.

The buffered codecs encode into `encBuf` and flush; what does not fit into its 4096
bytes goes out ahead (`Spill`). `gobCodec` has an `encBuf` but its encoder writes straight to
the connection. A call is of a method that exists or not, has an empty method name (which
`gobCodec` cannot tell from a response), arguments that cannot be encoded, or a method
whose reply cannot be: then `WriteResponse` closes the connection. `WriteResponse` of
`gobCodec` does so, too, when it fails because the connection is closed already: its
buffer is empty, so `Flush` succeeds (`WriteFails`). A request that cannot be encoded
leaves its header behind, on the connection or in the buffer. The reader that rejects a
request writes the error itself. In `Terminate` and `Lock` the mutexes are those of
`RpcClient`; contexts, `Close` by the user and channels are left out.

### Registry

Types are described by what reflection tells about their methods, and a string by
its parts between dots. `Suitable` has the tests of `suitableMethods`, `Fits` what
`reflect.Value.Call`, `getReplyv` and the use of the result demand; a call that does
not fit is a panic. Registration, `UnregisterName` and the steps of a lookup
(`Load`, `FindMethod`, `Invoke`) interleave. `ServiceCall` is `Service.Call` on a
service the application got from `Range`, with arguments and reply of the right types or
of others (`via`), which it does not look at; and it does not give `CancelArgs` its pending
contexts, so `_goRPC_.Cancel` panics when called like this (`Prepared`). `window[h]` is a history variable: what
`serviceMap` had for the service of request `h` while it was looked up. Failed
registrations change nothing and are not actions.

### HttpDial

For each connection, who dials (`Dial`, `DialHTTP`, or an ordinary HTTP client) and
who listens (`Accept`, an HTTP server with this handler, one without it, or something
that never answers) is chosen initially; the streams hold the texts of the handshake
and the call and reply that follow. Readers of HTTP read ahead as much as happens to
be there (`n` in `HttpRequest` and `ReadStatus`); what the RPC codec will not see of it
is in `lost`. `AcceptFails` models the return of `Accept`, with the listener closed or
left open. `Answer` stands for 405, for a server without the handler and for a failed
`Hijack`, after which `net/http` sends a status of its own. To a gob server behind
`Accept` the "C" of CONNECT is the length, 67, of a message that never becomes complete: the
server and the `DialHTTP` at the other end wait for each other (`Serve`). A GET that is long
enough is a complete message and no gob value (`NotGob`).

## Runs

| Run | Instance | Shows |
|---|---|---|
| `client_calls` | one `Call`, two symmetric `Go`s on a channel of capacity 1 | reply matching, channel of `Call`, at most one completion, no lost call, nothing sent after shutdown, refinement of `RpcCalls` |
| `client_live` | one `Call`, one `Go` | the inductive invariant; `Close` ends all calls, a cancelled `Call` returns if writes end |
| `client_late_reply` | one `Call` | violated: the reply is written after `Call` returned |
| `server` | 2 requests of all kinds, both modes, writes may fail | content of responses, free lists, close after the last answer, no stray cancellation; `ServeCodec` returns, cancellations and the parent context reach methods |
| `server_lost_cancel` | 2 requests | violated: a cancellation that is served before its target has started is lost |
| `server_blank_error` | one request | violated: an error with an empty text goes out as a success with a reply |
| `birpc` | one request, one call, made by a handler or by a callback; client or server | one writer, disconnection happens and is final, callbacks return, refinement of `RpcCalls` |
| `json` | two calls, one cancellation, one notification; both codecs | outcomes and ids are led back, every call returns whose reply can be encoded |
| `json_wrong_cancel` | three calls | violated: after an encoding error a cancellation hits another call |
| `pair` | two calls of any kind, from either end; both pairs of codecs; `Cap = 1` | replies and arguments are one's own, calls end |
| `registry` | one request, 3 changes of the registry, one renamed Service | every lookup is atomic, no request panics |
| `http` | two connections | nothing is lost in the handshake, dials and calls end, failed dials close |

Bounds. One `Call` and two `Go`s have up to four requests between them (the `Call`
may send its cancellation), enough for every pair of racing operations on `pending`,
and two `Go`s on capacity 1 overflow. Two requests at the server are what it takes to
reuse a Request while the goroutine that freed it has its deferred cancel to run.
One handler at the endpoint is enough for the order of its end, with a caller and `input`
as the other writers; a second one, which a method that cancels another needs, makes the
liveness properties too large, and the safety of any number is proved. `MaxServed` in
`JsonRpc` limits the requests served at once to two, the least that end out of order.
In `pair`, two calls are the least of which one can follow a half-written request, block
the other or be given what belongs to the other, and `Cap = 1` is the fullest a transport can be. In `registry`, three
changes are enough to remove a service and to put another one in its place during a
lookup. Two connections in `http` are the least of which one can hold up the other.
Sequence numbers are natural numbers: the code's are 64 bits wide and do not wrap in
any run of the program.

Deadlock is checked but in `server_lost_cancel` (methods that wait for a context
nobody ends), `pair` (two ends may be stuck writing) and `http` (a server
may keep silent); in `RpcServer` and `BirpcClient` the state in which such methods keep the
connection waiting is named, `Finished` and `BFinished`.

Where a property has an exception, the exception is a behaviour of the code that a
reader should know:

- `CancelReturns` and `DisconnectHappens` suppose that writes end (`WritesEnd`,
  `BWritesEnd`): a peer that stops reading blocks a write under `reqMutex`, and with it every
  caller, cancelled or not, and the end of `input`. `CloseDrains` does not suppose it.
- `ServeReturns` and `DisconnectHappens` except methods that wait for a context nobody
  cancels, because `cancel` is deferred behind `wg.Wait` (`server.go:206`,
  `birpc_client.go:75`): it waits for the disconnection, and the disconnection for it.
- `CallsReturn` excepts a reply without JSON encoding: nothing is sent in its place.
- `CallsEnd` excepts `WriteCycle`, both ends writing into a full transport with no reader,
  which happens when two rejected requests over `gobCodec` are answered at the same time
  (`birpc_client.go:89`); calls with an empty method name over `gobCodec`; and connections
  on which a body was taken for a header. `ReplyIsOwn` and `ArgsAreOwn` have the
  exceptions that go with these.
- `NoPanic` excepts what the application does with `Service.Call`.
- `DialReturns` is for HTTP servers: a server that keeps the connection and says nothing, as
  one behind `Accept` does, keeps `DialHTTP` waiting. `CallAnswered` excepts connections in the
  backlog of a listener whose `Accept` has returned.

Fairness. Weak fairness for what a runnable goroutine does next; strong fairness
for taking `reqMutex` or `sending`, because a `sync.Mutex` in starvation mode is
handed to the longest waiter. In `RpcClient` and `BirpcClient` a write, like a read, has to
end only once the codec is closed; a property that needs more says so. `RpcServer`
assumes that writes end, its client reading or being gone; what happens when two ends do
not read is the subject of `GobPair`, where a write waits for room. `GobPair` assumes only that something runs while anything can: each goroutine
has a bounded number of steps. A read returns once the codec is closed; before
that, neither answers nor the end of the connection are assumed. New calls,
`Close`, the end of a context, dialling and hanging up are never assumed, nor do
requests have to arrive. Methods and callbacks that can return do.

## Findings

1. **Late reply** (`client_late_reply`). `input` takes a call out of `pending`, then
   decodes into `call.Reply` without a lock. If the context ends in between, `Call`
   returns and its caller may reuse the reply variable that `input` still writes.
2. **Lost cancellation** (`server_lost_cancel`). Requests are served by goroutines of
   their own, and a context is registered in the goroutine. The cancellation may
   come first, finds nothing and is forgotten.
3. **Wrong call cancelled** (`json_wrong_cancel`). Cancellation uses the client's
   number, the JSON serving codecs number on their own. One request that could not
   be encoded is enough for the numbers to differ for the rest of the connection.
   There is a second way: notifications over `jsonCodec` are all served under number
   0 in `svc.Pending`, and the end of one cancels the context of another, though
   `Pending.Start` assumes that "seq is not already in map". With `Notes = {n1, n2}` in
   `json_wrong_cancel.cfg` the same property shows it.
4. **Errors without a text** (`server_blank_error`). An error is told from success by its
   text, so one with an empty text is a success to the client, which gets the reply;
   `ResponseMatches` leaves that case open.

The code differs from its comments in other places, which the models have but which no run
is devoted to; where a property is in reach it names the case as its exception:

- **`RegisterName` with a `*Service`** ignores the name it is given
  (`basic_server.go:58-63`), although it "uses the provided name for the type" (49-50):
  `RegisterService` of `Registry`.
- **Methods that wait for the disconnection.** `DisconnectNotify` "returns a channel that is
  closed when the client connection has gone away" (`birpc_client.go:59-60`), but `input`
  waits for the methods (121) before it closes that channel and before it cancels their
  contexts. A method that waits for its context when the connection goes waits for ever,
  and nobody is notified (`DisconnectHappens`). `ServeCodec` has the same order
  (`ServeReturns`).
- **Reply that cannot be encoded, over JSON.** `Call` "waits for it to complete, and returns
  its error status" (`basic_client.go:124`), but nothing is sent in place of the reply
  (`jsonrpc/server.go:123`) and the connection lives on; the caller waits for ever
  (`CallsReturn`). Over gob the connection is closed.
- **Body taken for a header, over gob.** A request that cannot be encoded leaves its header
  on the connection. The other end takes the next header for its body and the next body
  for a header, which gob allows if that body is of an empty type; then it waits for a body
  while the caller waits for an answer (`CallsEnd`).
- **`gobCodec` closes twice**, when a reply cannot be encoded (`birpc_codec.go:121`) and at
  the end of `input`; `gobServerCodec` has a flag against that, with the comment "Only call
  c.rwc.Close once; otherwise the semantics are undefined" (`codec.go:65`). In `GobPair` the
  second `Close` changes nothing.
- **`gobCodec` does not buffer.** `NewBirpcClient` "adds a buffer to the write side of the
  connection so the header and payload are sent as a unit" (`birpc_client.go:39-40`), but the
  encoder is given the connection and not the buffer (`birpc_codec.go:67`): `WriteHeader`
  and `WriteBody` are two writes, and a reader may wait between them. A body that does
  not fit into the buffer is sent in pieces by the other codecs, too (`Spill`).

## Proofs

Every safety property that a passing run checks is also a theorem, for all values of
the constants that satisfy the named assumption of the module. In each proof module one
inductive invariant carries the theorems; each action of the specification has a lemma
that it is preserved, and lemmas about what several actions leave alone keep these short.
The client's is also checked by a run, `client_live`.

### The client (`RpcClientProofs`, `RpcClientRefinement`)

For any finite sets of calls and any positive capacity of the shared channel
(`ClientAssumption`): type correctness, at most one completion, no lost call, matching
of replies, sufficiency of the channel of `Call`, that success means a decoded reply,
that nothing is sent after shutdown, and that the client implements `RpcCalls`. None of
these is inductive. `IInv` adds:

- `FreshInv`: a call that `send` has not seen is nowhere;
- `MutexInv`: `reqMutex` is held exactly during `WriteRequest` and after it, and the
  shared header is the holder's, which is why replies match;
- `SeqInv`: a key of `pending` is the number of its call, and a request in flight
  names the call that is pending under its number, if any is;
- `InputInv`: `shutdown` goes with the end of `input`, nobody holds `reqMutex` from
  then on, and the call `input` works on is neither pending nor completed;
- `DoneInv`: before shutdown pending calls are not completed, and completed calls
  without error have their reply;
- `ReachInv`: a caller that sends or waits can still be reached.

The refinement needs `CauseInv` besides, the causes of `ErrShutdown`, of decoded replies
and of cancellations. Each client action is an action of `RpcCalls` or a stutter.

### The bidirectional endpoint (`BirpcProofs`)

For any sets of callers and handlers (`BirpcAssumption`): type correctness, one writer
at a time, no lost call, at most one completion, that disconnection is final, and that an
endpoint implements `RpcCalls`. The client's lemmas are reused rather than repeated. They
do not apply as they stand, since handlers and `input` hold `reqMutex` too, which
`RpcClient` knows nothing of; so `C` is the instance of `RpcClientRefinement` in which
`reqMutex` is `ClientMutex`, free while somebody other than a caller has it. Seen like
this every step of the endpoint is one of `RpcClient`, or changes nothing of it, or
closes the codec (`ClientView`), and each of these preserves `C!IInv` and `C!CauseInv` and
is a step of `RpcCalls` or none. The inductive invariant `BInv` is `C!IInv` with

- `LockInv`: handlers and `input` write only with `reqMutex`;
- `CountInv`: the WaitGroup is the number of handlers at work, so that 0 means none,
  and `wg.Done` never takes it below zero;
- `AnsweredInv`: a handler past its write has answered, and so has `input` for a
  request it rejected, once it goes on;
- `EndInv`: the stages of `input`, and no handler at work after `wg.Wait`.

### The server (`RpcServerProofs`)

For any number of requests of any kind (`ServerAssumption`), with `ServeCodec` and with
`ServeRequestContext`: types, `ResponseMatches`, `NoAliasing`, `CanceledByRequest`,
`ClosedMeansAnswered`. That a response is right depends on who has which object and on
what is in it, at every stage of a goroutine. `ServerInv` says so:

- `StageInv`: who can be where; the codec is closed behind the last handler;
- `ObjInv`: objects in use and free objects exist and differ. It holds because an
  object is put on its free list in the step in which its holder lets it go;
- `ContentInv`: a held Request has its holder's number, a held Response number and error
  of the request it answers;
- `WriteInv`: who is between header and body has `sending`, and the header is its own;
- `SentInv`: what has been read is answered, will be, was dropped, or the connection is
  broken;
- `CtxInv`: `svc.Pending` has contexts only under their own number and while they are
  served, so that the deferred cancel, evaluated before its Request was freed, hits no
  other call;
- `CountInv`: as at the endpoint.

### JSON codecs (`JsonRpcProofs`)

For any finite sets of calls and notifications, and any number served at once
(`JsonAssumption`): types, `ReplyRoundTrip`, `IdsHeldWhileServed`. A response finds its
caller through three maps, so `JsonInv` ties them together: the numbers of the calling
end are unique (`CallInv`), requests on their way carry them, each once (`QueueInv`), the
numbers of the serving end are unique and `ids` leads from them back to the caller's
(`ServeInv`), and a response says how the request with its id ended (`ReplyInv`). It does
not say that the numbers of the two ends agree, and finding 3 is what comes of it.

### gob codecs (`GobPairProofs`)

For any finite set of calls of any kind, either pair of codecs and any capacity
(`PairAssumption`): types and mutexes, `ReplyIsOwn`, `ArgsAreOwn`. A reader trusts that what
follows a header is its body, though headers without bodies may be on the connection or in
the buffer, a body may be taken for a header, and the buffer may send its first header ahead
of the rest. The invariant is therefore not about the connection but about all that an end
has still to take in, `Str(e)`: the header in its reader's hands, what is on the connection,
and what is in the other end's buffer. `Spill` and `Flush` leave it as it is, and readers
take from its front. `PairInv`:

- `StreamInv` (`Stream`): in `Str(e)` a body stands right behind its own header, and a header
  without a body is of a request that could not be encoded (`Alone`), so that the reader
  that takes the next value for its body gets a header and no body of another call; no
  request is there twice, so that no handler is started twice; the last header belongs to
  the writer that is about to write the body. `Mode(e)` says what may come first: at an end
  that has been misled, a header that is no header (`Fake`);
- `BufInv`: a Client's buffer has at most one header of each request, a Server's is empty
  between responses. This bounds what a flush writes (`LenInv`);
- `MsgInv`, `SeqInv`, `ControlInv`: the header a reader has, numbers, and mutexes; a Client
  is never misled, for a Server leaves no header without a body on an open connection.

`IsFiniteSet(Calls)` is assumed for the bound on the transport.

### Registry (`RegistryProofs`)

For any types, names, renaming functions and number of registrations
(`RegistryAssumption`): types, `NoPanic`, `LookupIsAtomic`. `RegistryInv` says that only services whose methods passed `suitableMethods` are
registered, kept by the application or found, renamed or not (`ServiceInv`), and relates
what a lookup has found to the map while it ran (`LookupInv`). `GoRPCAssumption`, that the
type of `_goRPC_` has a suitable method, is needed because a server registers it without
looking at the error (`basic_server.go:21`); it is a fact about `svc.GoRPC`, whose `Cancel` has the
right signature.

### Dialling (`HttpDialProofs`)

For any number of connections: types and `NothingLost`. What a dropped buffer may hold
depends on what can have been sent by then, so `ConnInv` says for each stage of client and
server what is on the streams: until the client has read the answer to its CONNECT there
is nothing of the conversation, and a server that has hijacked the connection has read
ahead nothing but the request.

### Only model-checked

Liveness (`CloseDrains`, `CancelReturns`, `ServeReturns`, `CancelReachesRunning`,
`ParentReaches`, `DisconnectHappens`, `CallbacksReturn`, `CallsReturn`, `CallsEnd`,
`DialReturns`, `CallAnswered`): fairness and ENABLED are out of the prover's reach. The
violations behind the findings are counterexamples, which TLC shows.

## Not modelled

Encoding itself (gob, JSON) is a success or a failure, malformed JSON is left out; so
are `net/http` and its mux, which are modelled by what this code sees of them, the
package-level functions that pass on to `DefaultServer`, the constructors that only
wrap others, and logging. Contexts (`context/`) wrap the standard library's and appear
as contexts that end. The free lists of a server are shared by all of its
connections; `RpcServer` has several goroutines of one connection use them. gob types that share a
field `ServiceMethod` or `Error` with the headers are not among those of `GobPair`.

## Plan

1. Done: client, server with both ways of serving, bidirectional endpoint with callbacks,
   JSON and gob codecs, registry and dialling, each modelled, checked and its safety
   proved; `RpcCalls` and its refinement by the client and by the endpoint.
2. Proofs to come: what the findings rest on, stated positively (over `serverCodec`, cancellation hits its own call as long as every
   request can be encoded); that a `Registry` lookup behaves as one on an immutable map,
   as a refinement.
3. Models to come: two connections that share the free lists; a client and a server
   composed, with cancellation end to end.
