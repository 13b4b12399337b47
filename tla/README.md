# A TLA+ model of the Go RPC package

This project specifies, model-checks and proves properties of the concurrent core of
`rpc/` (package `rpc`, the JSON-RPC client and server): the client's dispatch
loop, client and server subscriptions, the answering of calls and batches, calls
over HTTP from end to end, the websocket codec, the finding and running of
methods with their middlewares and arguments, and the life of a server. Safety is
checked by TLC on small instances and proved by TLAPS for all of them; liveness is
checked. `PROJECT.json` maps every definition to the lines it models and lists runs,
mutants, findings, hazards and theorems.

## 1. The system

| part | state | operations | interacts with |
|---|---|---|---|
| **Client** (`client.go`) | `idCounter`, `writeConn`, the channels of dispatch; dispatch's locals `lastOp`, `reqInitLock`, `conn`, `reading` | `CallContext`, `BatchCallContext`, `Notify`, `Subscribe`, `Close`, `send`, `write`, `reconnect`, `dispatch`, `drainRead`, `read` | callers hand requests to `dispatch` over unbuffered channels and write on their own goroutine; a read loop per connection feeds `dispatch` |
| **Request table** (`handler.go`) | `respWait`, per request `resp`, `err`, `hadResponse` | `addRequestOp`, `removeRequestOp`, `cancelAllRequests`, `handleResponses` | owned by `dispatch`; wakes callers through `op.resp` |
| **Client subscriptions** (`subscription.go`) | `clientSubs`; per subscription a buffer and the channels `in`, `quit`, `err`, `forwardDone`, `unsubDone` | `deliver`, `close`, `run`, `forward`, `Unsubscribe` | `dispatch` blocks in `deliver` and `close`; `run` sends its unsubscribe request through `dispatch` |
| **Call handling** (`handler.go`) | per request a `batchCallBuffer` or `sync.Once`, a timer | `handleMsg`, `handleBatch`, `handleNonBatchCall`, `handleCallMsg`, `respondWithError`, `doWrite` | call goroutine and timer goroutine race to answer |
| **Server subscriptions** | `Notifier` (`buffer`, `activated`), `serverSubs`, `Subscription.err` | `CreateSubscription`, `Notify`, `activate`, `addSubscriptions`, `unsubscribe`, `cancelServerSubscriptions` | the service notifies from goroutines of its own |
| **Server** (`server.go`) | `run`, `codecs`, `mutex` | `ServeCodec`, `trackCodec`, `untrackCodec`, `Stop`, `serveSingleRequest` | makes a client per connection and closes it |
| **Codecs, transports** (`json.go`, `websocket.go`, `http.go`, `ipc.go`, `inproc.go`, `stdio.go`) | connection, encoder lock, closed channel, keepalive timer | `readBatch`, `writeJSON`, `close`, `pingLoop` | under everything above |
| **Registry** (`service.go`) | services, callbacks, middlewares | `registerName`, `callback`, `setMiddlewares`, `call` | used by call handling |
| **Types** (`types.go`), errors, options, headers, metrics | none that changes | parsing, formatting | |

What is hard: callers, dispatch, read loops and subscriptions form a cycle of
goroutines waiting for one another over unbuffered channels; connections break
and are replaced at any point of that; contexts end while an answer is arriving;
dispatch blocks on user code (method handlers, subscriptions); and closing has to
end all of it.

## 2. Modules

Each module comes with an `MC` module for TLC and, where something is proved about
it, a `Proofs` module for TLAPS (section 4). In all of them one action is one
rendezvous or one stretch of code between two blocking operations. Every mutant
(`X_Something`) stands before the definition it is a plausible wrong version of
and is used only to show that a property can fail. None of the modules has a
RECURSIVE operator; sequences that the code builds in a loop are described by what
they contain, such as `InOrder` (the messages of a batch, in their order) and `Nests`
(the trace of a chain of middlewares).

### RpcClient

Callers are the elements of `Calls`; each makes one request, a call, a
notification (`Notifies`) or a batch (`Batches`), and those in `Procs` do so from
inside a method handler that the peer has called (a reverse call). `pc[c]` is the
place in the code: `send` (the select in `send`), `write`, `offer` (the select at
the end of `reconnect`), `report` (`c.reqSent <- err`), `wait` (the select in
`requestOp.wait`), `timeout` (its inner select). `dpc` is dispatch: `loop`,
`waitCalls` (`callWG.Wait` in `handler.close`), `drain` (`drainRead`), `stopped`;
`why` remembers which case it is closing a connection for.

| code | actions |
|---|---|
| `newMessage`, `nextID`, the building of a `requestOp` | `Start` |
| `send`, `write`, `reconnect` | `SendCtx`, `SendQuit`, `WriteOk`, `WriteFail`, `Dial`, `OfferAbort`, `Report` |
| `requestOp.wait` | `Receive`, `WaitCtx`, `TimeoutAbort` |
| `read` and the peer | `ReadResponse`, `ReadCall`, `ReadFail` |
| `dispatch`, a case of the select each | `DispatchClose`, `DispatchReadOp`, `DispatchReadErr`, `DispatchReconnected`, `DispatchReqInit`, `DispatchReqSent`, `DispatchReqTimeout` |
| the rest of `clientConn.close`, `drainRead` | `CallsDone`, `DrainOp`, `DrainErr` |
| `Close`; `Server.Stop` and `ServeCodec` for the client of a served connection | `CloseCall`, `CloseReturn`, `ServerStop` |

A message is the request it answers and the set of ids it carries, so a wrong
delivery is visible. Connections are numbered; a connection can break at any
time (`ReadFail`, `WriteFail`), a failed write may have reached the peer, and an
answer that is already buffered is still read from a closed codec. When
`CanReconnect` is false the module is the client of `ServeCodec`. Ids are drawn
modulo `IdSpace`. `spared` is a history variable.

### SubscriptionSpec, ClientSub

`SubscriptionSpec` is what a user of `Subscribe` relies on: the channel receives
the server's values from the first, in order, without gaps, and nothing after
`Unsubscribe` has returned. `ClientSub` is the code: `subscriber` is the
goroutine in `Subscribe`, `run` the forwarding goroutine, `upc` goroutines in
`Unsubscribe`, `dispatch` the call dispatch is blocked in. It implements
`SubscriptionSpec` under the mapping `channel <- received`, `ended <-` the
subscriptions on which a call of `Unsubscribe` has returned.

Subscribe requests and unsubscribe requests (`Ops`) are sent as in `Client.send`:
dispatch gives them the write lock (`lastOp`), a write that fails is repeated once on
a new connection (`WriteFail`, `retried`, `writeConn`), dispatch closes what the old
connection had and registers the request with the new one (`Reconnect`,
`DispatchClosed`). Dialling, `reconnected` and the draining of the old read loop are
the one step `Reconnect`; RpcClient has the detail. As the failed write may have
reached the server, both connections may answer, and `handleResponses` starts `run`
for every answer, so a subscription has up to two of these goroutines (`Runs`).
`received` has the values of the first. `crashed` says that a goroutine has panicked
by closing a closed channel or sending on one.

### CallProc

One request, single or batch, of messages of four classes. `pc` is the call
goroutine, `timer` the goroutine of `time.AfterFunc`; `doWrite` with `wrote` is
both `batchCallBuffer.doWrite` and `sync.Once`. The timer's two steps, `cancel()`
and the answer, are two actions. Methods return a result of any of the given
sizes or an error, or do not return. Only HTTP requests have a timeout: the
contexts of other connections have neither a deadline nor a server.

### HttpServe, HttpCall

`HttpServe` is `CallProc` driven by `ServeHTTP` and `serveSingleRequest`. `conn` is
the goroutine that net/http runs the handler on: it checks the request
(`validateRequest`), looks at `Server.run`, reads the body through the limit, hands
it to `handleBatch` or `handleMsg` and waits in the deferred `handler.close`.
`PeerGone` is net/http cancelling the request's context, at any moment. A body is
empty, a JSON value or broken; `web.known` is FALSE for a request without
Content-Length, which only the `LimitReader` bounds.

`HttpCall` puts the Go client at the other end and has the next-state relation of
both: `cl` is the goroutine in `CallContext`, `BatchCallContext` or `Notify`, in
`http.Client.Do` (`do`), at `op.resp <-` (`deliver`, `stuck`), in `requestOp.wait`
(`wait`), `returned`. `flushed` says that the response has left the server: an
error response is flushed at once by the encoder of `newHTTPServerConn`, the rest
when `ServeHTTP` returns. `Assigned` is what `BatchCallContext` does to the
`BatchElem`s: first answer by id, unknown ids ignored, the others missing. The
position of a message stands for its id. Requests that a Go client does not make
are served too, with `cl = "none"`.

### WsCodec

One websocket connection, from the handshake on. `Upgrade` is `WebsocketHandler`
with the origin check: an origin is a record of scheme, host, port and whether it
is written in upper case, as `parseOriginURL` treats these differently. Then
`pingLoop` (`ppc`; a case of its select each), the read loop with the pong handler
(`rpc`), goroutines in `writeJSON` (`wpc`) and `close` (`closer`) share `encMu`, the
channels `pingReset`, `pongReceived` and `closeCh`, and the read deadline. Time is
in ticks: timers and deadlines count down, and a tick passes only when no goroutine
has anything to do (`Busy`). A peer that is alive answers a ping within `PeerDelay`;
`PeerDies` may happen at any time, after which the network takes `Window` more
messages. A deadline that has passed can still be moved on by `pingLoop` as long as the
reader has not run, as in Go's network poller; the ping timer and the deadline may
be due in the same tick.

### BlockNumbers, Invoke

`BlockNumbers` has the two argument types of `types.go` as operators: how they are
written (`String`, `Marshal`) and read (`UnmarshalNumber`, `UnmarshalNumberOrHash`),
with `MaxInt64` as the width. `Invoke` is a registry and call goroutines:
`RegisterName` is `registerName` with `suitableCallbacks` and `newCallback` (a Go
method is the shape of its type; `Stored` is storing entries in a map);
`SetMiddlewares` and `SetMiddlewaresDone` are the assignment of the slice, whose
words `len` and `list` a goroutine in `runMethod` may see apart. A call is looked up and its arguments refused or parsed (`HandleCallMsg`, with
`invalidArguments` and `parsePositionalArguments`), reads the
length of the middlewares (`RunMethod`), reads them one by one from the last
(`Wrap`) and runs the chain and the method (`Call`). `given` and `raced` are history
variables: the list that was in force, and the calls that overlapped with
`SetMiddlewares`.

### ServerSub

Subscribe requests with their notifiers on one connection. `Notify` may be called
from the moment the subscription exists. The subscriptions in `Limited` are made
in a batch whose answers exceed `batchResponseMaxSize`, where the answer is
written before `addSubscriptions`. Writing to the connection may begin to fail at any
message, and then fails for good. A value or an answer in `Unfit` does not marshal:
that fails its own write only, since `json.Encoder` keeps errors of the writer and not
those of the value. `activate` gives up at the first error of either kind and leaves
the notifier inactive. `ToldLost` are the values that do not marshal and whose `Notify`
returned that error, as it did not buffer them. (On a websocket a failed
marshal also flushes an empty message; what a peer makes of that is not modelled.)

### ServerLifecycle

`ServeCodec` per connection, reduced clients with at most one method each, and
goroutines calling `Stop`. The server's mutex is held over `Stop`'s loop.

## 3. Runs

Every run is exhaustive over its instance.

| run | instance | shows |
|---|---|---|
| `Client_calls` | a call and a batch of 2, 2 connections, 3 ids, fairness | `WriteLock`, `RespChanSafe`, `OneReader`, `ConnsAccounted`, `RightAnswer`, `NobodyForgotten`, with partial and duplicate answers; `CloseReturns`, `QuitReleasesCalls` |
| `Server_serve` | the client of a served connection, a notification and a method handler with a reverse call, fairness | `OnlyReverseCallsBlock` |
| `Sub_live` | a subscription with 2 unsubscribers, 3 values, a buffer of 2 and one new connection, or two that share a connection, one of them with a value that does not unmarshal; fairness | `KeepsPromise` (refinement of `SubscriptionSpec`), `ErrChanSafe`, `DispatchReleased`, `UnsubscribeReturns` |
| `Call_answers` | HttpCall: every request of up to 4 messages, limits 3 and 1, bodies up to one more than the limit, timeout, fairness | `AnsweredOnce`, `CompleteInTime`, `OwnOutcome` (each `BatchElem` gets the outcome of its own call), `TimeoutReaches` (the server's timeout reaches the caller over an unfinished response), `NoWriteAfterReturn`, `EverybodyReturns` |
| `Ssub_all` | any 2 of 3 subscriptions with 3 values each, one in a batch that is too large, a value and an answer that do not marshal | `IdFirst`, `NotesInOrder`, `SubErrSafe`, `AllReleased`, `UnsubscribeDeletes` |
| `Life_stop` | 2 connections, 2 calls of Stop, fairness | `StopClosesAll`, `TrackedWhileServed`, `StopEndsServing` |
| `Ws_alive` | every pair of 5 origins and 7 configurations, one writer, ping interval and pong timeout both 3, fairness | `LivePeerKept`, `DeadPeerNoticed`, `CloseEndsAll`, `OriginChecked` |
| `Invoke_calls` | 2 call goroutines with every kind of message and argument, 3 receivers to register under 2 names, 3 lists of middlewares set twice | `MiddlewareOrder`, `MeantBlock`, `ValidAccepted`, `NothingUnregistered` |

`TypeOK` of RpcClient, ClientSub, HttpCall (`CallTypeOK`), ServerSub and
ServerLifecycle is checked too. Four runs are expected to fail, each a
disagreement between the code and what is written about it (details under
`findings`):

| run | what the code does |
|---|---|
| `Client_lost` | a read error between a write and `reqSent` leaves the caller waiting, also after Close |
| `Server_hang` | a handler in a reverse call and dispatch wait for each other when the connection breaks |
| `Sub_ctx` | `Subscribe` fails on its context and the subscription runs |
| `Call_batchTimeout` | a batch that times out may be answered without the calls that are left |

Other places where the code and its comments part, which the models follow the
code in and which the properties above therefore leave out:

* a batch with no elements has no ids, so its caller is released neither by the
  server's answer nor by Close (`client.go:406`, against `client.go:298`);
  `QuitReleasesCalls` is for batches that are not empty;
* `clientSubs`, "active client subscriptions" (`handler.go:68`), keeps
  subscriptions that have ended until the connection is closed;
* the timer of a single message answers notifications too (`handler.go:301`);
  `NoWriteAfterReturn` and `AnsweredOnce` except a notification on its own;
* in a batch that exceeds the size limit the subscription id is written before
  `addSubscriptions` (`handler.go:245`), so an unsubscribe request can miss it;
  `UnsubscribeDeletes` excepts `Limited`;
* a failed notification does not close the connection (`subscription.go:131`,
  `doc.go:99` say it does), and notifications before activation are buffered, not
  dropped (`subscription.go:114-115`);
* `Stop` neither waits for `stopPendingRequestTimeout` nor cancels pending
  requests (`server.go:187-189`): `rootCtx` is cancelled only after the methods
  have returned (`handler.go:327-328`); `StopEndsServing` assumes they return;
* `Notify` over HTTP makes an `op` without a channel (`http.go:184` sends to it): if
  the server's timer answers the notification, `Notify` blocks for ever, whatever
  its context does; if nothing answers it, the body is empty and `Notify` returns
  `io.EOF`. `EverybodyReturns` excepts the first, `DecodeFails` has the second. An
  empty batch over HTTP ends in a decode error, as the server answers it with one
  object;
* `wsPingInterval` and `wsPongTimeout` are equal (`websocket.go:38-40`), so the next ping
  is due when the read deadline is. If `pingLoop` runs first it moves the deadline on,
  although it has passed, and a dead peer stays unnoticed for another interval.
  `DeadPeerNoticed` says that the reader notices, unless `pingLoop` wins this race
  for ever;
* a subscribe request whose write fails is repeated on a new connection
  (`client.go:588`, `client.go:660-676`), and if both are answered `run` is started twice
  (`handler.go:424`): the second `close(sub.forwardDone)` panics (`subscription.go:298`),
  and until then deliver may find it closed and drop values for the second. The comment
  at `subscription.go:220-222` knows one forwarding loop. `ErrChanSafe` says that nothing
  else panics, and that no second report gets to `sub.err`; `KeepsPromise` is about the
  first loop's values;
* an answer that does not marshal (the `ErrorData` of an error, also that of another
  call in the batch) is dropped with an error that nobody looks at, and the notifier is
  activated all the same (`handler.go:254-258`, `handler.go:315-322`,
  `subscription.go:157-159`), so notifications are sent for an id the client never got;
  `IdFirst` excepts it;
* a buffered value that does not marshal ends the activation: later values are buffered
  and never sent, without an error from `Notify` (`subscription.go:152-166`).
  `NotesInOrder` says that a value passed over on the wire is one whose `Notify`
  returned the error;
* an allowed origin that is a bare host name in upper case matches nothing, because
  `parseOriginURL` (`websocket.go:167-186`) takes the host from the text before it was put
  into lower case; a numeric host with a port and no scheme does not parse.
  `OriginChecked` says exactly that;
* `SetMiddlewares` during calls is a data race with `runMethod` (`handler.go:581`),
  which reads the slice anew for each index, without the registry's lock: a call
  may run a mixture of two lists, or panic outside `callback.call` and end the
  process. No comment forbids it. `MiddlewareOrder` is about calls that do not
  overlap;
* `argval.IsNil` in `parseArgumentArray` (`json.go:347`) is never true, so `null` for a
  required `BlockNumberOrHash` is accepted as one with neither number nor hash.

**Bounds.** Two callers are enough for every pair of them to meet at the write
lock and in the table; a third adds no new kind of meeting. Two connections let
one replace the other while either caller is anywhere; a replacement that is itself
replaced is left to the proofs, which hold for any `MaxConn` (and any number of callers). With as many ids as messages the counter wraps in
every long behaviour while pending ids stay distinct, as with 2^32. In `Sub_live` a
buffer of two holds values whose order matters and overflows at the third, and one
new connection is as many as a request can use. Two subscriptions at a time, chosen
from three, put each kind next to each other kind in `Ssub_all`. Batches of four exceed a
limit of three; a limit of one byte is met exactly and exceeded. Two connections
and two stoppers make every race at the server's mutex happen. In `Ws_alive` a write
may take as long as its deadline while the ping timer fires, and a pong may arrive
before or after `pingLoop` sets the deadline. With `MaxInt64 = 7` the named numbers,
both ends of int64 and the first values that neither int64 nor uint64 hold all occur.
Lists of at most two middlewares, set twice, let a goroutine meet a shorter, a
longer and a different list. Nothing is
symmetry-reduced. `CHECK_DEADLOCK FALSE` stands where the modelled system may
legitimately end (all subscriptions over, the connection closed, all calls made) and in the two
instances with reverse calls, which really can deadlock (`Server_hang`).

**Fairness.** Weak fairness of each goroutine's own steps: Go's scheduler runs
every goroutine that can run. Writing and dialling end because both have
deadlines. Reading from a closed codec fails because `close` closes the
connection, at the latest after what was buffered before, hence strong fairness
(`stdioConn` is the exception, and is not covered). In RpcClient a method handler
that does not wait for the client goes on. In ClientSub a write, a dial and an
unsubscribe request end, the last at the latest by `unsubscribeTimeout`. In HttpCall the server's goroutine, the
timer's once it has fired, and the caller's run; reading a body ends, at the latest
by the server's `ReadTimeout` (`DefaultHTTPTimeouts`). In WsCodec `pingLoop` and the
writers are strongly fair, as Go hands a mutex to a goroutine that has waited for a
millisecond and chooses at random in a select; time goes on (strong fairness of
`Tick`); a codec whose reading has failed is closed by its user. Nothing is assumed of peers, of
contexts, of readers of user channels or of methods, except in `Life_stop`, whose
specification `MethodsReturn` says so.

## 4. Proofs

Every invariant, every action property and the refinement that the passing runs
check is proved with TLAPS for all values of the constants: any sets of callers,
connections, subscriptions, requests and receivers, any limits, any width of the
integers. Each module states an inductive invariant `Inv` as a conjunction of named
parts, shows `InitInv` and `StepInv` (a lemma per part, with a step per action), and
draws the theorems from `Invariance`. Every part was checked by TLC before it was
proved. The assumptions are those that the models' `ASSUME`s name, which TLC
evaluates in the runs.

| module | what holds of every behaviour of the specification |
|---|---|
| `RpcClientProofs` | `TypeOK`, `WriteLock`, `RespChanSafe`, `OneReader`, `ConnsAccounted` |
| `RpcAnswerProofs` | `RightAnswer`, `NobodyForgotten`, from distinct ids, and distinct ids |
| `ClientSubProofs` | `TypeOK`, `ErrChanSafe`, refinement `KeepsPromise` |
| `HttpCallProofs` | `CallTypeOK`, `AnsweredOnce`, `CompleteInTime`, `OwnOutcome`, action property `NoWriteAfterReturn` |
| `ServerSubProofs` | `TypeOK`, `IdFirst`, `NotesInOrder`, `SubErrSafe`, `AllReleased`, `UnsubscribeDeletes` |
| `ServerLifecycleProofs` | `TypeOK`, `StopClosesAll`, `TrackedWhileServed` |
| `WsCodecProofs` | `LivePeerKept`, `OriginChecked` |
| `InvokeProofs` | `MiddlewareOrder`, `MeantBlock`, `ValidAccepted`, action property `NothingUnregistered` |

**RpcClientProofs** rests on `ConstantsAssumption` only (the sets of callers are
subsets of `Calls`, `NoOp` is not a caller, `IdSpace` and `MaxConn` are positive).
The invariant adds to the five properties what each of them needs of the past:

* `ReportInv`: a caller that reports has the outcome of its write, so `reqSent`
  keeps its type;
* `LockInv`: `WriteLock`, and that a value on `reqSent` was put there by the
  holder of the lock, so the next caller finds it empty;
* `CloseInv`: while dispatch closes a connection it knows why, a replacement is at
  hand if it is to be installed, and a connection it no longer reads is closed;
* `CallMsgInv`: a method call that was read and not started belongs to a handler
  that is still idle and is held by one read loop;
* `FreshInv`: a request that dispatch has not seen is in no table and its channel
  is unused, so registering it is safe;
* `LastOpInv`: the request being sent has an open channel until the client quits,
  although a read error or a reconnect has taken it out of the table, so
  registering it again is safe;
* `AnswerInv`: an answer in the channel means `hadResponse`;
* `LostInv`: while dispatch closes a lost connection its read loop has ended.

**RpcAnswerProofs** is about who receives an answer. `RightAnswer` and
`NobodyForgotten` are false when two pending requests share an id, which takes a
request that waits while 2^32 others are made. The code relies on that not
happening, and the theorems say where:

* `WhileIdsDistinct`: in every behaviour in which no two requests share an id
  (`DistinctIds`) both hold, whether or not the counter has wrapped;
* `DistinctIdsHold`: with a finite number of callers whose messages are fewer than
  `IdSpace` (`EnoughIds`) the ids are distinct, however the callers interleave;
* `RightAnswerHolds`, `NobodyForgottenHolds`: the two together.

`MsgInv` (an answer carries ids of a request that was sent), `TableInv` (a request is
in the table under its own ids) give `RightAnswer`. For `NobodyForgotten` the
argument has to begin before the caller waits: `ToldInv` says of every request from
`reqInit` on that it is in the table of a connection which is read, or is the
`lastOp` that dispatch will move to the connection it installs, or can only fail to
be written; `WriteConnInv` (what can be written to is read, or closed), `SentInv` (a
failed write has ended its request before dispatch removes it) and `HadInv` (an
answer stays until it is taken) carry it.

**ClientSubProofs.** `RunInv` orders the goroutines: `run` starts with an answer to
the request, and a second one only when the first no longer forwards, since dispatch
closes the old subscriptions before it registers the request again. `EndInv` says that
of two runs at most one gets past `close(forwardDone)`, so that only one can report, and
that it reports before it closes `unsubDone` and `sub.err` is closed after that; `ErrChanSafe` follows, and a panic is possible only there. For the
refinement the whole way of a value to the first run is accounted for: `ForwardInv` (the
user's channel has the first values, the buffer those that follow, a blocked `deliver`
the next one), `WireInv` (the connection holds the rest up
to the last one sent, behind the answer that makes the subscription known) and
`DispatchInv` (what dispatch may be blocked in). `Refinement` shows that every step is then a step of
`SubscriptionSpec` or none.

**HttpCallProofs.** `StageInv` ties the call goroutine to `ServeHTTP`, which starts it
and waits for it; `PendingInv` says that, as long as nobody has written, the answers
collected are those of different calls, which are no longer in `calls`, and every
expected call is in one of the two; `SentInv` says the same of what was written, by
whichever of loop, size limit and timer; `CallsInv` which calls are left where;
`ClientInv` what the caller has made of it. `NoWriteAfterReturn` is an action
property of the same invariant.

**ServerSubProofs.** `AnswerInv` orders addition to the table, answer and activation,
with the exception of batches that are too large (`Limited`) and of answers that do not
marshal; `NoteInv` keeps every value in the buffer before activation and none on the
wire until it has been tried; afterwards each value is on the wire or its
`Notify` has failed (`LostStays`: a value so lost is never buffered later);
`TableInv` says that from `addSubscriptions` on a subscription is in the table or has
had its channel closed.

**ServerLifecycleProofs.** `MutexInv` (who holds the mutex closes codecs), `ServeInv` (where
`ServeCodec` is says whether its codec is known) and `StopInv` (once `run` is
false every known codec is closed or about to be, and nothing is left when the
mutex is free).

**WsCodecProofs.** `DeadlineInv`: while the peer answers and writing works, a read
deadline runs only between a ping and its pong, the pong is due before it, and
`pingLoop` is in its select to take it, as the timer does not fire before the deadline.
This is where `PeerDelay < PongTimeout <= PingInterval` is used. `OriginChecked` is decided in one
step, for all lists of rules.

**InvokeProofs.** For the registry `ServicesInv`: what can be looked up is a method of a
receiver that has been registered. For the middlewares `SliceInv` (the words of the slice
agree between two calls of `SetMiddlewares`) and `ChainInv` (for a call that has not
overlapped, the chain is the part of the list behind the index); `Nested` and `CallNests` then
show that the trace mirrors itself around the method. For the arguments `DecodeRight`,
over all forms of values and texts: what is read back is the block that was written,
or an error for a value that is not acceptable; `ArgsInv` carries it from parsing to
the call.

Only model-checked are the properties of liveness, which are out of the prover's reach:
`CloseReturns`, `QuitReleasesCalls`, `OnlyReverseCallsBlock`, `DispatchReleased`,
`UnsubscribeReturns`, `TimeoutReaches`, `EverybodyReturns`, `StopEndsServing`,
`DeadPeerNoticed` and `CloseEndsAll`; and the four disagreements.

## 5. Not modelled, and the plan

Not modelled: the text of messages and its parsing (`parseMessage`, `parseSubscriptionName`
beyond what they accept or refuse), `ContextRequestTimeout`'s arithmetic, dialling and
the headers and authentication of requests, opening of sockets and pipes,
`RPCService.Modules`, `formatName`, error types, options and metrics. They are
sequential conversions or I/O, with no state that two goroutines share.
`stdioConn.Close` does nothing, so the fairness of reading does not cover it.

Smaller abstractions inside what is modelled: `RpcClient!Start` draws the ids of a batch
in one step, where the code makes one atomic addition per message; a peer answers a
request in one message per connection, and no message mixes the ids of two requests;
`ReadFail` leaves out the error message that the read loop writes back after text that
does not parse; `Client_calls` has as many ids as messages, so what happens when an id is
used again is left to `WhileIdsDistinct`; `Invoke!Call` has middlewares that call `next`
once and return its answer, not ones that panic, return nil or call it twice; a response
is written in one step.

What is left for proofs: the safety half of the liveness properties (that a goroutine
which waits has somebody who can release it, as `NobodyForgotten` says of callers), first
for `deliver` and `close` blocked on a subscription and for the pong handler blocked on
`pingLoop`; and action properties on the growth of tables that only closing empties.
