----------------------------- MODULE RpcClient -----------------------------
(***************************************************************************)
(* The connection side of rpc.Client (rpc/client.go) together with the     *)
(* request bookkeeping of its handler (rpc/handler.go): goroutines that    *)
(* make one request each, the dispatch loop that owns all shared state,    *)
(* one read loop per connection, Close, and reconnection by the writer.    *)
(*                                                                         *)
(* Every rendezvous on an unbuffered channel is one action of dispatch;    *)
(* the buffered channels op.resp (capacity 1) and reqSent (capacity 1) are *)
(* state.  Connections and the handler attached to each are numbered from  *)
(* 1; a handler that dispatch has replaced is unreachable, so respWait is  *)
(* the table of the current one.  Subscriptions are in ClientSub.          *)
(***************************************************************************)
EXTENDS Integers

CONSTANTS
  Calls,            \* goroutines, each making one request
  Notifies,         \* those that call Notify
  Batches,          \* those that call BatchCallContext
  Procs,            \* those that run inside a method handler (reverse calls)
  BatchLen,         \* messages in a batch
  IdSpace,          \* values of Client.idCounter, 2^32 in the code
  MaxConn,          \* bound: connections opened in one behaviour
  CanReconnect,     \* reconnectFunc # nil: FALSE for the clients of ServeCodec
  NoOp              \* the nil *requestOp

ASSUME ConstantsAssumption ==
  /\ Notifies \subseteq Calls /\ Batches \subseteq Calls /\ Procs \subseteq Calls
  /\ NoOp \notin Calls
  /\ BatchLen \in Nat /\ IdSpace \in Nat \ {0} /\ MaxConn \in Nat \ {0}
  /\ CanReconnect \in BOOLEAN

Ids   == 0 .. IdSpace - 1
Conns == 1 .. MaxConn
Errs  == {"lost", "reconnected", "quit"}   \* what cancelAllRequests reports
PCs   == {"idle", "run", "send", "write", "offer", "report", "wait", "timeout", "done"}

Response(c, s) == [type |-> "response", of |-> c, ids |-> s]
Request(p)     == [type |-> "call", of |-> p, ids |-> {}]
NoMsg          == [type |-> "none", of |-> NoOp, ids |-> {}]
Messages == [type : {"response", "call", "none"}, of : Calls \cup {NoOp}, ids : SUBSET Ids]

VARIABLES
  pc,          \* where each calling goroutine is
  retry,       \* calls whose write already failed once
  result,      \* what send or the whole request returned
  idCounter,   \* Client.idCounter
  ids,         \* requestOp.ids of each call
  respBuf,     \* requestOp.resp: the request that the buffered answer is for
  respClosed,  \* calls whose requestOp.resp is closed
  hadResponse, \* calls whose requestOp.hadResponse is set
  opErr,       \* requestOp.err
  respWait,    \* handler.respWait
  dpc, why,    \* dispatch: where it is, and which case made it close conn
  locked,      \* reqInitLock = nil
  lastOp, conn, newConn, reading,   \* locals of dispatch
  reqSent,     \* the buffered channel Client.reqSent
  closer,      \* the goroutine that calls Close
  writeConn,   \* Client.writeConn, 0 is nil
  dialed,      \* number of connections opened so far
  closed,      \* connections whose codec has been closed
  reader, readMsg,  \* the read loop of each connection and the message it holds
  peer,        \* requests the peer of each connection has received and not answered
  spared       \* history: calls that a read error took out of respWait unanswered

callVars == <<pc, retry, result, idCounter, ids>>
opVars   == <<respBuf, respClosed, hadResponse, opErr, respWait, spared>>
dispVars == <<dpc, why, locked, lastOp, conn, newConn, reading>>
netVars  == <<closed, reader, readMsg, peer>>
writeVars == <<writeConn, dialed>>
vars == <<callVars, opVars, dispVars, netVars, writeVars, reqSent, closer>>

TypeOK ==
  /\ pc \in [Calls -> PCs]
  /\ retry \subseteq Calls
  /\ result \in [Calls -> {"none", "ok", "failed", "answer", "ctx"} \cup Errs]
  /\ idCounter \in Ids /\ ids \in [Calls -> SUBSET Ids]
  /\ respBuf \in [Calls -> Calls \cup {NoOp}]
  /\ respClosed \subseteq Calls /\ hadResponse \subseteq Calls /\ spared \subseteq Calls
  /\ opErr \in [Calls -> {"none"} \cup Errs]
  /\ respWait \in [Ids -> Calls \cup {NoOp}]
  /\ dpc \in {"loop", "waitCalls", "drain", "stopped"}
  /\ why \in {"none"} \cup Errs
  /\ locked \in BOOLEAN /\ reading \in BOOLEAN
  /\ lastOp \in Calls \cup {NoOp}
  /\ conn \in Conns /\ newConn \in Conns \cup {0}
  /\ writeConn \in Conns \cup {0} /\ dialed \in Conns
  /\ reqSent \in {"empty", "ok", "failed"}
  /\ closer \in {"idle", "call", "wait", "done"}
  /\ closed \subseteq Conns
  /\ reader \in [Conns -> {"none", "reading", "message", "error", "exited"}]
  /\ readMsg \in [Conns -> Messages]
  /\ peer \in [Conns -> SUBSET Calls]

Init ==
  /\ pc = [c \in Calls |-> "idle"] /\ retry = {}
  /\ result = [c \in Calls |-> "none"]
  /\ idCounter = 0 /\ ids = [c \in Calls |-> {}]
  /\ respBuf = [c \in Calls |-> NoOp] /\ respClosed = {} /\ hadResponse = {}
  /\ opErr = [c \in Calls |-> "none"] /\ respWait = [i \in Ids |-> NoOp]
  /\ dpc = "loop" /\ why = "none" /\ locked = FALSE /\ lastOp = NoOp
  /\ conn = 1 /\ newConn = 0 /\ reading = TRUE
  /\ reqSent = "empty" /\ closer = "idle"
  /\ writeConn = 1 /\ dialed = 1 /\ closed = {}
  /\ reader = [n \in Conns |-> IF n = 1 THEN "reading" ELSE "none"]
  /\ readMsg = [n \in Conns |-> NoMsg] /\ peer = [n \in Conns |-> {}]
  /\ spared = {}

Closing  == dpc = "stopped" \/ (dpc # "loop" /\ why = "quit")  \* Client.closing is closed
DidClose == dpc = "stopped"                                    \* Client.didClose is closed

-----------------------------------------------------------------------------
(* Calling goroutines.                                                     *)

Goto(c, l) == pc' = [pc EXCEPT ![c] = l]

Return(c, r) == Goto(c, "done") /\ result' = [result EXCEPT ![c] = r]

\* The n-th value idCounter.Add(1) will return from now on.
nextID(n) == (idCounter + n) % IdSpace

\* How many messages a request consists of.
MessageCount(c) == IF c \in Batches THEN BatchLen ELSE 1

\* requestOp.ids: Notify drops the id of its message again.
opIds(c) == IF c \in Notifies THEN {} ELSE {nextID(i) : i \in 1 .. MessageCount(c)}

\* Mutants: the counter does not wrap; the counter is not advanced.
Start_NoWrap(c) ==
  /\ pc[c] = (IF c \in Procs THEN "run" ELSE "idle")
  /\ idCounter' = idCounter + MessageCount(c)
  /\ ids' = [ids EXCEPT ![c] = opIds(c)]
  /\ Goto(c, "send")
  /\ UNCHANGED <<retry, result, opVars, dispVars, netVars, writeVars, reqSent, closer>>

Start_SameId(c) ==
  /\ pc[c] = (IF c \in Procs THEN "run" ELSE "idle")
  /\ ids' = [ids EXCEPT ![c] = opIds(c)]
  /\ Goto(c, "send")
  /\ UNCHANGED <<retry, result, idCounter, opVars, dispVars, netVars, writeVars, reqSent, closer>>

\* A request is made: newMessage draws an id per message.
Start(c) ==
  /\ pc[c] = (IF c \in Procs THEN "run" ELSE "idle")
  /\ idCounter' = nextID(MessageCount(c))
  /\ ids' = [ids EXCEPT ![c] = opIds(c)]
  /\ Goto(c, "send")
  /\ UNCHANGED <<retry, result, opVars, dispVars, netVars, writeVars, reqSent, closer>>

\* A method handler that returns without making its reverse call.
ProcReturn(c) ==
  /\ c \in Procs /\ pc[c] = "run"
  /\ Goto(c, "done")
  /\ UNCHANGED <<retry, result, idCounter, ids, opVars, dispVars, netVars, writeVars, reqSent, closer>>

\* send gives up before dispatch has taken the request: its context ended...
SendCtx(c) ==
  /\ pc[c] = "send"
  /\ Return(c, "ctx")
  /\ UNCHANGED <<retry, idCounter, ids, opVars, dispVars, netVars, writeVars, reqSent, closer>>

\* ... or the client is quitting.
SendQuit(c) ==
  /\ pc[c] = "send" /\ Closing
  /\ Return(c, "quit")
  /\ UNCHANGED <<retry, idCounter, ids, opVars, dispVars, netVars, writeVars, reqSent, closer>>

\* writeJSON succeeds: the peer has the request.
WriteOk(c) ==
  /\ pc[c] = "write" /\ writeConn \notin closed \cup {0}
  /\ peer' = [peer EXCEPT ![writeConn] = @ \cup {c}]
  /\ Goto(c, "report") /\ result' = [result EXCEPT ![c] = "ok"]
  /\ UNCHANGED <<retry, idCounter, ids, opVars, dispVars, closed, reader, readMsg, writeVars, reqSent, closer>>

\* writeJSON fails, possibly after the peer could already decode the request;
\* write tries once more, on a new connection.
WriteFail(c) ==
  /\ pc[c] = "write" /\ writeConn # 0
  /\ \/ peer' = peer
     \/ writeConn \notin closed /\ peer' = [peer EXCEPT ![writeConn] = @ \cup {c}]
  /\ writeConn' = 0
  /\ IF c \in retry
     THEN /\ Goto(c, "report") /\ result' = [result EXCEPT ![c] = "failed"]
          /\ retry' = retry
     ELSE retry' = retry \cup {c} /\ UNCHANGED <<pc, result>>
  /\ UNCHANGED <<idCounter, ids, opVars, dispVars, closed, reader, readMsg, dialed, reqSent, closer>>

\* reconnect: dialing succeeds and the connection is offered to dispatch, or it
\* fails (reconnectFunc is nil or returns an error).
Dial(c) ==
  /\ pc[c] = "write" /\ writeConn = 0
  /\ \/ /\ CanReconnect /\ dialed < MaxConn
        /\ dialed' = dialed + 1
        /\ Goto(c, "offer") /\ result' = result
     \/ /\ dialed' = dialed
        /\ Goto(c, "report") /\ result' = [result EXCEPT ![c] = "failed"]
  /\ UNCHANGED <<retry, idCounter, ids, opVars, dispVars, netVars, writeConn, reqSent, closer>>

\* Mutant: the connection nobody takes is not closed.
OfferAbort_Leak(c) ==
  /\ pc[c] = "offer" /\ DidClose
  /\ Goto(c, "report") /\ result' = [result EXCEPT ![c] = "failed"]
  /\ UNCHANGED <<retry, idCounter, ids, opVars, dispVars, netVars, writeVars, reqSent, closer>>

\* reconnect finds didClose closed: the new connection is closed again.
OfferAbort(c) ==
  /\ pc[c] = "offer" /\ DidClose
  /\ closed' = closed \cup {dialed}
  /\ Goto(c, "report") /\ result' = [result EXCEPT ![c] = "failed"]
  /\ UNCHANGED <<retry, idCounter, ids, opVars, dispVars, reader, readMsg, peer, writeVars, reqSent, closer>>

\* send: c.reqSent <- err, then the error or the wait for the answer.
Report(c) ==
  /\ pc[c] = "report" /\ reqSent = "empty"
  /\ reqSent' = result[c]
  /\ Goto(c, IF result[c] = "ok" /\ c \notin Notifies THEN "wait" ELSE "done")
  /\ UNCHANGED <<retry, result, idCounter, ids, opVars, dispVars, netVars, writeVars, closer>>

\* wait receives from op.resp; a closed channel still yields its buffered value.
Receive(c) ==
  /\ pc[c] = "wait"
  /\ respBuf[c] # NoOp \/ c \in respClosed
  /\ Return(c, IF opErr[c] # "none" THEN opErr[c] ELSE "answer")
  /\ respBuf' = [respBuf EXCEPT ![c] = NoOp]
  /\ UNCHANGED <<retry, idCounter, ids, respClosed, hadResponse, opErr, respWait, spared,
                 dispVars, netVars, writeVars, reqSent, closer>>

\* wait sees the context end; the request then goes to dispatch for removal.
WaitCtx(c) ==
  /\ pc[c] = "wait"
  /\ Goto(c, "timeout")
  /\ UNCHANGED <<retry, result, idCounter, ids, opVars, dispVars, netVars, writeVars, reqSent, closer>>

TimeoutAbort(c) ==
  /\ pc[c] = "timeout" /\ Closing
  /\ Return(c, "ctx")
  /\ UNCHANGED <<retry, idCounter, ids, opVars, dispVars, netVars, writeVars, reqSent, closer>>

-----------------------------------------------------------------------------
(* Client.Close, and the two events that make ServeCodec call it.          *)

\* Close is called; ServeCodec does so once its codec is closed.
CloseCall ==
  /\ closer = "idle"
  /\ CanReconnect \/ conn \in closed
  /\ closer' = "call"
  /\ UNCHANGED <<callVars, opVars, dispVars, netVars, writeVars, reqSent>>

\* Close returns, having waited for didClose.
CloseReturn ==
  /\ closer \in {"call", "wait"} /\ DidClose
  /\ closer' = "done"
  /\ UNCHANGED <<callVars, opVars, dispVars, netVars, writeVars, reqSent>>

\* Server.Stop closes the codec of a connection it serves.
ServerStop ==
  /\ ~CanReconnect /\ conn \notin closed
  /\ closed' = closed \cup {conn}
  /\ UNCHANGED <<callVars, opVars, dispVars, reader, readMsg, peer, writeVars, reqSent, closer>>

-----------------------------------------------------------------------------
(* Read loops, and the peer at the other end of the connection.            *)

\* readBatch returns the answer to a request: all of its messages or, for a
\* batch, some of them.  Input buffered before the codec was closed is still read.
ReadResponse(n) ==
  /\ reader[n] = "reading"
  /\ \E c \in peer[n] : \E s \in SUBSET ids[c] \ {{}} :
       /\ readMsg' = [readMsg EXCEPT ![n] = Response(c, s)]
       /\ peer' = [peer EXCEPT ![n] = @ \ {c}]
  /\ reader' = [reader EXCEPT ![n] = "message"]
  /\ UNCHANGED <<callVars, opVars, dispVars, closed, writeVars, reqSent, closer>>

\* readBatch returns a method call of the peer.
ReadCall(n) ==
  /\ reader[n] = "reading"
  /\ \E p \in Procs :
       /\ pc[p] = "idle" /\ \A m \in Conns : readMsg[m].of # p
       /\ readMsg' = [readMsg EXCEPT ![n] = Request(p)]
  /\ reader' = [reader EXCEPT ![n] = "message"]
  /\ UNCHANGED <<callVars, opVars, dispVars, closed, peer, writeVars, reqSent, closer>>

\* readBatch fails: the connection broke, the input is not JSON, or the codec
\* has been closed.
ReadFail(n) ==
  /\ reader[n] = "reading"
  /\ reader' = [reader EXCEPT ![n] = "error"]
  /\ UNCHANGED <<callVars, opVars, dispVars, closed, readMsg, peer, writeVars, reqSent, closer>>

\* The rendezvous on readOp: the loop goes on reading.
HandOver(n) ==
  /\ reader[n] = "message"
  /\ reader' = [reader EXCEPT ![n] = "reading"]
  /\ readMsg' = [readMsg EXCEPT ![n] = NoMsg]

\* The rendezvous on readErr: the loop ends.
HandOverError(n) ==
  /\ reader[n] = "error"
  /\ reader' = [reader EXCEPT ![n] = "exited"]
  /\ readMsg' = readMsg

-----------------------------------------------------------------------------
(* The request table of the handler.                                       *)

EmptyWait == [i \in Ids |-> NoOp]

addRequestOp(table, op) ==
  [i \in Ids |-> IF op # NoOp /\ i \in ids[op] THEN op ELSE table[i]]

removeRequestOp(table, op) ==
  [i \in Ids |-> IF op # NoOp /\ i \in ids[op] THEN NoOp ELSE table[i]]

\* Mutant: channels are left open.
cancelAllRequests_Silent(err, inflight) ==
  respWait' = EmptyWait /\ UNCHANGED <<respClosed, opErr>>

\* Empties the table; every request in it but inflight gets err and a closed channel.
cancelAllRequests(err, inflight) ==
  LET cancelled == {respWait[i] : i \in Ids} \ {NoOp, inflight}
  IN /\ respWait' = EmptyWait
     /\ respClosed' = respClosed \cup cancelled
     /\ opErr' = [c \in Calls |-> IF c \in cancelled THEN err ELSE opErr[c]]

\* Mutant: hadResponse is never set.
handleResponses_Forget(msg) ==
  LET resolved == {respWait[i] : i \in msg.ids} \ {NoOp}
  IN /\ respBuf' = [c \in Calls |-> IF c \in resolved THEN msg.of ELSE respBuf[c]]
     /\ hadResponse' = hadResponse
     /\ respWait' = [i \in Ids |-> IF \E op \in resolved : i \in ids[op] THEN NoOp ELSE respWait[i]]

\* A request is resolved by the first answer that carries one of its ids; the
\* ids of resolved requests leave the table.
handleResponses(msg) ==
  LET resolved == {respWait[i] : i \in msg.ids} \ {NoOp}
  IN /\ respBuf' = [c \in Calls |-> IF c \in resolved \ hadResponse THEN msg.of ELSE respBuf[c]]
     /\ hadResponse' = hadResponse \cup resolved
     /\ respWait' = [i \in Ids |-> IF \E op \in resolved : i \in ids[op] THEN NoOp ELSE respWait[i]]

-----------------------------------------------------------------------------
(* The cases of dispatch's select.                                         *)

\* Mutant: the deferred function drains even if no read loop runs.
DispatchClose_AlwaysDrain ==
  /\ dpc = "loop" /\ closer = "call"
  /\ closer' = "wait" /\ why' = "quit"
  /\ dpc' = "waitCalls" /\ cancelAllRequests("quit", NoOp)
  /\ UNCHANGED <<callVars, respBuf, hadResponse, spared, locked, lastOp, conn, newConn, reading,
                 netVars, writeVars, reqSent>>

\* case <-c.close, and the first part of the deferred function.
DispatchClose ==
  /\ dpc = "loop" /\ closer = "call"
  /\ closer' = "wait" /\ why' = "quit"
  /\ IF reading
     THEN dpc' = "waitCalls" /\ cancelAllRequests("quit", NoOp)
     ELSE dpc' = "stopped" /\ UNCHANGED <<respWait, respClosed, opErr>>
  /\ UNCHANGED <<callVars, respBuf, hadResponse, spared, locked, lastOp, conn, newConn, reading,
                 netVars, writeVars, reqSent>>

\* case op := <-c.readOp.
DispatchReadOp(n) ==
  /\ dpc = "loop" /\ HandOver(n)
  /\ IF readMsg[n].type = "call"
     THEN Goto(readMsg[n].of, "run") /\ UNCHANGED <<respBuf, hadResponse, respWait>>
     ELSE handleResponses(readMsg[n]) /\ UNCHANGED pc
  /\ UNCHANGED <<retry, result, idCounter, ids, respClosed, opErr, spared, dispVars,
                 closed, peer, writeVars, reqSent, closer>>

\* case err := <-c.readErr: starts closing conn, sparing the request being sent.
DispatchReadErr(n) ==
  /\ dpc = "loop" /\ HandOverError(n)
  /\ dpc' = "waitCalls" /\ why' = "lost"
  /\ cancelAllRequests("lost", lastOp)
  /\ spared' = spared \cup {c \in Calls : c = lastOp}
  /\ UNCHANGED <<callVars, respBuf, hadResponse, locked, lastOp, conn, newConn, reading,
                 closed, peer, writeVars, reqSent, closer>>

\* newClientConn for codec n, and the re-registration of the request being sent.
Install(n) ==
  /\ conn' = n /\ reading' = TRUE
  /\ reader' = [reader EXCEPT ![n] = "reading"]
  /\ respWait' = addRequestOp(EmptyWait, lastOp)
  /\ spared' = spared \ {lastOp}

\* Mutant: the previous read loop is not waited for.
DispatchReconnected_NoDrain(c) ==
  /\ dpc = "loop" /\ pc[c] = "offer"
  /\ Goto(c, "write") /\ writeConn' = dialed /\ newConn' = dialed
  /\ Install(dialed)
  /\ UNCHANGED <<retry, result, idCounter, ids, respBuf, respClosed, hadResponse, opErr,
                 dpc, why, locked, lastOp, closed, readMsg, peer, dialed, reqSent, closer>>

\* case newcodec := <-c.reconnected: the writer goes on with the new connection
\* while dispatch closes the previous one, if its read loop still runs.
DispatchReconnected(c) ==
  /\ dpc = "loop" /\ pc[c] = "offer"
  /\ Goto(c, "write") /\ writeConn' = dialed /\ newConn' = dialed
  /\ IF reading
     THEN /\ dpc' = "waitCalls" /\ why' = "reconnected"
          /\ cancelAllRequests("reconnected", lastOp)
          /\ UNCHANGED <<conn, reading, reader, spared>>
     ELSE /\ Install(dialed)
          /\ UNCHANGED <<dpc, why, respClosed, opErr>>
  /\ UNCHANGED <<retry, result, idCounter, ids, respBuf, hadResponse, locked, lastOp,
                 closed, readMsg, peer, dialed, reqSent, closer>>

\* Mutant: reqInitLock is not set to nil.
DispatchReqInit_NoLock(c) ==
  /\ dpc = "loop" /\ pc[c] = "send"
  /\ locked' = TRUE /\ lastOp' = c
  /\ respWait' = addRequestOp(respWait, c)
  /\ Goto(c, "write")
  /\ UNCHANGED <<retry, result, idCounter, ids, respBuf, respClosed, hadResponse, opErr, spared,
                 dpc, why, conn, newConn, reading, netVars, writeVars, reqSent, closer>>

\* case op := <-reqInitLock: takes the write lock.
DispatchReqInit(c) ==
  /\ dpc = "loop" /\ ~locked /\ pc[c] = "send"
  /\ locked' = TRUE /\ lastOp' = c
  /\ respWait' = addRequestOp(respWait, c)
  /\ Goto(c, "write")
  /\ UNCHANGED <<retry, result, idCounter, ids, respBuf, respClosed, hadResponse, opErr, spared,
                 dpc, why, conn, newConn, reading, netVars, writeVars, reqSent, closer>>

\* Mutant: the request is removed although it was sent.
DispatchReqSent_AlwaysRemove ==
  /\ dpc = "loop" /\ reqSent # "empty"
  /\ respWait' = removeRequestOp(respWait, lastOp)
  /\ reqSent' = "empty" /\ locked' = FALSE /\ lastOp' = NoOp
  /\ UNCHANGED <<callVars, respBuf, respClosed, hadResponse, opErr, spared,
                 dpc, why, conn, newConn, reading, netVars, writeVars, closer>>

\* case err := <-c.reqSent: releases the write lock.
DispatchReqSent ==
  /\ dpc = "loop" /\ reqSent # "empty"
  /\ respWait' = IF reqSent = "ok" THEN respWait ELSE removeRequestOp(respWait, lastOp)
  /\ reqSent' = "empty" /\ locked' = FALSE /\ lastOp' = NoOp
  /\ UNCHANGED <<callVars, respBuf, respClosed, hadResponse, opErr, spared,
                 dpc, why, conn, newConn, reading, netVars, writeVars, closer>>

\* case op := <-c.reqTimeout.
DispatchReqTimeout(c) ==
  /\ dpc = "loop" /\ pc[c] = "timeout"
  /\ respWait' = removeRequestOp(respWait, c)
  /\ Return(c, "ctx")
  /\ UNCHANGED <<retry, idCounter, ids, respBuf, respClosed, hadResponse, opErr, spared,
                 dispVars, netVars, writeVars, reqSent, closer>>

-----------------------------------------------------------------------------
(* The blocking rest of clientConn.close and of drainRead.                 *)

\* Mutant: codec.close is forgotten.
CallsDone_NoClose ==
  /\ dpc = "waitCalls"
  /\ \A p \in Procs : pc[p] \in {"idle", "done"}
  /\ IF why = "lost" THEN dpc' = "loop" /\ reading' = FALSE
                     ELSE dpc' = "drain" /\ reading' = reading
  /\ UNCHANGED <<callVars, opVars, why, locked, lastOp, conn, newConn,
                 netVars, writeVars, reqSent, closer>>

\* handler.close has waited for the method handlers; codec.close follows.
CallsDone ==
  /\ dpc = "waitCalls"
  /\ \A p \in Procs : pc[p] \in {"idle", "done"}
  /\ closed' = closed \cup {conn}
  /\ IF why = "lost" THEN dpc' = "loop" /\ reading' = FALSE
                     ELSE dpc' = "drain" /\ reading' = reading
  /\ UNCHANGED <<callVars, opVars, why, locked, lastOp, conn, newConn,
                 reader, readMsg, peer, writeVars, reqSent, closer>>

\* drainRead drops a message.
DrainOp(n) ==
  /\ dpc = "drain" /\ HandOver(n)
  /\ UNCHANGED <<callVars, opVars, dispVars, closed, peer, writeVars, reqSent, closer>>

\* drainRead returns: the client has quit, or the new connection is installed.
DrainErr(n) ==
  /\ dpc = "drain" /\ reader[n] = "error" /\ readMsg' = readMsg
  /\ IF why = "quit"
     THEN /\ dpc' = "stopped" /\ reader' = [reader EXCEPT ![n] = "exited"]
          /\ UNCHANGED <<conn, reading, respWait, spared>>
     ELSE /\ dpc' = "loop"
          /\ conn' = newConn /\ reading' = TRUE
          /\ reader' = [reader EXCEPT ![n] = "exited", ![newConn] = "reading"]
          /\ respWait' = addRequestOp(EmptyWait, lastOp)
          /\ spared' = spared \ {lastOp}
  /\ UNCHANGED <<callVars, respBuf, respClosed, hadResponse, opErr, why, locked, lastOp, newConn,
                 closed, peer, writeVars, reqSent, closer>>

-----------------------------------------------------------------------------

\* The steps a calling goroutine takes by itself, its context alive.
CallerStep(c) ==
  \/ SendQuit(c) \/ WriteOk(c) \/ WriteFail(c) \/ Dial(c) \/ OfferAbort(c)
  \/ Report(c) \/ Receive(c) \/ TimeoutAbort(c)

ContextEnds(c) == SendCtx(c) \/ WaitCtx(c)

Dispatch ==
  \/ DispatchClose \/ DispatchReqSent \/ CallsDone
  \/ \E n \in Conns : DispatchReadOp(n) \/ DispatchReadErr(n) \/ DrainOp(n) \/ DrainErr(n)
  \/ \E c \in Calls : DispatchReconnected(c) \/ DispatchReqInit(c) \/ DispatchReqTimeout(c)

Read(n) == ReadResponse(n) \/ ReadCall(n) \/ ReadFail(n)

\* Everybody has returned: not a deadlock.
Finished ==
  /\ closer = "done" /\ \A c \in Calls : pc[c] = "done" \/ (c \in Procs /\ pc[c] = "idle")
  /\ UNCHANGED vars

Next ==
  \/ \E c \in Calls : Start(c) \/ ProcReturn(c) \/ CallerStep(c) \/ ContextEnds(c)
  \/ CloseCall \/ CloseReturn \/ ServerStop
  \/ \E n \in Conns : Read(n)
  \/ Dispatch
  \/ Finished

Spec == Init /\ [][Next]_vars

\* Goroutines run; writing and dialing end (both have deadlines); a read loop
\* whose codec has been closed gets an error, at the latest when it has read what
\* was buffered (hence SF); ServeCodec calls Close; a method
\* handler that does not wait for this client goes on.  Nothing is assumed of
\* contexts, of the peer or of anyone calling Close.
Fairness ==
  /\ \A c \in Calls : WF_vars(CallerStep(c))
  /\ \A p \in Procs : WF_vars(Start(p) \/ ProcReturn(p))
  /\ WF_vars(Dispatch) /\ WF_vars(CloseReturn) /\ WF_vars(~CanReconnect /\ CloseCall)
  /\ \A n \in Conns : SF_vars(n \in closed /\ ReadFail(n))

FairSpec == Spec /\ Fairness

-----------------------------------------------------------------------------
(* Properties.                                                             *)

Registered(c) == \E i \in Ids : respWait[i] = c
HoldsLock(c)  == pc[c] \in {"write", "offer", "report"}

\* The write lock taken by sending on reqInit and released by sending on
\* reqSent (client.go:93-96): whoever is writing, reconnecting or reporting is
\* dispatch's lastOp, so nobody else touches writeConn, addRequestOp(lastOp) at
\* client.go:676 never sees nil, and the send on reqSent never blocks.
WriteLock ==
  \A c \in Calls : HoldsLock(c) => locked /\ lastOp = c /\ reqSent = "empty"

\* A request in respWait has an open channel, with room for the one answer it
\* may still be sent: handleResponses neither panics nor blocks dispatch, and
\* cancelAllRequests closes no channel twice.
RespChanSafe ==
  \A c \in Calls : Registered(c) =>
     c \notin respClosed /\ (c \in hadResponse \/ respBuf[c] = NoOp)

\* At most one read loop runs, and it is that of the current connection:
\* drainRead waits for the previous one, so no handler is given a message of
\* another connection (client.go:665-672).
OneReader ==
  \A n \in Conns : reader[n] \in {"reading", "message", "error"} =>
     n = conn /\ reading /\ dpc # "stopped"

Offered(n) == n = dialed /\ \E c \in Calls : pc[c] = "offer"

\* No connection is leaked by reconnecting or closing: one that is not in use,
\* offered to dispatch or about to be installed is closed, and none but an
\* offered one (which reconnect closes itself) survives dispatch.
ConnsAccounted ==
  \A n \in 1 .. dialed :
     \/ n \in closed \/ Offered(n)
     \/ dpc # "stopped" /\ n = conn
     \/ dpc \in {"waitCalls", "drain"} /\ why = "reconnected" /\ n = newConn

\* However late an answer comes, and whatever connection it comes from, only
\* the request it answers receives it.
RightAnswer == \A c \in Calls : respBuf[c] \in {c, NoOp}

\* A goroutine that waits for an answer which is not there yet will be told of
\* the fate of its request: it is registered with a handler whose read loop
\* runs, or dispatch is about to register it with the connection it installs;
\* unless a read error spared it while it was being sent, or it is a batch
\* without messages, which has no ids.
NobodyForgotten ==
  \A c \in Calls \ spared :
     pc[c] = "wait" /\ ids[c] # {} /\ respBuf[c] = NoOp /\ c \notin respClosed =>
        \/ Registered(c) /\ reading /\ dpc = "loop"
        \/ c = lastOp /\ why = "reconnected" /\ dpc \in {"waitCalls", "drain"}

\* Close returns (of a client that serves no calls itself).
CloseReturns == closer = "call" ~> closer = "done"

\* Close aborts "any in-flight requests" (client.go:298): once the client has quit
\* every request returns, its context alive or not, unless a read error spared it
\* (see AnsweredWhenStopped).  A batch that is empty has no ids and is never
\* released: the property is for BatchLen # 0.
QuitReleasesCalls ==
  \A c \in Calls : (DidClose /\ pc[c] # "idle" /\ c \notin spared) ~> (pc[c] = "done")

\* "dispatch has accepted the request and will close the channel when it quits"
\* (client.go:360): when dispatch has quit, no waiting request is left with an
\* open and empty channel.
AnsweredWhenStopped ==
  dpc = "stopped" => \A c \in Calls :
     pc[c] = "wait" => respBuf[c] # NoOp \/ c \in respClosed

\* ServeCodec "will block until the codec is closed or the server is stopped"
\* (server.go:104-105): once its codec is closed the client it made quits, so
\* that Close, which ServeCodec calls, returns.
ServeCodecReturns == conn \in closed ~> dpc = "stopped"

\* A method handler is waiting in a reverse call.
InReverseCall == \E p \in Procs : pc[p] \in {"send", "offer", "wait", "timeout"}

\* A reverse call that never ends is the only thing that keeps ServeCodec from
\* returning: with its codec closed the client quits or some method handler
\* stays in a reverse call for ever, which is what refutes ServeCodecReturns.
OnlyReverseCallsBlock ==
  conn \in closed ~> (dpc = "stopped" \/ []InReverseCall)

=============================================================================
