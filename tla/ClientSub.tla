----------------------------- MODULE ClientSub -----------------------------
(***************************************************************************)
(* Client subscriptions (rpc/subscription.go, Client.Subscribe and its     *)
(* write, and the part of handler.go that feeds them): per subscription a  *)
(* goroutine in Subscribe, the forwarding goroutines run, and goroutines   *)
(* that call Unsubscribe; one dispatch goroutine for all of them, which    *)
(* blocks in deliver and close; and the server at the other end of the     *)
(* connection.  A write that fails is repeated once, on a new connection:  *)
(* the server may then answer twice, and every answer starts run.          *)
(* Notifications are numbered 1, 2, ... from the answer on.                *)
(***************************************************************************)
EXTENDS Integers, Sequences

CONSTANTS
  Subs,           \* subscriptions
  Unsubscribers,  \* for each subscription, the goroutines that call Unsubscribe on it
  MaxNotes,       \* bound: for each subscription, the notifications the server sends
  MaxDials,       \* bound: the times the client connects again
  MaxBuffer,      \* maxClientSubscriptionBuffer
  BadNotes,       \* for each subscription, those that do not unmarshal into the element type
  NoSub           \* not a subscription

ASSUME SubAssumption ==
  /\ NoSub \notin Subs
  /\ DOMAIN Unsubscribers = Subs
  /\ MaxNotes \in [Subs -> Nat] /\ MaxDials \in Nat /\ MaxBuffer \in Nat \ {0}
  /\ BadNotes \in [Subs -> SUBSET (Nat \ {0})]

Notes == Nat \ {0}
Users == UNION {{s} \X Unsubscribers[s] : s \in Subs}
Errors == {"none", "bad", "overflow", "lost", "reconnected", "quit"}

\* The goroutines in run: a request is written at most twice, so at most two
\* answers start one.
Runs == Subs \X {1, 2}

\* Requests: <<s, 0>> subscribes, <<s, k>> is the unsubscribe request of run <<s, k>>.
Ops  == Subs \X {0, 1, 2}
NoOp == <<NoSub, 0>>

VARIABLES
  subscriber,   \* the goroutine in Subscribe (one that never gets to send has "failed")
  opResp,       \* requestOp.resp of the subscribe request, with op.err
  respWait,     \* subscribe requests in handler.respWait
  lastOp, reqSent, \* the request that holds the write lock, and the content of reqSent
  writeConn, retried, \* whether there is one, and whether lastOp's write has failed once
  dials,        \* bound: dials that still succeed, 0 without a reconnectFunc
  clientSubs,   \* handler.clientSubs
  run,          \* where ClientSubscription.run is
  unsubscribe, err, \* what forward returned
  buffer,       \* the list in forward
  received,     \* values the first run has sent on sub.channel
  forwardDone, unsubDone,  \* the closed ones of these channels
  errBuf, errClosed,       \* sub.err: its buffer and whether it is closed
  once,         \* sub.errOnce
  upc,          \* goroutines calling Unsubscribe
  dispatch,     \* the call dispatch is blocked in
  link,         \* the connection
  wire,         \* messages from the server, in order
  server, sent, \* the server's side of the subscription, notifications sent
  crashed       \* a goroutine has panicked: the process is gone, and with it what follows

opVars  == <<subscriber, opResp, respWait>>
sendVars == <<lastOp, reqSent, writeConn, retried, dials>>
fwdVars == <<run, unsubscribe, err, buffer, received, forwardDone, unsubDone, errBuf>>
unsubVars == <<errClosed, once, upc>>
netVars == <<link, wire, server, sent>>
vars == <<opVars, sendVars, fwdVars, unsubVars, netVars, clientSubs, dispatch, crashed>>

Idle         == [op |-> "idle", sub |-> NoSub, val |-> 0, pending |-> {}]
Deliver(s, v) == [op |-> "deliver", sub |-> s, val |-> v, pending |-> {}]
Closing(e, p) == [op |-> e, sub |-> NoSub, val |-> 0, pending |-> p]
Message(t, s, v) == [type |-> t, sub |-> s, val |-> v]

\* Types, and the limit maxClientSubscriptionBuffer of the forwarding buffer.
TypeOK ==
  /\ subscriber \in [Subs -> {"idle", "write", "wait", "timeout", "ok", "failed", "cancelled"}]
  /\ opResp \in [Subs -> {"none", "ok", "error"}]
  /\ respWait \subseteq Subs /\ clientSubs \subseteq Subs
  /\ lastOp \in Ops \cup {NoOp} /\ reqSent \in {"none", "ok", "fail"}
  /\ writeConn \in BOOLEAN /\ retried \in BOOLEAN /\ dials \in 0 .. MaxDials
  /\ run \in [Runs -> {"none", "forward", "exit", "request", "write", "answer", "report", "finish", "done"}]
  /\ unsubscribe \in [Runs -> BOOLEAN] /\ err \in [Runs -> Errors]
  /\ buffer \in [Runs -> Seq(Notes)] /\ received \in [Subs -> Seq(Notes)]
  /\ \A g \in Runs : Len(buffer[g]) <= MaxBuffer
  /\ forwardDone \subseteq Subs /\ unsubDone \subseteq Subs /\ errClosed \subseteq Subs
  /\ errBuf \in [Subs -> Seq(Errors \cup {"nil"})]
  /\ once \in [Subs -> {"free", "busy", "done"}]
  /\ upc \in [Users -> {"idle", "once", "quit", "wait", "done"}]
  /\ dispatch \in [op : {"idle", "deliver", "lost", "reconnected", "quit"}, sub : Subs \cup {NoSub},
                   val : Notes \cup {0}, pending : SUBSET Subs]
  /\ link \in {"up", "down"}
  /\ wire \in Seq([type : {"ok", "error", "note"}, sub : Subs, val : Notes \cup {0}])
  /\ server \in [Subs -> {"none", "asked", "active", "gone"}] /\ sent \in [Subs -> Notes \cup {0}]
  /\ crashed \in BOOLEAN

Init ==
  /\ subscriber \in [Subs -> {"idle", "failed"}] /\ opResp = [s \in Subs |-> "none"]
  /\ respWait = {} /\ clientSubs = {}
  /\ lastOp = NoOp /\ reqSent = "none" /\ writeConn = TRUE /\ retried = FALSE /\ dials \in 0 .. MaxDials
  /\ run = [g \in Runs |-> "none"]
  /\ unsubscribe = [g \in Runs |-> FALSE] /\ err = [g \in Runs |-> "none"]
  /\ buffer = [g \in Runs |-> <<>>] /\ received = [s \in Subs |-> <<>>]
  /\ forwardDone = {} /\ unsubDone = {} /\ errClosed = {}
  /\ errBuf = [s \in Subs |-> <<>>]
  /\ once = [s \in Subs |-> "free"] /\ upc = [x \in Users |-> "idle"]
  /\ dispatch = Idle /\ link = "up" /\ wire = <<>>
  /\ server = [s \in Subs |-> "none"] /\ sent = [s \in Subs |-> 0]
  /\ crashed = FALSE

-----------------------------------------------------------------------------
(* Sending a request: reqInit, write, reqSent.                             *)

\* case op := <-reqInitLock: dispatch gives the request the write lock.
TakeLock(op) ==
  /\ dispatch = Idle /\ lastOp = NoOp
  /\ lastOp' = op

\* Subscribe sends its request: it is registered and about to be written.
Subscribe(s) ==
  /\ subscriber[s] = "idle" /\ TakeLock(<<s, 0>>)
  /\ subscriber' = [subscriber EXCEPT ![s] = "write"]
  /\ respWait' = respWait \cup {s}
  /\ UNCHANGED <<opResp, reqSent, writeConn, retried, dials, fwdVars, unsubVars, netVars, clientSubs, dispatch, crashed>>

\* requestUnsubscribe sends its request.
RequestUnsubscribe(g) ==
  /\ run[g] = "request" /\ TakeLock(g)
  /\ run' = [run EXCEPT ![g] = "write"]
  /\ UNCHANGED <<opVars, reqSent, writeConn, retried, dials, unsubscribe, err, buffer, received, forwardDone,
                 unsubDone, errBuf, unsubVars, netVars, clientSubs, dispatch, crashed>>

\* send returns to the caller, and leaves the result for dispatch in reqSent.
SendReturn(op, ok) ==
  /\ reqSent' = (IF ok THEN "ok" ELSE "fail") /\ retried' = FALSE
  /\ IF op[2] = 0
     THEN /\ subscriber' = [subscriber EXCEPT ![op[1]] = IF ok THEN "wait" ELSE "failed"]
          /\ UNCHANGED run
     ELSE /\ run' = [run EXCEPT ![op] = IF ok THEN "answer" ELSE "report"]
          /\ UNCHANGED subscriber

\* The request has reached the server.  An unsubscribe request may carry the id
\* that an earlier connection gave to the subscription.
Reached(op) ==
  IF op[2] = 0 THEN server' = [server EXCEPT ![op[1]] = "asked"]
  ELSE server' \in {server, [server EXCEPT ![op[1]] = IF @ = "active" THEN "gone" ELSE @]}

Writing(op) == lastOp = op /\ reqSent = "none"

\* writeJSON succeeds.  Dispatch closes the connection at the end of close.
WriteOk(op) ==
  /\ Writing(op) /\ writeConn /\ (link = "up" \/ dispatch # Idle)
  /\ SendReturn(op, TRUE)
  /\ IF link = "up" THEN Reached(op) ELSE UNCHANGED server
  /\ UNCHANGED <<opResp, respWait, lastOp, writeConn, dials, unsubscribe, err, buffer, received,
                 forwardDone, unsubDone, errBuf, unsubVars, link, wire, sent, clientSubs, dispatch, crashed>>

\* writeJSON fails, though the request may have reached the server; the first
\* time write tries again.
WriteFail(op) ==
  /\ Writing(op) /\ writeConn /\ writeConn' = FALSE
  /\ (link = "up" /\ Reached(op)) \/ UNCHANGED server
  /\ IF retried THEN SendReturn(op, FALSE)
                ELSE retried' = TRUE /\ UNCHANGED <<reqSent, subscriber, run>>
  /\ UNCHANGED <<opResp, respWait, lastOp, dials, unsubscribe, err, buffer, received, forwardDone,
                 unsubDone, errBuf, unsubVars, link, wire, sent, clientSubs, dispatch, crashed>>

\* reconnect fails: dialling does, or the client is quitting.
DialFail(op) ==
  /\ Writing(op) /\ ~writeConn
  /\ SendReturn(op, FALSE)
  /\ UNCHANGED <<opResp, respWait, lastOp, writeConn, dials, unsubscribe, err, buffer, received,
                 forwardDone, unsubDone, errBuf, unsubVars, netVars, clientSubs, dispatch, crashed>>

\* The server's side of the connection ends.  On a new one only the request
\* being written is made again.
Disconnect(again) ==
  /\ server' = [s \in Subs |-> IF <<s, 0>> = again \/ server[s] = "none" THEN "none" ELSE "gone"]
  /\ sent' = [s \in Subs |-> 0] /\ wire' = <<>>

\* cancelAllRequests, with spared as inflightReq: it is forgotten but not told.
CancelRequests(spared) ==
  /\ opResp' = [s \in Subs |-> IF s \in respWait /\ <<s, 0>> # spared THEN "error" ELSE opResp[s]]
  /\ respWait' = {} /\ clientSubs' = {}

\* Dispatch takes the new connection: the old one, if it is still read, is closed
\* and drained.
Reconnect(op) ==
  /\ Writing(op) /\ ~writeConn /\ dispatch = Idle /\ dials > 0
  /\ writeConn' = TRUE /\ dials' = dials - 1 /\ link' = "up"
  /\ dispatch' = Closing("reconnected", clientSubs)
  /\ CancelRequests(op) /\ Disconnect(op)
  /\ UNCHANGED <<subscriber, lastOp, reqSent, retried, fwdVars, unsubVars, crashed>>

\* case err := <-c.reqSent: the write lock is free again.
DispatchReqSent ==
  /\ dispatch = Idle /\ reqSent # "none"
  /\ respWait' = IF reqSent = "fail" /\ lastOp[2] = 0 THEN respWait \ {lastOp[1]} ELSE respWait
  /\ lastOp' = NoOp /\ reqSent' = "none"
  /\ UNCHANGED <<subscriber, opResp, writeConn, retried, dials, fwdVars, unsubVars, netVars, clientSubs,
                 dispatch, crashed>>

-----------------------------------------------------------------------------
(* Subscribe waits for the answer.                                         *)

\* op.wait receives the answer, or the error that closed op.resp.
SubscribeReturn(s) ==
  /\ subscriber[s] = "wait" /\ opResp[s] # "none"
  /\ subscriber' = [subscriber EXCEPT ![s] = IF opResp[s] = "ok" THEN "ok" ELSE "failed"]
  /\ UNCHANGED <<opResp, respWait, sendVars, fwdVars, unsubVars, netVars, clientSubs, dispatch, crashed>>

\* op.wait sees the context end, whether or not the answer is there too.
SubscribeCtx(s) ==
  /\ subscriber[s] = "wait"
  /\ subscriber' = [subscriber EXCEPT ![s] = "timeout"]
  /\ UNCHANGED <<opResp, respWait, sendVars, fwdVars, unsubVars, netVars, clientSubs, dispatch, crashed>>

\* Dispatch takes the request off reqTimeout, or is quitting.
SubscribeTimeout(s) ==
  /\ subscriber[s] = "timeout" /\ (dispatch = Idle \/ dispatch.op = "quit")
  /\ subscriber' = [subscriber EXCEPT ![s] = "cancelled"]
  /\ respWait' = respWait \ {s}
  /\ UNCHANGED <<opResp, sendVars, fwdVars, unsubVars, netVars, clientSubs, dispatch, crashed>>

-----------------------------------------------------------------------------
(* The server.                                                             *)

ServerAnswer(s) ==
  /\ server[s] = "asked" /\ link = "up"
  /\ \/ server' = [server EXCEPT ![s] = "active"] /\ wire' = Append(wire, Message("ok", s, 0))
     \/ server' = [server EXCEPT ![s] = "gone"] /\ wire' = Append(wire, Message("error", s, 0))
  /\ UNCHANGED <<opVars, sendVars, fwdVars, unsubVars, link, sent, clientSubs, dispatch, crashed>>

ServerNotify(s) ==
  /\ server[s] = "active" /\ link = "up" /\ sent[s] < MaxNotes[s]
  /\ sent' = [sent EXCEPT ![s] = @ + 1]
  /\ wire' = Append(wire, Message("note", s, sent[s] + 1))
  /\ UNCHANGED <<opVars, sendVars, fwdVars, unsubVars, link, server, clientSubs, dispatch, crashed>>

-----------------------------------------------------------------------------
(* Dispatch.                                                               *)

\* The goroutine that the next answer to the subscribe request of s starts.
NewRun(s) == IF run[<<s, 1>>] = "none" THEN <<s, 1>> ELSE <<s, 2>>

\* handleResponses, for a subscribe request that is still waited for: the
\* forwarding loop is started before the waiting goroutine hears of it, and also
\* when that goroutine has had an answer before.
HandleAnswer(s, ok) ==
  /\ respWait' = respWait \ {s}
  /\ opResp' = [opResp EXCEPT ![s] = IF ok THEN "ok" ELSE "error"]
  /\ IF ok THEN /\ run[NewRun(s)] = "none"
                /\ run' = [run EXCEPT ![NewRun(s)] = "forward"] /\ clientSubs' = clientSubs \cup {s}
           ELSE UNCHANGED <<run, clientSubs>>

\* The next message is the answer to a subscribe request.
DispatchAnswer ==
  /\ dispatch = Idle /\ link = "up" /\ wire # <<>> /\ Head(wire).type # "note"
  /\ wire' = Tail(wire)
  /\ IF Head(wire).sub \in respWait
     THEN HandleAnswer(Head(wire).sub, Head(wire).type = "ok")
     ELSE UNCHANGED <<respWait, opResp, run, clientSubs>>
  /\ UNCHANGED <<subscriber, sendVars, unsubscribe, err, buffer, received, forwardDone, unsubDone, errBuf,
                 unsubVars, link, server, sent, dispatch, crashed>>

\* handleSubscriptionResult: deliver, if the subscription is known.
DispatchNote ==
  /\ dispatch = Idle /\ link = "up" /\ wire # <<>> /\ Head(wire).type = "note"
  /\ wire' = Tail(wire)
  /\ dispatch' = IF Head(wire).sub \in clientSubs
                 THEN Deliver(Head(wire).sub, Head(wire).val) ELSE Idle
  /\ UNCHANGED <<opVars, sendVars, fwdVars, unsubVars, link, server, sent, clientSubs, crashed>>

\* The connection is lost, which spares the request being written, or Close is
\* called.
DispatchClose(e) ==
  /\ dispatch = Idle /\ (link = "up" \/ e = "quit")
  /\ dispatch' = Closing(e, clientSubs) /\ link' = "down"
  /\ IF link = "up" THEN CancelRequests(IF e = "lost" THEN lastOp ELSE NoOp)
                    ELSE UNCHANGED <<opResp, respWait, clientSubs>>
  /\ Disconnect(NoOp)
  /\ UNCHANGED <<subscriber, sendVars, fwdVars, unsubVars, crashed>>

\* Nothing is left to close: dispatch goes on without a connection, or registers
\* the request being written with the new one (or stops).
DispatchClosed(e) ==
  /\ dispatch = Closing(e, {}) /\ dispatch' = Idle
  /\ respWait' = IF e = "reconnected" /\ lastOp[2] = 0 THEN respWait \cup {lastOp[1]} ELSE respWait
  /\ UNCHANGED <<subscriber, opResp, sendVars, fwdVars, unsubVars, netVars, clientSubs, crashed>>

\* deliver and close return at once when forwardDone is closed.
DispatchSkip(s) ==
  /\ s \in forwardDone
  /\ \/ dispatch.op = "deliver" /\ dispatch.sub = s /\ dispatch' = Idle
     \/ s \in dispatch.pending /\ dispatch' = [dispatch EXCEPT !.pending = @ \ {s}]
  /\ UNCHANGED <<opVars, sendVars, fwdVars, unsubVars, netVars, clientSubs, crashed>>

-----------------------------------------------------------------------------
(* The forwarding loop.                                                    *)

\* forward returns and drops its buffer.
ForwardReturn(g, unsub, e) ==
  /\ run' = [run EXCEPT ![g] = "exit"]
  /\ buffer' = [buffer EXCEPT ![g] = <<>>]
  /\ unsubscribe' = [unsubscribe EXCEPT ![g] = unsub]
  /\ err' = [err EXCEPT ![g] = e]

\* Mutant: the limit is off by one.
ForwardIn_Late(g) ==
  /\ run[g] = "forward" /\ dispatch.op = "deliver" /\ dispatch.sub = g[1]
  /\ dispatch' = Idle
  /\ IF Len(buffer[g]) > MaxBuffer THEN ForwardReturn(g, TRUE, "overflow")
     ELSE /\ buffer' = [buffer EXCEPT ![g] = Append(@, dispatch.val)]
          /\ UNCHANGED <<run, unsubscribe, err>>
  /\ UNCHANGED <<opVars, sendVars, received, forwardDone, unsubDone, errBuf, unsubVars, netVars, clientSubs,
                 crashed>>

\* case <-sub.in, from deliver.
ForwardIn(g) ==
  /\ run[g] = "forward" /\ dispatch.op = "deliver" /\ dispatch.sub = g[1]
  /\ dispatch' = Idle
  /\ IF dispatch.val \in BadNotes[g[1]] THEN ForwardReturn(g, TRUE, "bad")
     ELSE IF Len(buffer[g]) = MaxBuffer THEN ForwardReturn(g, TRUE, "overflow")
     ELSE /\ buffer' = [buffer EXCEPT ![g] = Append(@, dispatch.val)]
          /\ UNCHANGED <<run, unsubscribe, err>>
  /\ UNCHANGED <<opVars, sendVars, received, forwardDone, unsubDone, errBuf, unsubVars, netVars, clientSubs,
                 crashed>>

\* Mutant: the value read last is sent first.
ForwardSend_Last(g) ==
  /\ run[g] = "forward" /\ buffer[g] # <<>>
  /\ received' = IF g[2] = 1 THEN [received EXCEPT ![g[1]] = Append(@, buffer[g][Len(buffer[g])])] ELSE received
  /\ buffer' = [buffer EXCEPT ![g] = SubSeq(@, 1, Len(@) - 1)]
  /\ UNCHANGED <<opVars, sendVars, run, unsubscribe, err, forwardDone, unsubDone, errBuf,
                 unsubVars, netVars, clientSubs, dispatch, crashed>>

\* case sub.channel<-: the user's channel takes the first value.
ForwardSend(g) ==
  /\ run[g] = "forward" /\ buffer[g] # <<>>
  /\ received' = IF g[2] = 1 THEN [received EXCEPT ![g[1]] = Append(@, Head(buffer[g]))] ELSE received
  /\ buffer' = [buffer EXCEPT ![g] = Tail(@)]
  /\ UNCHANGED <<opVars, sendVars, run, unsubscribe, err, forwardDone, unsubDone, errBuf,
                 unsubVars, netVars, clientSubs, dispatch, crashed>>

\* case <-sub.quit, from close.
ForwardClose(g) ==
  /\ run[g] = "forward" /\ g[1] \in dispatch.pending
  /\ ForwardReturn(g, FALSE, dispatch.op)
  /\ dispatch' = [dispatch EXCEPT !.pending = @ \ {g[1]}]
  /\ UNCHANGED <<opVars, sendVars, received, forwardDone, unsubDone, errBuf, unsubVars, netVars,
                 clientSubs, crashed>>

\* case <-sub.quit, from Unsubscribe.
ForwardUnsubscribe(g, u) ==
  /\ run[g] = "forward" /\ upc[<<g[1], u>>] = "quit"
  /\ ForwardReturn(g, TRUE, "none")
  /\ upc' = [upc EXCEPT ![<<g[1], u>>] = "wait"]
  /\ UNCHANGED <<opVars, sendVars, received, forwardDone, unsubDone, errBuf, errClosed, once,
                 netVars, clientSubs, dispatch, crashed>>

\* Mutant: forwardDone is left open when an unsubscribe request follows.
CloseForwardDone_Late(g) ==
  /\ run[g] = "exit"
  /\ forwardDone' = IF unsubscribe[g] THEN forwardDone ELSE forwardDone \cup {g[1]}
  /\ crashed' = (crashed \/ g[1] \in forwardDone)
  /\ run' = [run EXCEPT ![g] = IF unsubscribe[g] THEN "request" ELSE "report"]
  /\ UNCHANGED <<opVars, sendVars, unsubscribe, err, buffer, received, unsubDone, errBuf,
                 unsubVars, netVars, clientSubs, dispatch>>

\* run: close(sub.forwardDone), which panics if the other goroutine has done it.
CloseForwardDone(g) ==
  /\ run[g] = "exit"
  /\ forwardDone' = forwardDone \cup {g[1]}
  /\ IF g[1] \in forwardDone THEN crashed' = TRUE /\ UNCHANGED run
     ELSE /\ run' = [run EXCEPT ![g] = IF unsubscribe[g] THEN "request" ELSE "report"]
          /\ UNCHANGED crashed
  /\ UNCHANGED <<opVars, sendVars, unsubscribe, err, buffer, received, unsubDone, errBuf,
                 unsubVars, netVars, clientSubs, dispatch>>

\* unsubscribeTimeout passes, or the client quits, before dispatch takes the request.
RequestTimeout(g) ==
  /\ run[g] = "request"
  /\ run' = [run EXCEPT ![g] = "report"]
  /\ UNCHANGED <<opVars, sendVars, unsubscribe, err, buffer, received, forwardDone, unsubDone, errBuf,
                 unsubVars, netVars, clientSubs, dispatch, crashed>>

\* Dispatch hands over the answer to the unsubscribe request or cancels it, or
\* takes it off reqTimeout.
RequestReturn(g) ==
  /\ run[g] = "answer" /\ dispatch.op # "deliver"
  /\ run' = [run EXCEPT ![g] = "report"]
  /\ UNCHANGED <<opVars, sendVars, unsubscribe, err, buffer, received, forwardDone, unsubDone, errBuf,
                 unsubVars, netVars, clientSubs, dispatch, crashed>>

\* run: sub.err <- err, nil standing for ErrClientQuit.  It blocks while sub.err
\* (capacity 1) is full, and panics if sub.err is closed.
ReportError(g) ==
  LET s == g[1] IN
  /\ run[g] = "report"
  /\ IF err[g] = "none" THEN UNCHANGED <<errBuf, crashed>>
     ELSE /\ errBuf[s] = <<>> \/ s \in errClosed
          /\ errBuf' = [errBuf EXCEPT ![s] = Append(@, IF err[g] = "quit" THEN "nil" ELSE err[g])]
          /\ crashed' = (crashed \/ s \in errClosed)
  /\ run' = [run EXCEPT ![g] = "finish"]
  /\ UNCHANGED <<opVars, sendVars, unsubscribe, err, buffer, received, forwardDone, unsubDone,
                 unsubVars, netVars, clientSubs, dispatch>>

\* run's deferred close(sub.unsubDone).
CloseUnsubDone(g) ==
  /\ run[g] = "finish"
  /\ unsubDone' = unsubDone \cup {g[1]}
  /\ crashed' = (crashed \/ g[1] \in unsubDone)
  /\ run' = [run EXCEPT ![g] = "done"]
  /\ UNCHANGED <<opVars, sendVars, unsubscribe, err, buffer, received, forwardDone, errBuf,
                 unsubVars, netVars, clientSubs, dispatch>>

-----------------------------------------------------------------------------
(* Unsubscribe, by any number of goroutines.                               *)

\* errOnce.Do: the first caller goes on, later ones wait for it to finish.
Unsubscribe(s, u) ==
  /\ subscriber[s] = "ok" /\ upc[<<s, u>>] = "idle"
  /\ once' = [once EXCEPT ![s] = IF @ = "free" THEN "busy" ELSE @]
  /\ upc' = [upc EXCEPT ![<<s, u>>] = IF once[s] = "free" THEN "quit" ELSE "once"]
  /\ UNCHANGED <<opVars, sendVars, fwdVars, errClosed, netVars, clientSubs, dispatch, crashed>>

UnsubscribeAgain(s, u) ==
  /\ upc[<<s, u>>] = "once" /\ once[s] = "done"
  /\ upc' = [upc EXCEPT ![<<s, u>>] = "done"]
  /\ UNCHANGED <<opVars, sendVars, fwdVars, errClosed, once, netVars, clientSubs, dispatch, crashed>>

\* Mutants: Unsubscribe does not wait; waits for forwardDone only; waits for the
\* forwarding loop to take its request even if the loop has ended.
UnsubscribeReturn_NoWait(s, u) ==
  /\ upc[<<s, u>>] \in {"quit", "wait"}
  /\ errClosed' = errClosed \cup {s}
  /\ once' = [once EXCEPT ![s] = "done"]
  /\ upc' = [upc EXCEPT ![<<s, u>>] = "done"]
  /\ UNCHANGED <<opVars, sendVars, fwdVars, netVars, clientSubs, dispatch, crashed>>

UnsubscribeReturn_Early(s, u) ==
  s \in forwardDone /\ UnsubscribeReturn_NoWait(s, u)

UnsubscribeReturn_QuitOnly(s, u) ==
  upc[<<s, u>>] = "wait" /\ s \in unsubDone /\ UnsubscribeReturn_NoWait(s, u)

\* unsubDone is closed: close(sub.err).
UnsubscribeReturn(s, u) ==
  /\ upc[<<s, u>>] \in {"quit", "wait"} /\ s \in unsubDone
  /\ errClosed' = errClosed \cup {s}
  /\ once' = [once EXCEPT ![s] = "done"]
  /\ upc' = [upc EXCEPT ![<<s, u>>] = "done"]
  /\ UNCHANGED <<opVars, sendVars, fwdVars, netVars, clientSubs, dispatch, crashed>>

-----------------------------------------------------------------------------

SubscribeStep(s) ==
  Subscribe(s) \/ SubscribeReturn(s) \/ SubscribeCtx(s) \/ SubscribeTimeout(s)

WriteStep(op) == WriteOk(op) \/ WriteFail(op) \/ DialFail(op) \/ Reconnect(op)

DispatchStep ==
  \/ DispatchAnswer \/ DispatchNote \/ DispatchReqSent
  \/ (\E e \in {"lost", "reconnected"} : DispatchClosed(e))
  \/ \E s \in Subs : DispatchSkip(s)

RunStep(g) ==
  \/ ForwardIn(g) \/ ForwardClose(g) \/ (\E u \in Unsubscribers[g[1]] : ForwardUnsubscribe(g, u))
  \/ CloseForwardDone(g) \/ RequestUnsubscribe(g) \/ RequestTimeout(g) \/ RequestReturn(g)
  \/ ReportError(g) \/ CloseUnsubDone(g)

UnsubscribeStep(s, u) == Unsubscribe(s, u) \/ UnsubscribeAgain(s, u) \/ UnsubscribeReturn(s, u)

Next ==
  \/ \E s \in Subs : SubscribeStep(s) \/ ServerAnswer(s) \/ ServerNotify(s)
  \/ \E op \in Ops : WriteStep(op)
  \/ \E e \in {"lost", "quit"} : DispatchClose(e)
  \/ DispatchStep
  \/ \E g \in Runs : RunStep(g) \/ ForwardSend(g)
  \/ \E s \in Subs : \E u \in Unsubscribers[s] : UnsubscribeStep(s, u)

Spec == Init /\ [][Next]_vars

\* Goroutines run, and a write, a dial and an unsubscribe request end, each by its
\* own timeout.  Nothing is assumed of the reader of the user's channel or of the
\* server.
Fairness ==
  /\ \A g \in Runs : WF_vars(RunStep(g))
  /\ WF_vars(\E op \in Ops : WriteStep(op))
  /\ \A s \in Subs : \A u \in Unsubscribers[s] :
       WF_vars(UnsubscribeAgain(s, u) \/ UnsubscribeReturn(s, u))
  /\ WF_vars(DispatchStep)

FairSpec == Spec /\ Fairness

-----------------------------------------------------------------------------
(* Properties.                                                             *)

Unsubscribed(s) == \E u \in Unsubscribers[s] : upc[<<s, u>>] = "done"

\* The server has answered the subscribe request on two connections, and both
\* answers were taken.
AnsweredTwice(s) == run[<<s, 2>>] # "none"

Promise == INSTANCE SubscriptionSpec WITH
  channel <- received, ended <- {s \in Subs : Unsubscribed(s)}

\* The user's channel receives the server's values from the first one on, in
\* order and without gaps, however the answer to Subscribe, early notifications,
\* a slow reader, a lost connection, a repeated request and Unsubscribe
\* interleave; and nothing after any call of Unsubscribe has returned.  It says
\* nothing of the values that a second run sends when the request was answered
\* twice (handler.go:424): deliver then finds forwardDone closed (subscription.go:274).
KeepsPromise == Promise!Spec

\* The channels that end a subscription are used safely: sub.err (capacity 1) is
\* sent to at most once, never when full and never after Unsubscribe closed it,
\* and no channel is closed twice, so that the process goes on; except, and only
\* then, that a request answered twice makes the second close of forwardDone
\* panic (subscription.go:298).
ErrChanSafe ==
  /\ \A g \in Runs :
        /\ g[1] \in errClosed => run[g] \notin {"request", "write", "answer", "report", "finish"}
        /\ run[g] = "report" => errBuf[g[1]] = <<>>
        /\ run[g] \in {"report", "finish"} => g[1] \notin unsubDone
  /\ crashed => \E s \in Subs : AnsweredTwice(s)

Blocked == dispatch.op = "deliver" \/ dispatch.pending # {}

\* deliver and close never hold dispatch for good, even while the forwarding
\* loop itself waits for dispatch to send the unsubscribe request and nobody
\* reads the user's channel (subscription.go:296-298).
DispatchReleased == Blocked ~> (crashed \/ ~Blocked)

Unsubscribing == \E x \in Users : upc[x] \notin {"idle", "done"}

\* Every call of Unsubscribe returns.
UnsubscribeReturns == Unsubscribing ~> (crashed \/ ~Unsubscribing)

\* "The context argument cancels the RPC request that sets up the subscription"
\* (client.go:501): when Subscribe has returned because its context ended there is
\* no subscription, so nothing is forwarded for it.
FailedSubscribeLeavesNothing ==
  \A s \in Subs : subscriber[s] = "cancelled" => \A k \in {1, 2} : run[<<s, k>>] = "none"

=============================================================================
