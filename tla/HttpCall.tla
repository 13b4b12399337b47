------------------------------ MODULE HttpCall ------------------------------
(***************************************************************************)
(* A Go client's call, batch or notification over HTTP: CallContext,       *)
(* BatchCallContext and Notify (rpc/client.go) with sendHTTP,              *)
(* sendBatchHTTP and doRequest (rpc/http.go), composed with the server of  *)
(* HttpServe.  The requests that no Go client makes are still served, for  *)
(* a peer of which nothing is known.  The position of a message stands for *)
(* its id.                                                                 *)
(***************************************************************************)
EXTENDS HttpServe

VARIABLES
  cl,       \* the calling goroutine; "none" where the peer is not a Go client
  body,     \* the response that sendHTTP has put into op.resp
  elems,    \* the outcome of each BatchElem, or of the call
  err,      \* the error that the call returns
  flushed   \* the response has left the server

clVars == <<cl, body, elems, err>>
callVars == <<allVars, clVars, flushed>>

\* What newMessage and doRequest can make: a call, a notification or a batch of
\* calls, perhaps an empty one, posted with its length and content type.
GoRequest ==
  /\ web.method = "POST" /\ web.known /\ web.accepted /\ web.body = "json"
  /\ \A m \in DOMAIN req.msgs : Kind(m) = "call" \/ (~req.batch /\ Kind(m) = "note")

CallTypeOK ==
  /\ HttpTypeOK /\ flushed \in BOOLEAN /\ body \in Seq(Answers)
  /\ cl \in {"none", "do", "deliver", "stuck", "wait", "returned"}
  /\ elems \in [DOMAIN req.msgs -> {"unset", "missing", "result", "error", "timeout", "tooLarge"}]
  /\ err \in {"nil", "request", "status", "decode", "ctx"}

CallInit ==
  /\ HttpInit
  /\ cl = IF GoRequest THEN "do" ELSE "none"
  /\ body = <<>> /\ elems = [m \in DOMAIN req.msgs |-> "unset"] /\ err = "nil" /\ flushed = FALSE

-----------------------------------------------------------------------------
(* The response on its way.                                                *)

\* Mutant: error responses stay in the buffer like others.
FlushError_None == flushed' = (flushed \/ conn' = "returned")

\* The encoder of newHTTPServerConn flushes an error response; net/http sends
\* the rest when ServeHTTP returns.
FlushError == flushed' = (flushed \/ conn' = "returned" \/ sent' # sent)

NoFlush == UNCHANGED flushed

ServerStep ==
  /\ \/ (HttpStep \/ (TooLarge /\ UNCHANGED httpVars)) /\ FlushError
     \/ (NextCall \/ StopTimer \/ Write) /\ UNCHANGED httpVars /\ NoFlush
  /\ UNCHANGED clVars

ServerTimer == TimerStep /\ FlushError /\ UNCHANGED clVars

-----------------------------------------------------------------------------
(* The calling goroutine.                                                  *)

\* The goroutine returns e.
Returns(e) == cl' = "returned" /\ err' = e

\* http.Client.Do, or reading the body, fails: the context has ended, or the
\* connection was lost or cut by WriteTimeout.
RequestFails ==
  /\ cl = "do"
  /\ Returns("request")
  /\ UNCHANGED <<allVars, body, elems, flushed>>

\* doRequest makes an HTTPError of a status that is not 2xx.
StatusFails ==
  /\ cl = "do" /\ flushed /\ status \notin {0, 200}
  /\ Returns("status")
  /\ UNCHANGED <<allVars, body, elems, flushed>>

\* The body is one JSON value: an array if the server answers a batch, and an
\* object if it answers a call or reports an error of the request as a whole.
ArrayBody == req.batch /\ sent # <<>> /\ sent[1][1].msg # 0

\* sendHTTP decodes an object, sendBatchHTTP an array; a body that is empty is EOF.
DecodeFails ==
  /\ cl = "do" /\ flushed /\ status = 0
  /\ sent = <<>> \/ (req.batch /\ ~ArrayBody)
  /\ Returns("decode")
  /\ UNCHANGED <<allVars, body, elems, flushed>>

DecodeOk ==
  /\ cl = "do" /\ flushed /\ sent # <<>> /\ (req.batch => ArrayBody)
  /\ cl' = "deliver" /\ body' = sent[1]
  /\ UNCHANGED <<allVars, elems, err, flushed>>

\* Mutant: op.resp has no buffer.
Deliver_Unbuffered ==
  /\ cl = "deliver" /\ cl' = "stuck"
  /\ UNCHANGED <<allVars, body, elems, err, flushed>>

\* op.resp has room for the response.  Notify's op has no channel at all, so that
\* a response, which only the server's timer sends, blocks it for ever.
Deliver ==
  /\ cl = "deliver"
  /\ cl' = IF Kind(1) = "note" THEN "stuck" ELSE "wait"
  /\ UNCHANGED <<allVars, body, elems, err, flushed>>

\* requestOp.wait chooses freely between the response and a context that has ended.
WaitCtx ==
  /\ cl = "wait"
  /\ Returns("ctx")
  /\ UNCHANGED <<allVars, body, elems, flushed>>

\* Mutant: nobody looks at what is left of byID.
Assigned_Unchecked ==
  [m \in DOMAIN elems |->
     IF \E k \in DOMAIN body : body[k].msg = m
     THEN (CHOOSE a \in Range(body) : a.msg = m).what ELSE elems[m]]

\* The loops of BatchCallContext over the answers and over byID: each element gets
\* the first answer with its id, others are ignored, and what is left of byID is
\* marked missing.  A call has one answer.
Assigned ==
  LET hits(m) == {k \in DOMAIN body : body[k].msg = m}
      first(m) == CHOOSE k \in hits(m) : \A j \in hits(m) : k <= j
  IN [m \in DOMAIN elems |-> IF hits(m) = {} THEN "missing" ELSE body[first(m)].what]

WaitOk ==
  /\ cl = "wait"
  /\ elems' = Assigned /\ Returns("nil")
  /\ UNCHANGED <<allVars, body, flushed>>

CallerStep == StatusFails \/ DecodeFails \/ DecodeOk \/ Deliver \/ WaitOk

\* The server learns that its peer has gone, be it after the call has returned.
PeerLeaves ==
  /\ cl \in {"none", "returned"}
  /\ PeerGone /\ UNCHANGED <<clVars, flushed>>

-----------------------------------------------------------------------------

CallDone ==
  /\ conn = "returned" /\ timer # "fired" /\ cl \in {"none", "stuck", "returned"}
  /\ UNCHANGED callVars

CallNext ==
  \/ ServerStep \/ ServerTimer
  \/ (MethodReturn \/ TimerFires) /\ UNCHANGED <<httpVars, clVars, flushed>>
  \/ PeerLeaves
  \/ CallerStep \/ RequestFails \/ WaitCtx
  \/ CallDone

CallSpec == CallInit /\ [][CallNext]_callVars

\* Goroutines run, and reading a request ends, at the latest by ReadTimeout; a
\* method may never return, the timer may never fire, no context need end.
CallFairSpec ==
  CallSpec /\ WF_callVars(ServerStep) /\ WF_callVars(ServerTimer) /\ WF_callVars(CallerStep)

-----------------------------------------------------------------------------
(* Properties.                                                             *)

\* From the methods of the server to the BatchElems of the client: a batch that
\* returns no error has given every element an outcome of its own call, and one
\* is missing only if the batch exceeded the item limit or its time was over
\* before the call came up.
OwnOutcome ==
  cl = "returned" /\ err = "nil" =>
    \A m \in DOMAIN elems :
      IF elems[m] = "missing" THEN ~WithinLimit \/ (cancelled /\ m \in Range(calls))
      ELSE Answer(m, elems[m]) \in Range(sent[1])

\* The caller learns of the timeout from the server, over a response that is not
\* finished, although the method may never return and its own context never ends.
TimeoutReaches == (timer = "fired" /\ cl = "do") ~> (cl # "do")

\* Whatever the peer sends, whether it stays or not and whatever fails on either
\* side, ServeHTTP returns and so does every call, unless a method does not; but a
\* notification for which the timer has answered never returns to its caller.
EverybodyReturns ==
  []<>(pc # "method") =>
    <>(/\ conn = "returned"
       /\ cl \in {"none", "returned"} \/ (cl = "stuck" /\ Kind(1) = "note" /\ timer = "over"))

=============================================================================
