----------------------------- MODULE HttpServe -----------------------------
(***************************************************************************)
(* Server.ServeHTTP (rpc/http.go) and serveSingleRequest (rpc/server.go):  *)
(* the goroutine that net/http starts for a request checks it, reads its   *)
(* body, hands the message or batch to a handler of its own and waits for  *)
(* the call goroutine of CallProc, which may outlive the timeout and the   *)
(* peer.  When it has returned the response must not be touched.  HttpCall *)
(* adds the peer and the next-state relation of both.                      *)
(***************************************************************************)
EXTENDS CallProc

CONSTANTS
  Webs,       \* HTTP requests that may arrive
  BodyLimit   \* Server.httpBodyLimit

\* What ServeHTTP looks at: whether a Content-Length is given, the size of the
\* body, whether the content type is one of acceptedContentTypes, and whether
\* the body is empty, a JSON value (the request of CallProc), or anything else.
WebRequests ==
  [method : {"GET", "POST", "PUT", "OPTIONS"}, query : BOOLEAN, known : BOOLEAN,
   size : Nat, accepted : BOOLEAN, body : {"empty", "json", "broken"}]

ASSUME HttpAssumption ==
  /\ BodyLimit \in Nat
  /\ Webs \subseteq WebRequests /\ \A w \in Webs : (w.size = 0) <=> (w.body = "empty")

VARIABLES
  web,    \* the HTTP request
  conn,   \* the goroutine in ServeHTTP
  status  \* status set other than by writing a response, 0 if none

httpVars == <<web, conn, status>>
allVars == <<vars, httpVars>>

HttpTypeOK ==
  /\ TypeOK
  /\ web \in Webs /\ status \in {0, 200, 405, 413, 415}
  /\ conn \in {"check", "run", "read", "handle", "close", "returned"}

HttpInit == Init /\ web \in Webs /\ conn = "check" /\ status = 0

-----------------------------------------------------------------------------
(* The goroutine in ServeHTTP.                                             *)

\* The Content-Length, -1 if it is not known.
ContentLength == IF web.known THEN web.size ELSE -1

\* An empty GET request, as health checks send.
HealthCheck == web.method = "GET" /\ ContentLength = 0 /\ ~web.query

\* Method before length before content type.  PUT stands for DELETE too.
validateRequest ==
  CASE web.method = "PUT" -> 405
    [] web.method # "PUT" /\ ContentLength > BodyLimit -> 413
    [] web.method = "OPTIONS" /\ ContentLength <= BodyLimit -> 0
    [] OTHER -> IF web.accepted THEN 0 ELSE 415

ServeHTTP ==
  /\ conn = "check"
  /\ status' = IF HealthCheck THEN 200 ELSE validateRequest
  /\ conn' = IF status' = 0 THEN "run" ELSE "returned"
  /\ UNCHANGED <<vars, web>>

\* serveSingleRequest looks at Server.run once, which Stop may have cleared.
serveSingleRequest ==
  /\ conn = "run"
  /\ \E running \in BOOLEAN : conn' = IF running THEN "read" ELSE "returned"
  /\ UNCHANGED <<vars, web, status>>

\* readBatch through a LimitReader: a value that does not end within the limit is
\* as broken as one that is not JSON.
ReadOk ==
  /\ conn = "read" /\ web.body = "json" /\ web.size <= BodyLimit
  /\ conn' = "handle"
  /\ UNCHANGED <<vars, web, status>>

\* messageForReadError: an answer for the request as a whole, unless it was empty.
ReadError ==
  /\ conn = "read" /\ (web.body # "json" \/ web.size > BodyLimit)
  /\ sent' = IF web.body = "empty" THEN sent ELSE Append(sent, <<Answer(0, "error")>>)
  /\ conn' = "close"
  /\ UNCHANGED <<req, pc, calls, resp, wrote, bytes, timer, cancelled, web, status>>

\* handleBatch or handleMsg starts the call goroutine.
Handle ==
  /\ conn = "handle"
  /\ RefuseBatch \/ StartProc
  /\ conn' = "close"
  /\ UNCHANGED <<web, status>>

\* Mutant: handler.close cancels the call goroutine and does not wait for it.
HandlerClose_NoWait ==
  /\ conn = "close"
  /\ conn' = "returned" /\ cancelled' = TRUE
  /\ UNCHANGED <<req, pc, calls, resp, wrote, bytes, timer, sent, web, status>>

\* The deferred handler.close: callWG.Wait, then cancelRoot; ServeHTTP returns.
HandlerClose ==
  /\ conn = "close" /\ pc \in {"start", "done"}
  /\ conn' = "returned" /\ cancelled' = TRUE
  /\ UNCHANGED <<req, pc, calls, resp, wrote, bytes, timer, sent, web, status>>

\* The peer goes away: net/http cancels the request's context, from which that
\* of the call goroutine is derived.
PeerGone ==
  /\ conn # "returned" /\ ~cancelled
  /\ cancelled' = TRUE
  /\ UNCHANGED <<req, pc, calls, resp, wrote, bytes, timer, sent, httpVars>>

-----------------------------------------------------------------------------

HttpStep == ServeHTTP \/ serveSingleRequest \/ ReadOk \/ ReadError \/ Handle \/ HandlerClose

TimerStep == TimerResponds /\ UNCHANGED httpVars

-----------------------------------------------------------------------------
(* Properties, beside those of CallProc.                                   *)

\* The timer goroutine is in no wait group, and the method may return just when it
\* fires; yet ServeHTTP never returns while something is still to be written, as
\* sync.Once and the buffer's mutex make the call goroutine wait for a timer that
\* is writing, and handler.close waits for the call goroutine.  The exception is
\* a notification on its own, for which the timer answers as for a call.
NoWriteAfterReturn ==
  [][sent' # sent => conn # "returned" \/ (~req.batch /\ Kind(1) = "note")]_allVars

=============================================================================
