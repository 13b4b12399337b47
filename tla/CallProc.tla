------------------------------ MODULE CallProc ------------------------------
(***************************************************************************)
(* How a handler answers one incoming message or batch (rpc/handler.go):   *)
(* the call goroutine that executes the methods, the timer goroutine that  *)
(* answers for it when ContextRequestTimeout has passed, and the           *)
(* batchCallBuffer (or sync.Once) they share.  Messages are numbered by    *)
(* their position in the request; of a message only its class matters, of  *)
(* a method only whether it returns and the size of its result.            *)
(***************************************************************************)
EXTENDS Integers, Sequences, FiniteSets, Functions

CONSTANTS
  Requests,   \* what may arrive: records [batch, msgs], msgs a sequence of Kinds
  Sizes,      \* sizes of method results
  ItemLimit,  \* handler.batchRequestLimit, 0 is unlimited
  MaxSize,    \* handler.batchResponseMaxSize, 0 is unlimited
  HasTimeout  \* ContextRequestTimeout finds one

\* Classes of messages: a method call, a notification, a malformed message, and
\* an answer to a request of ours.
Kinds == {"call", "note", "invalid", "response"}

ASSUME CallProcAssumption ==
  /\ \A r \in Requests : r.batch \in BOOLEAN /\ r.msgs \in Seq(Kinds) /\ (r.batch \/ Len(r.msgs) = 1)
  /\ 0 \in Sizes /\ Sizes \subseteq Nat /\ ItemLimit \in Nat /\ MaxSize \in Nat /\ HasTimeout \in BOOLEAN

VARIABLES
  req,        \* the request
  pc,         \* the call goroutine
  calls,      \* batchCallBuffer.calls
  resp,       \* batchCallBuffer.resp, or the answer of a single call
  wrote,      \* batchCallBuffer.wrote, or responded has run
  bytes,      \* responseBytes
  timer,      \* the timer goroutine
  cancelled,  \* cp.ctx has been cancelled
  sent        \* what has been written to the connection, in order

vars == <<req, pc, calls, resp, wrote, bytes, timer, cancelled, sent>>

\* An answer to the message at position m; 0 is for the batch as a whole.
Answer(m, w) == [msg |-> m, what |-> w]
Answers == [msg : Nat, what : {"result", "error", "timeout", "tooLarge"}]

Kind(m) == req.msgs[m]

\* The positions of S in the order of the request: a set of one sequence.
InOrder(S) ==
  {s \in [1..Cardinality(S) -> S] : Range(s) = S /\ \A i, j \in DOMAIN s : i < j => s[i] < s[j]}

TypeOK ==
  /\ req \in Requests
  /\ pc \in {"start", "loop", "method", "tooLarge", "stop", "write", "done"}
  /\ calls \in Seq({m \in DOMAIN req.msgs : Kind(m) # "response"}) /\ resp \in Seq(Answers)
  /\ wrote \in BOOLEAN /\ cancelled \in BOOLEAN /\ bytes \in Nat
  /\ timer \in {"off", "armed", "fired", "over"}
  /\ sent \in Seq(Seq(Answers))

Init ==
  /\ req \in Requests /\ pc = "start"
  /\ calls = <<>> /\ resp = <<>> /\ wrote = FALSE /\ bytes = 0
  /\ timer = "off" /\ cancelled = FALSE /\ sent = <<>>

-----------------------------------------------------------------------------
(* Writing.                                                                *)

\* Mutant: nothing remembers that the answers were written.
doWrite_Always(r) ==
  wrote' = TRUE /\ sent' = IF r # <<>> THEN Append(sent, r) ELSE sent

\* doWrite: the first caller writes what there is, if there is anything.
doWrite(r) ==
  /\ wrote' = TRUE
  /\ sent' = IF ~wrote /\ r # <<>> THEN Append(sent, r) ELSE sent

\* Mutant: unanswered calls are left out.
respondWithError_None(w) == resp' = resp /\ doWrite(resp)

\* respondWithError: an error for every call not answered so far.
respondWithError(w) ==
  \E left \in InOrder({m \in Range(calls) : Kind(m) # "note"}) :
    /\ resp' = resp \o [i \in DOMAIN left |-> Answer(left[i], w)]
    /\ doWrite(resp')

\* m is the message a batch error is reported for: the first call, or 0 for none.
FirstCall(m) ==
  /\ m # 0 => Kind(m) = "call"
  /\ \A k \in DOMAIN req.msgs : k < m \/ m = 0 => Kind(k) # "call"

-----------------------------------------------------------------------------
(* The call goroutine.                                                     *)

\* handleBatch refuses the batch.
RefuseBatch ==
  /\ pc = "start" /\ req.batch
  /\ \/ req.msgs = <<>> /\ sent' = <<<<Answer(0, "error")>>>>
     \/ /\ ItemLimit # 0 /\ Len(req.msgs) > ItemLimit
        /\ \E m \in 0..Len(req.msgs) : FirstCall(m) /\ sent' = <<<<Answer(m, "error")>>>>
  /\ pc' = "done"
  /\ UNCHANGED <<req, calls, resp, wrote, bytes, timer, cancelled>>

\* Mutant: responses stay among the calls to execute.
StartProc_All ==
  /\ pc = "start" /\ (req.batch => req.msgs # <<>> /\ (ItemLimit = 0 \/ Len(req.msgs) <= ItemLimit))
  /\ calls' = [m \in DOMAIN req.msgs |-> m]
  /\ pc' = "loop" /\ timer' = IF HasTimeout THEN "armed" ELSE "off"
  /\ UNCHANGED <<req, resp, wrote, bytes, cancelled, sent>>

\* handleBatch and handleMsg give responses to the requests waiting for them;
\* if anything else is left the call goroutine starts, and the timer with it.
StartProc ==
  /\ pc = "start" /\ (req.batch => req.msgs # <<>> /\ (ItemLimit = 0 \/ Len(req.msgs) <= ItemLimit))
  /\ calls' \in InOrder({m \in DOMAIN req.msgs : Kind(m) # "response"})
  /\ IF calls' = <<>> THEN pc' = "done" /\ timer' = timer
     ELSE pc' = "loop" /\ timer' = IF HasTimeout THEN "armed" ELSE "off"
  /\ UNCHANGED <<req, resp, wrote, bytes, cancelled, sent>>

\* The head of the batch loop; a single call is executed in any case.
NextCall ==
  /\ pc = "loop"
  /\ pc' = IF calls = <<>> \/ (req.batch /\ cancelled) THEN "stop" ELSE "method"
  /\ UNCHANGED <<req, calls, resp, wrote, bytes, timer, cancelled, sent>>

\* pushResponse: the answer of the call at the head, which leaves the buffer.
pushResponse(w) ==
  /\ resp' = IF Kind(Head(calls)) = "note" THEN resp ELSE Append(resp, Answer(Head(calls), w))
  /\ calls' = Tail(calls)

\* handleCallMsg returns, for a batch followed by pushResponse and the size check.
MethodReturn ==
  /\ pc = "method"
  /\ LET m == Head(calls) IN
     \E size \in Sizes, w \in {"result", "error"} :
       /\ Kind(m) = "invalid" => w = "error"
       /\ w = "error" => size = 0
       /\ pushResponse(w)
       /\ bytes' = IF MaxSize # 0 /\ Kind(m) # "note" THEN bytes + size ELSE bytes
  /\ pc' = IF ~req.batch THEN "stop"
           ELSE IF MaxSize # 0 /\ bytes' > MaxSize THEN "tooLarge" ELSE "loop"
  /\ UNCHANGED <<req, wrote, timer, cancelled, sent>>

\* The results exceed batchResponseMaxSize.
TooLarge ==
  /\ pc = "tooLarge"
  /\ respondWithError("tooLarge")
  /\ pc' = "stop"
  /\ UNCHANGED <<req, calls, bytes, timer, cancelled>>

\* timer.Stop: too late once the timer goroutine runs.
StopTimer ==
  /\ pc = "stop"
  /\ timer' = IF timer = "armed" THEN "off" ELSE timer
  /\ pc' = "write"
  /\ UNCHANGED <<req, calls, resp, wrote, bytes, cancelled, sent>>

\* Mutant: nothing is done for a request that has timed out.
Write_SkipCancelled ==
  /\ pc = "write"
  /\ IF ~cancelled THEN doWrite(resp) ELSE UNCHANGED <<wrote, sent>>
  /\ pc' = "done"
  /\ UNCHANGED <<req, calls, resp, bytes, timer, cancelled>>

\* callBuffer.write, or responded.Do if the single call has an answer.
Write ==
  /\ pc = "write"
  /\ IF req.batch \/ resp # <<>> THEN doWrite(resp) ELSE UNCHANGED <<wrote, sent>>
  /\ pc' = "done"
  /\ UNCHANGED <<req, calls, resp, bytes, timer, cancelled>>

-----------------------------------------------------------------------------
(* The timer goroutine.                                                    *)

\* The timeout passes: first the context is cancelled ...
TimerFires ==
  /\ timer = "armed"
  /\ timer' = "fired" /\ cancelled' = TRUE
  /\ UNCHANGED <<req, pc, calls, resp, wrote, bytes, sent>>

\* ... then the timer answers, unless the call goroutine has.
TimerResponds ==
  /\ timer = "fired"
  /\ IF req.batch THEN respondWithError("timeout")
     ELSE doWrite(<<Answer(1, "timeout")>>) /\ UNCHANGED resp
  /\ timer' = "over"
  /\ UNCHANGED <<req, pc, calls, bytes, cancelled>>

-----------------------------------------------------------------------------

Done == pc = "done" /\ timer # "fired" /\ UNCHANGED vars

Next ==
  \/ RefuseBatch \/ StartProc \/ NextCall \/ TooLarge \/ StopTimer \/ Write
  \/ MethodReturn \/ TimerFires \/ TimerResponds \/ Done

Spec == Init /\ [][Next]_vars

-----------------------------------------------------------------------------
(* Properties.                                                             *)

Answered(m) == \E k \in DOMAIN sent : \E i \in DOMAIN sent[k] : sent[k][i].msg = m

\* Whoever of the call goroutine, the size check and the timer comes first: one
\* request gets at most one response message, with at most one answer for each
\* of its calls and none for its responses; a batch answers no notification.
AnsweredOnce ==
  /\ Len(sent) <= 1
  /\ \A k \in DOMAIN sent : IsInjective([i \in DOMAIN sent[k] |-> sent[k][i].msg])
  /\ \A m \in DOMAIN req.msgs :
       Kind(m) = "response" \/ (req.batch /\ Kind(m) = "note") => ~Answered(m)

\* Messages that a batch within the limits must answer.
Expected == {m \in DOMAIN req.msgs : Kind(m) \in {"call", "invalid"}}
WithinLimit == ItemLimit = 0 \/ Len(req.msgs) <= ItemLimit

\* As long as the timeout has not passed every call of the request is answered
\* when the call goroutine ends, with an error if the response grew too large.
CompleteInTime ==
  pc = "done" /\ ~cancelled /\ WithinLimit => \A m \in Expected : Answered(m)

\* "For the remaining unanswered call messages, it responds with the given error"
\* (handler.go:153-154): a batch that has ended has an answer for every call.
BatchComplete ==
  pc = "done" /\ timer # "fired" /\ req.batch /\ WithinLimit => \A m \in Expected : Answered(m)

=============================================================================
