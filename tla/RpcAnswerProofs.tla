-------------------------- MODULE RpcAnswerProofs --------------------------
(***************************************************************************)
(* What RpcClient promises of answers: whoever receives one receives its   *)
(* own, and nobody waits for one that cannot come any more.  Both need the *)
(* ids of requests to be distinct, which they are as long as idCounter has *)
(* not come round.                                                         *)
(***************************************************************************)
EXTENDS RpcClientProofs, FiniteSetTheorems

\* Requests that have drawn their ids share none.
DistinctIds == \A c, d \in Calls : c # d => ids[c] \cap ids[d] = {}

\* An answer is made of ids of the request it answers, which has been sent.
MsgInv ==
  /\ \A n \in Conns : \A c \in peer[n] : pc[c] \notin Fresh
  /\ \A n \in Conns : readMsg[n].type # "call" =>
       \/ readMsg[n].ids = {}
       \/ /\ readMsg[n].of \in Calls /\ pc[readMsg[n].of] \notin Fresh
          /\ readMsg[n].ids \subseteq ids[readMsg[n].of]

\* A request is in the table under its own ids only.
TableInv == \A i \in Ids : respWait[i] # NoOp => i \in ids[respWait[i]]

\* An answer stays in the channel until the caller has taken it.
HadInv == \A c \in hadResponse : respBuf[c] # NoOp \/ pc[c] \in {"timeout", "done"}

\* A failed write has ended its request before dispatch hears of it.
SentInv == reqSent = "failed" => lastOp \in Calls /\ pc[lastOp] = "done"

\* What can still be written to is read from, or will be: a connection that
\* dispatch has given up is closed.
WriteConnInv ==
  /\ dpc \in {"loop", "stopped"} => writeConn \in {0, conn}
  /\ dpc \in {"waitCalls", "drain"} =>
       reading /\ writeConn \in {0, IF why = "reconnected" THEN newConn ELSE conn}
  /\ dpc = "stopped" => conn \in closed

\* A request that is being sent or waits, and has to be told what becomes of it.
Waiting(c) ==
  /\ c \notin spared \cup respClosed
  /\ ids[c] # {} /\ respBuf[c] = NoOp
  /\ pc[c] \in {"write", "offer", "report", "wait"} /\ (pc[c] = "report" => result[c] = "ok")

\* NobodyForgotten, from the moment dispatch has taken the request on.  Without a
\* read loop it can only fail to be written; a quitting client has cancelled it.
ToldInv ==
  \A c \in Calls : Waiting(c) =>
    \/ /\ dpc = "loop" /\ \A i \in ids[c] : respWait[i] = c
       /\ pc[c] \in {"report", "wait"} => reading
    \/ c = lastOp /\ why = "reconnected" /\ dpc \in {"waitCalls", "drain"}
    \/ dpc = "stopped" /\ pc[c] \in {"write", "offer"}

\* The part that holds whatever the ids, and the part that needs them distinct.
SendInv == MsgInv /\ TableInv /\ HadInv /\ SentInv /\ WriteConnInv

AnswersInv == RightAnswer /\ ToldInv

\* What a step may do to the place of a caller.
Forward ==
  \A c \in Calls :
    /\ pc[c] \notin Fresh => pc'[c] \notin Fresh
    /\ pc[c] \notin {"idle", "run"} => pc'[c] \notin {"idle", "run"}
    /\ pc[c] = "timeout" => pc'[c] \in {"timeout", "done"}
    /\ pc[c] = "done" => pc'[c] = "done"

-----------------------------------------------------------------------------

\* No goroutine goes back: once a request is sent it stays sent, once done, done.
LEMMA ForwardStep == ASSUME TypeOK, CallMsgInv, [Next]_vars PROVE Forward
<1> USE ConstantsAssumption DEF callVars, opVars, dispVars, netVars, writeVars, Forward, TypeOK, Fresh
<1>1. ASSUME NEW c \in Calls, Start(c) PROVE Forward
  BY <1>1 DEF Start, Goto
<1>2. ASSUME NEW c \in Calls, ProcReturn(c) PROVE Forward
  BY <1>2 DEF ProcReturn, Goto
<1>3. ASSUME NEW c \in Calls, SendQuit(c) PROVE Forward
  BY <1>3 DEF SendQuit, Goto, Return
<1>4. ASSUME NEW c \in Calls, WriteOk(c) PROVE Forward
  BY <1>4 DEF WriteOk, Goto
<1>5. ASSUME NEW c \in Calls, WriteFail(c) PROVE Forward
  BY <1>5 DEF WriteFail, Goto
<1>6. ASSUME NEW c \in Calls, Dial(c) PROVE Forward
  BY <1>6 DEF Dial, Goto
<1>7. ASSUME NEW c \in Calls, OfferAbort(c) PROVE Forward
  BY <1>7 DEF OfferAbort, Goto
<1>8. ASSUME NEW c \in Calls, Report(c) PROVE Forward
  BY <1>8 DEF Report, Goto
<1>9. ASSUME NEW c \in Calls, Receive(c) PROVE Forward
  BY <1>9 DEF Receive, Goto, Return
<1>10. ASSUME NEW c \in Calls, TimeoutAbort(c) PROVE Forward
  BY <1>10 DEF TimeoutAbort, Goto, Return
<1>11. ASSUME NEW c \in Calls, SendCtx(c) PROVE Forward
  BY <1>11 DEF SendCtx, Goto, Return
<1>12. ASSUME NEW c \in Calls, WaitCtx(c) PROVE Forward
  BY <1>12 DEF WaitCtx, Goto
<1>13. ASSUME NEW c \in Calls, DispatchReconnected(c) PROVE Forward
  BY <1>13 DEF DispatchReconnected, Goto, Install, cancelAllRequests, addRequestOp, EmptyWait
<1>14. ASSUME NEW c \in Calls, DispatchReqInit(c) PROVE Forward
  BY <1>14 DEF DispatchReqInit, Goto, addRequestOp
<1>15. ASSUME NEW c \in Calls, DispatchReqTimeout(c) PROVE Forward
  BY <1>15 DEF DispatchReqTimeout, Goto, Return, removeRequestOp
<1>16. ASSUME NEW n \in Conns, DispatchReadOp(n) PROVE Forward
  BY <1>16 DEF DispatchReadOp, CallMsgInv, Goto, HandOver, handleResponses
<1>17. CASE UNCHANGED <<pc>> BY <1>17
<1> QED
  BY <1>1, <1>2, <1>3, <1>4, <1>5, <1>6, <1>7, <1>8, <1>9, <1>10, <1>11, <1>12, <1>13, <1>14, <1>15, <1>16, <1>17
  DEF Next, CallerStep, ContextEnds, Dispatch, Read, Finished, vars,
      ReadResponse, ReadCall, ReadFail, DispatchReadErr, DrainOp, DrainErr, CloseCall, CloseReturn, ServerStop, DispatchClose, DispatchReqSent, CallsDone

\* Ids are drawn once, before dispatch knows of the request.
LEMMA IdsKept == ASSUME TypeOK, [Next]_vars
                 PROVE  \/ ids' = ids /\ idCounter' = idCounter
                        \/ \E c \in Calls : Start(c)
  BY DEF Next, CallerStep, ContextEnds, Dispatch, Read, Finished, vars, callVars,
      ProcReturn, SendQuit, WriteOk, WriteFail, Dial, OfferAbort, Report, Receive, TimeoutAbort, SendCtx, WaitCtx, DispatchReconnected, DispatchReqInit, DispatchReqTimeout, ReadResponse, ReadCall, ReadFail, DispatchReadOp, DispatchReadErr, DrainOp, DrainErr, CloseCall, CloseReturn, ServerStop, DispatchClose, DispatchReqSent, CallsDone

\* Answers are read of requests that were written.
LEMMA MsgInvStep == ASSUME MsgInv, TypeOK, Forward, [Next]_vars PROVE MsgInv'
<1> USE ConstantsAssumption DEF callVars, opVars, dispVars, netVars, writeVars, MsgInv, TypeOK, Forward, Fresh, NoMsg, Messages
<1>1. ASSUME NEW c \in Calls, Start(c) PROVE MsgInv'
  BY <1>1 DEF Start, Goto
<1>2. ASSUME NEW c \in Calls, WriteOk(c) PROVE MsgInv'
  BY <1>2 DEF WriteOk, Goto
<1>3. ASSUME NEW c \in Calls, WriteFail(c) PROVE MsgInv'
  <2>1. \A m \in Conns : \A d \in peer'[m] : d \in peer[m] \/ d = c
    <3>1. writeConn \in Conns BY <1>3 DEF WriteFail
    <3>2. peer' = peer \/ peer' = [peer EXCEPT ![writeConn] = @ \cup {c}] BY <1>3 DEF WriteFail
    <3> QED BY <3>1, <3>2
  <2>2. pc[c] \notin Fresh /\ readMsg' = readMsg /\ ids' = ids BY <1>3 DEF WriteFail
  <2> QED BY <2>1, <2>2
<1>4. ASSUME NEW n \in Conns, ReadResponse(n) PROVE MsgInv'
  BY <1>4 DEF ReadResponse, Response
<1>5. ASSUME NEW n \in Conns, ReadCall(n) PROVE MsgInv'
  BY <1>5 DEF ReadCall, Request
<1>6. ASSUME NEW n \in Conns, DispatchReadOp(n) PROVE MsgInv'
  BY <1>6 DEF DispatchReadOp, Goto, HandOver, handleResponses
<1>7. ASSUME NEW n \in Conns, DrainOp(n) PROVE MsgInv'
  BY <1>7 DEF DrainOp, HandOver
<1>8. CASE UNCHANGED <<peer, readMsg, ids>> BY <1>8
<1> QED
  BY <1>1, <1>2, <1>3, <1>4, <1>5, <1>6, <1>7, <1>8
  DEF Next, CallerStep, ContextEnds, Dispatch, Read, Finished, vars,
      ProcReturn, SendQuit, Dial, OfferAbort, Report, Receive, TimeoutAbort, SendCtx, WaitCtx, DispatchReconnected, DispatchReqInit, DispatchReqTimeout, ReadFail, DispatchReadErr, DrainErr, CloseCall, CloseReturn, ServerStop, HandOverError, DispatchClose, DispatchReqSent, CallsDone

\* Requests enter the table under their ids, which they keep.
LEMMA TableInvStep == ASSUME TableInv, TypeOK, FreshInv, [Next]_vars PROVE TableInv'
<1> USE ConstantsAssumption DEF callVars, opVars, dispVars, netVars, writeVars, TableInv, TypeOK, FreshInv, Fresh, Registered
<1>1. ASSUME NEW c \in Calls, Start(c) PROVE TableInv'
  BY <1>1 DEF Start, Goto
<1>2. ASSUME NEW c \in Calls, DispatchReconnected(c) PROVE TableInv'
  BY <1>2 DEF DispatchReconnected, Goto, Install, cancelAllRequests, addRequestOp, EmptyWait
<1>3. ASSUME NEW c \in Calls, DispatchReqInit(c) PROVE TableInv'
  BY <1>3 DEF DispatchReqInit, Goto, addRequestOp
<1>4. ASSUME NEW c \in Calls, DispatchReqTimeout(c) PROVE TableInv'
  BY <1>4 DEF DispatchReqTimeout, Goto, Return, removeRequestOp
<1>5. ASSUME NEW n \in Conns, DispatchReadOp(n) PROVE TableInv'
  BY <1>5 DEF DispatchReadOp, Goto, HandOver, handleResponses
<1>6. ASSUME NEW n \in Conns, DispatchReadErr(n) PROVE TableInv'
  BY <1>6 DEF DispatchReadErr, HandOverError, cancelAllRequests, EmptyWait
<1>7. ASSUME NEW n \in Conns, DrainErr(n) PROVE TableInv'
  BY <1>7 DEF DrainErr, addRequestOp, EmptyWait
<1>8. ASSUME DispatchClose PROVE TableInv'
  BY <1>8 DEF DispatchClose, cancelAllRequests, EmptyWait
<1>9. ASSUME DispatchReqSent PROVE TableInv'
  BY <1>9 DEF DispatchReqSent, removeRequestOp
<1>10. CASE UNCHANGED <<ids, respWait>> BY <1>10
<1> QED
  BY <1>1, <1>2, <1>3, <1>4, <1>5, <1>6, <1>7, <1>8, <1>9, <1>10
  DEF Next, CallerStep, ContextEnds, Dispatch, Read, Finished, vars,
      ProcReturn, SendQuit, WriteOk, WriteFail, Dial, OfferAbort, Report, Receive, TimeoutAbort, SendCtx, WaitCtx, ReadResponse, ReadCall, ReadFail, DrainOp, CloseCall, CloseReturn, ServerStop, CallsDone

\* Only the caller empties its channel, and then it is done.
LEMMA HadInvStep == ASSUME HadInv, TypeOK, MsgInv, Forward, [Next]_vars PROVE HadInv'
<1> USE ConstantsAssumption DEF callVars, opVars, dispVars, netVars, writeVars, HadInv, TypeOK, Forward
<1>1. ASSUME NEW c \in Calls, Receive(c) PROVE HadInv'
  BY <1>1 DEF Receive, Goto, Return
<1>2. ASSUME NEW n \in Conns, DispatchReadOp(n) PROVE HadInv'
  <2>1. CASE readMsg[n].type = "call" BY <1>2, <2>1 DEF DispatchReadOp
  <2>2. CASE readMsg[n].type # "call"
    <3>1. readMsg[n].ids \subseteq Ids BY DEF Messages
    <3>2. readMsg[n].ids # {} => readMsg[n].of \in Calls BY <2>2 DEF MsgInv
    <3> QED BY <1>2, <2>2, <3>1, <3>2 DEF DispatchReadOp, handleResponses
  <2> QED BY <2>1, <2>2
<1>3. CASE UNCHANGED <<respBuf, hadResponse>> BY <1>3
<1> QED
  BY <1>1, <1>2, <1>3
  DEF Next, CallerStep, ContextEnds, Dispatch, Read, Finished, vars,
      Start, ProcReturn, SendQuit, WriteOk, WriteFail, Dial, OfferAbort, Report, TimeoutAbort, SendCtx, WaitCtx, DispatchReconnected, DispatchReqInit, DispatchReqTimeout, ReadResponse, ReadCall, ReadFail, DispatchReadErr, DrainOp, DrainErr, CloseCall, CloseReturn, ServerStop, DispatchClose, DispatchReqSent, CallsDone

\* Report ends a request whose write has failed.
LEMMA SentInvStep == ASSUME SentInv, TypeOK, ReportInv, LockInv, Forward, [Next]_vars PROVE SentInv'
<1> USE ConstantsAssumption DEF callVars, opVars, dispVars, netVars, writeVars, SentInv, TypeOK, Forward, ReportInv, LockInv, WriteLock, HoldsLock
<1>1. ASSUME NEW c \in Calls, Report(c) PROVE SentInv'
  BY <1>1 DEF Report, Goto
<1>2. ASSUME NEW c \in Calls, DispatchReqInit(c) PROVE SentInv'
  BY <1>2 DEF DispatchReqInit, Goto, addRequestOp
<1>3. ASSUME DispatchReqSent PROVE SentInv'
  BY <1>3 DEF DispatchReqSent, removeRequestOp
<1>4. CASE UNCHANGED <<reqSent, lastOp>> BY <1>4
<1> QED
  BY <1>1, <1>2, <1>3, <1>4
  DEF Next, CallerStep, ContextEnds, Dispatch, Read, Finished, vars,
      Start, ProcReturn, SendQuit, WriteOk, WriteFail, Dial, OfferAbort, Receive, TimeoutAbort, SendCtx, WaitCtx, DispatchReconnected, DispatchReqTimeout, ReadResponse, ReadCall, ReadFail, DispatchReadOp, DispatchReadErr, DrainOp, DrainErr, CloseCall, CloseReturn, ServerStop, DispatchClose, CallsDone

\* The writer is given a new connection when dispatch begins to replace the old one.
LEMMA WriteConnInvStep == ASSUME WriteConnInv, TypeOK, CloseInv, OneReader, [Next]_vars PROVE WriteConnInv'
<1> USE ConstantsAssumption DEF callVars, opVars, dispVars, netVars, writeVars, WriteConnInv, TypeOK, CloseInv, OneReader
<1>1. ASSUME NEW c \in Calls, WriteFail(c) PROVE WriteConnInv'
  BY <1>1 DEF WriteFail, Goto
<1>2. ASSUME NEW c \in Calls, OfferAbort(c) PROVE WriteConnInv'
  BY <1>2 DEF OfferAbort, Goto
<1>3. ASSUME NEW c \in Calls, DispatchReconnected(c) PROVE WriteConnInv'
  BY <1>3 DEF DispatchReconnected, Goto, Install, cancelAllRequests, addRequestOp, EmptyWait
<1>4. ASSUME NEW n \in Conns, DispatchReadErr(n) PROVE WriteConnInv'
  BY <1>4 DEF DispatchReadErr, HandOverError, cancelAllRequests, EmptyWait
<1>5. ASSUME NEW n \in Conns, DrainErr(n) PROVE WriteConnInv'
  BY <1>5 DEF DrainErr, addRequestOp, EmptyWait
<1>6. ASSUME ServerStop PROVE WriteConnInv'
  BY <1>6 DEF ServerStop
<1>7. ASSUME DispatchClose PROVE WriteConnInv'
  BY <1>7 DEF DispatchClose, cancelAllRequests, EmptyWait
<1>8. ASSUME CallsDone PROVE WriteConnInv'
  BY <1>8 DEF CallsDone
<1>9. CASE UNCHANGED <<dpc, why, reading, conn, newConn, writeConn, closed>> BY <1>9
<1> QED
  BY <1>1, <1>2, <1>3, <1>4, <1>5, <1>6, <1>7, <1>8, <1>9
  DEF Next, CallerStep, ContextEnds, Dispatch, Read, Finished, vars,
      Start, ProcReturn, SendQuit, WriteOk, Dial, Report, Receive, TimeoutAbort, SendCtx, WaitCtx, DispatchReqInit, DispatchReqTimeout, ReadResponse, ReadCall, ReadFail, DispatchReadOp, DrainOp, CloseCall, CloseReturn, DispatchReqSent

\* With distinct ids an answer resolves the request it answers and no other.
LEMMA RightAnswerStep == ASSUME RightAnswer, TypeOK, MsgInv, TableInv, DistinctIds, [Next]_vars PROVE RightAnswer'
<1> USE ConstantsAssumption DEF callVars, opVars, dispVars, netVars, writeVars, RightAnswer, TypeOK, MsgInv, TableInv, DistinctIds
<1>1. ASSUME NEW c \in Calls, Receive(c) PROVE RightAnswer'
  BY <1>1 DEF Receive, Goto, Return
<1>2. ASSUME NEW n \in Conns, DispatchReadOp(n) PROVE RightAnswer'
  BY <1>2 DEF DispatchReadOp, Goto, HandOver, handleResponses
<1>3. CASE UNCHANGED <<respBuf>> BY <1>3
<1> QED
  BY <1>1, <1>2, <1>3
  DEF Next, CallerStep, ContextEnds, Dispatch, Read, Finished, vars,
      Start, ProcReturn, SendQuit, WriteOk, WriteFail, Dial, OfferAbort, Report, TimeoutAbort, SendCtx, WaitCtx, DispatchReconnected, DispatchReqInit, DispatchReqTimeout, ReadResponse, ReadCall, ReadFail, DispatchReadErr, DrainOp, DrainErr, CloseCall, CloseReturn, ServerStop, DispatchClose, DispatchReqSent, CallsDone

\* Whoever takes a request out of the table answers it, cancels it or registers it again.
LEMMA ToldInvStep == ASSUME ToldInv, TypeOK, SendInv, ReportInv, LockInv, CloseInv, FreshInv, OneReader, CallMsgInv, DistinctIds, [Next]_vars PROVE ToldInv'
<1> USE ConstantsAssumption DEF callVars, opVars, dispVars, netVars, writeVars, ToldInv, Waiting, TypeOK
<1>1. ASSUME NEW c \in Calls, Start(c) PROVE ToldInv'
  BY <1>1 DEF Start, Goto
<1>2. ASSUME NEW c \in Calls, ProcReturn(c) PROVE ToldInv'
  BY <1>2 DEF ProcReturn, Goto
<1>3. ASSUME NEW c \in Calls, SendQuit(c) PROVE ToldInv'
  BY <1>3 DEF SendQuit, Goto, Return
<1>4. ASSUME NEW c \in Calls, WriteOk(c) PROVE ToldInv'
  <2> SUFFICES ASSUME NEW d \in Calls, Waiting(d)'
               PROVE  \/ /\ dpc' = "loop" /\ \A i \in ids'[d] : respWait'[i] = d
                         /\ pc'[d] \in {"report", "wait"} => reading'
                      \/ d = lastOp' /\ why' = "reconnected" /\ dpc' \in {"waitCalls", "drain"}
                      \/ dpc' = "stopped" /\ pc'[d] \in {"write", "offer"}
    OBVIOUS
  <2>1. CASE d # c BY <1>4, <2>1 DEF WriteOk, Goto
  <2>2. CASE d = c
    <3>1. Waiting(c) BY <1>4, <2>2 DEF WriteOk, Goto
    <3>2. dpc # "stopped" /\ (dpc = "loop" => reading) BY <1>4 DEF WriteOk, SendInv, WriteConnInv, CloseInv
    <3>3. UNCHANGED <<dpc, ids, respWait, lastOp, why, reading>> BY <1>4 DEF WriteOk
    <3> QED BY <2>2, <3>1, <3>2, <3>3
  <2> QED BY <2>1, <2>2
<1>5. ASSUME NEW c \in Calls, WriteFail(c) PROVE ToldInv'
  BY <1>5 DEF WriteFail, Goto
<1>6. ASSUME NEW c \in Calls, Dial(c) PROVE ToldInv'
  BY <1>6 DEF Dial, Goto
<1>7. ASSUME NEW c \in Calls, OfferAbort(c) PROVE ToldInv'
  BY <1>7 DEF OfferAbort, Goto
<1>8. ASSUME NEW c \in Calls, Report(c) PROVE ToldInv'
  BY <1>8 DEF Report, Goto
<1>9. ASSUME NEW c \in Calls, Receive(c) PROVE ToldInv'
  BY <1>9 DEF Receive, Goto, Return
<1>10. ASSUME NEW c \in Calls, TimeoutAbort(c) PROVE ToldInv'
  BY <1>10 DEF TimeoutAbort, Goto, Return
<1>11. ASSUME NEW c \in Calls, SendCtx(c) PROVE ToldInv'
  BY <1>11 DEF SendCtx, Goto, Return
<1>12. ASSUME NEW c \in Calls, WaitCtx(c) PROVE ToldInv'
  BY <1>12 DEF WaitCtx, Goto
<1>13. ASSUME NEW c \in Calls, DispatchReconnected(c) PROVE ToldInv'
  <2>1. lastOp = c /\ dpc = "loop" BY <1>13 DEF DispatchReconnected, LockInv, WriteLock, HoldsLock
  <2>2. CASE reading
    <3>1. ASSUME NEW d \in Calls, Waiting(d)' PROVE d = c
      <4> SUFFICES ASSUME d # c PROVE FALSE
        OBVIOUS
      <4>1. Waiting(d) BY <1>13, <2>2, <3>1 DEF DispatchReconnected, Goto, cancelAllRequests
      <4>2. PICK i \in ids[d] : respWait[i] = d BY <2>1, <4>1
      <4>3. d \in respClosed' BY <1>13, <2>1, <2>2, <4>2 DEF DispatchReconnected, cancelAllRequests
      <4> QED BY <3>1, <4>3
    <3>2. lastOp' = c /\ why' = "reconnected" /\ dpc' = "waitCalls" BY <1>13, <2>1, <2>2 DEF DispatchReconnected
    <3> QED BY <3>1, <3>2
  <2>3. CASE ~reading
    <3>1. ASSUME NEW d \in Calls, Waiting(d)' PROVE d = c
      <4> SUFFICES ASSUME d # c PROVE FALSE
        OBVIOUS
      <4>1. Waiting(d) BY <1>13, <2>1, <2>3, <3>1 DEF DispatchReconnected, Goto, Install
      <4>2. pc[d] \in {"write", "offer"} BY <2>1, <2>3, <4>1
      <4> QED BY <2>1, <4>2 DEF LockInv, WriteLock, HoldsLock
    <3>2. dpc' = "loop" /\ reading' BY <1>13, <2>1, <2>3 DEF DispatchReconnected, Install
    <3>3. \A i \in ids'[c] : respWait'[i] = c BY <1>13, <2>1, <2>3 DEF DispatchReconnected, Install, addRequestOp
    <3> QED BY <3>1, <3>2, <3>3
  <2> QED BY <2>2, <2>3
<1>14. ASSUME NEW c \in Calls, DispatchReqInit(c) PROVE ToldInv'
  <2>1. \A i \in ids[c] : respWait'[i] = c BY <1>14 DEF DispatchReqInit, addRequestOp
  <2>2. ASSUME NEW d \in Calls, d # c, NEW i \in ids[d] PROVE respWait'[i] = respWait[i]
    BY <1>14, <2>2 DEF DispatchReqInit, addRequestOp, DistinctIds
  <2>3. ASSUME NEW d \in Calls, d # c, Waiting(d)' PROVE Waiting(d) /\ pc'[d] = pc[d]
    BY <1>14, <2>3 DEF DispatchReqInit, Goto
  <2>4. dpc = "loop" /\ pc'[c] = "write" /\ UNCHANGED <<ids, dpc, reading>> BY <1>14 DEF DispatchReqInit, Goto
  <2> QED BY <2>1, <2>2, <2>3, <2>4
<1>15. ASSUME NEW c \in Calls, DispatchReqTimeout(c) PROVE ToldInv'
  <2>1. dpc = "loop" /\ pc'[c] = "done" /\ UNCHANGED <<ids, dpc, reading>> BY <1>15 DEF DispatchReqTimeout, Goto, Return
  <2>2. ASSUME NEW d \in Calls, d # c, NEW i \in ids[d] PROVE respWait'[i] = respWait[i]
    BY <1>15, <2>2 DEF DispatchReqTimeout, removeRequestOp, DistinctIds
  <2>3. ASSUME NEW d \in Calls, d # c, Waiting(d)' PROVE Waiting(d) /\ pc'[d] = pc[d]
    BY <1>15, <2>3 DEF DispatchReqTimeout, Goto, Return
  <2> QED BY <2>1, <2>2, <2>3
<1>16. ASSUME NEW n \in Conns, DispatchReadOp(n) PROVE ToldInv'
  <2>1. dpc = "loop" /\ UNCHANGED <<ids, dpc, reading, result, spared, respClosed>> BY <1>16 DEF DispatchReadOp
  <2>2. CASE readMsg[n].type = "call"
    BY <1>16, <2>1, <2>2 DEF DispatchReadOp, Goto
  <2>3. CASE readMsg[n].type # "call"
    <3> DEFINE resolved == {respWait[i] : i \in readMsg[n].ids} \ {NoOp}
    <3>1. /\ respBuf' = [e \in Calls |-> IF e \in resolved \ hadResponse THEN readMsg[n].of ELSE respBuf[e]]
          /\ respWait' = [i \in Ids |-> IF \E op \in resolved : i \in ids[op] THEN NoOp ELSE respWait[i]]
          /\ pc' = pc
      BY <1>16, <2>3 DEF DispatchReadOp, handleResponses
    <3>2. resolved \subseteq Calls
      <4>1. readMsg[n].ids \subseteq Ids BY DEF Messages
      <4> QED BY <4>1
    <3>3. resolved # {} => readMsg[n].of \in Calls BY <2>3 DEF SendInv, MsgInv
    <3>4. ASSUME NEW d \in Calls, Waiting(d)' PROVE Waiting(d) /\ d \notin resolved
      <4>1. d \notin resolved \ hadResponse BY <3>1, <3>3, <3>4
      <4>2. Waiting(d) BY <2>1, <3>1, <3>4, <4>1
      <4> QED BY <4>1, <4>2 DEF SendInv, HadInv
    <3>5. ASSUME NEW d \in Calls, d \notin resolved, NEW i \in ids[d] PROVE respWait'[i] = respWait[i]
      BY <3>1, <3>2, <3>5 DEF DistinctIds
    <3> HIDE DEF resolved
    <3> QED BY <2>1, <3>1, <3>4, <3>5
  <2> QED BY <2>2, <2>3
<1>17. ASSUME NEW n \in Conns, DispatchReadErr(n) PROVE ToldInv'
  BY <1>17 DEF DispatchReadErr, HandOverError, cancelAllRequests, EmptyWait
<1>18. ASSUME NEW n \in Conns, DrainErr(n) PROVE ToldInv'
  BY <1>18 DEF DrainErr, addRequestOp, EmptyWait
<1>19. ASSUME DispatchClose PROVE ToldInv'
  BY <1>19 DEF DispatchClose, cancelAllRequests, EmptyWait
<1>20. ASSUME DispatchReqSent PROVE ToldInv'
  <2>1. /\ dpc = "loop"
        /\ UNCHANGED <<pc, ids, dpc, reading, result, spared, respClosed, respBuf>>
    BY <1>20 DEF DispatchReqSent
  <2>2. ASSUME NEW d \in Calls, Waiting(d), NEW i \in ids[d] PROVE respWait'[i] = respWait[i]
    <3>1. CASE reqSent = "ok" BY <1>20, <3>1 DEF DispatchReqSent
    <3>2. CASE reqSent = "failed"
      <4>1. lastOp \in Calls /\ d # lastOp BY <2>2, <3>2 DEF SendInv, SentInv
      <4> QED BY <1>20, <2>2, <4>1 DEF DispatchReqSent, removeRequestOp, DistinctIds
    <3> QED BY <1>20, <3>1, <3>2 DEF DispatchReqSent
  <2> QED BY <2>1, <2>2
<1>21. ASSUME CallsDone PROVE ToldInv'
  BY <1>21 DEF CallsDone
<1>22. CASE UNCHANGED <<pc, ids, respBuf, respClosed, spared, result, dpc, respWait, reading, lastOp, why>> BY <1>22
<1> QED
  BY <1>1, <1>2, <1>3, <1>4, <1>5, <1>6, <1>7, <1>8, <1>9, <1>10, <1>11, <1>12, <1>13, <1>14, <1>15, <1>16, <1>17, <1>18, <1>19, <1>20, <1>21, <1>22
  DEF Next, CallerStep, ContextEnds, Dispatch, Read, Finished, vars,
      ReadResponse, ReadCall, ReadFail, DrainOp, CloseCall, CloseReturn, ServerStop

-----------------------------------------------------------------------------
(* The ids of a client that sends fewer than IdSpace messages in its life. *)

\* As many messages as a request may consist of.
MaxMessages == IF BatchLen = 0 THEN 1 ELSE BatchLen

\* idCounter does not come round: in the code, less than 2^32 messages.
EnoughIds == IsFiniteSet(Calls) /\ Cardinality(Calls) * MaxMessages < IdSpace

\* The requests that may have drawn their ids.
Drawn == {c \in Calls : pc[c] \notin {"idle", "run"}}

\* The counter is ahead of every id in use and behind the number of messages.
IdsInv ==
  /\ \A c \in Calls : ids[c] \subseteq 1 .. idCounter /\ (c \notin Drawn => ids[c] = {})
  /\ idCounter <= Cardinality(Drawn) * MaxMessages
  /\ DistinctIds

\* The counter cannot pass IdSpace, so an id that is drawn is new.
LEMMA IdsInvStep ==
  ASSUME EnoughIds, IdsInv, TypeOK, Forward, [Next]_vars PROVE IdsInv'
<1> USE ConstantsAssumption
<1> DEFINE N == Cardinality(Calls)  k == Cardinality(Drawn)  K == MaxMessages
<1>1. /\ Drawn \subseteq Calls /\ Drawn' \subseteq Calls /\ IsFiniteSet(Calls)
      /\ IsFiniteSet(Drawn) /\ IsFiniteSet(Drawn')
      /\ N \in Nat /\ k \in Nat /\ Cardinality(Drawn') \in Nat /\ Cardinality(Drawn') <= N
  <2>1. Drawn \subseteq Calls /\ Drawn' \subseteq Calls /\ IsFiniteSet(Calls)
    BY DEF Drawn, EnoughIds
  <2> QED BY <2>1, FS_Subset, FS_CardinalityType
<1>2. K \in Nat \ {0} BY DEF MaxMessages
<1>3. Drawn \subseteq Drawn' BY DEF Forward, Drawn
<1>4. k <= Cardinality(Drawn') BY <1>1, <1>3, FS_Subset
<1>5. CASE ids' = ids /\ idCounter' = idCounter
  <2>1. k * K <= Cardinality(Drawn') * K BY <1>1, <1>2, <1>4
  <2>2. idCounter <= Cardinality(Drawn') * K
    <3>1. idCounter \in Int /\ k * K \in Int /\ Cardinality(Drawn') * K \in Int
      BY <1>1, <1>2 DEF TypeOK, Ids
    <3> QED BY <2>1, <3>1 DEF IdsInv
  <2> QED BY <1>3, <1>5, <2>2 DEF IdsInv, DistinctIds, MaxMessages
<1>6. ASSUME NEW c \in Calls, Start(c) PROVE IdsInv'
  <2>1. c \notin Drawn /\ Drawn' = Drawn \cup {c}
    BY <1>6 DEF Start, Goto, Drawn, TypeOK
  <2>2. Cardinality(Drawn') = k + 1 BY <1>1, <2>1, FS_AddElement
  <2>3. MessageCount(c) \in Nat /\ MessageCount(c) <= K BY DEF MessageCount, MaxMessages
  <2>4. idCounter \in Nat /\ idCounter <= k * K BY DEF IdsInv, TypeOK, Ids
  <2>5. k * K + K <= N * K
    <3>1. (k + 1) * K <= N * K BY <1>1, <1>2, <2>2
    <3>2. (k + 1) * K = k * K + K BY <1>1, <1>2
    <3> QED BY <3>1, <3>2
  <2>6. idCounter + MessageCount(c) < IdSpace
    <3>1. N * K < IdSpace BY DEF EnoughIds
    <3>2. k * K \in Nat /\ N * K \in Nat /\ K \in Nat BY <1>1, <1>2
    <3> HIDE DEF N, k, K
    <3> QED BY <2>3, <2>4, <2>5, <3>1, <3>2
  <2>7. \A i \in 0 .. MessageCount(c) : nextID(i) = idCounter + i
    BY <2>3, <2>4, <2>6 DEF nextID
  <2>8. idCounter' = idCounter + MessageCount(c) BY <1>6, <2>3, <2>7 DEF Start
  <2>9. ids' = [ids EXCEPT ![c] = opIds(c)] BY <1>6 DEF Start
  <2>10. opIds(c) \subseteq idCounter + 1 .. idCounter' BY <2>3, <2>4, <2>7, <2>8 DEF opIds
  <2>11. ids[c] = {} /\ \A d \in Calls : ids[d] \subseteq 1 .. idCounter BY <2>1 DEF IdsInv
  <2>12. ids \in [Calls -> SUBSET Ids] BY DEF TypeOK
  <2>13. \A d \in Calls : ids'[d] \subseteq 1 .. idCounter' /\ (d \notin Drawn' => ids'[d] = {})
    <3>1. ids'[c] \subseteq 1 .. idCounter' BY <2>3, <2>4, <2>8, <2>9, <2>10, <2>12
    <3>2. ASSUME NEW d \in Calls, d # c
          PROVE ids'[d] \subseteq 1 .. idCounter' /\ (d \notin Drawn' => ids'[d] = {})
      <4>1. ids'[d] = ids[d] BY <2>9, <2>12, <3>2
      <4>2. ids[d] \subseteq 1 .. idCounter' BY <2>3, <2>4, <2>8, <2>11
      <4> QED BY <2>1, <4>1, <4>2 DEF IdsInv
    <3> QED BY <2>1, <3>1, <3>2
  <2>14. idCounter' <= Cardinality(Drawn') * K
    <3>1. k * K \in Nat /\ K \in Nat /\ (k + 1) * K = k * K + K BY <1>1, <1>2
    <3>2. Cardinality(Drawn') * K = (k + 1) * K BY <2>2
    <3> HIDE DEF k, K
    <3> QED BY <2>3, <2>4, <2>8, <3>1, <3>2
  <2>15. DistinctIds'
    <3>1. \A d \in Calls : opIds(c) \cap ids[d] = {} BY <2>4, <2>8, <2>10, <2>11
    <3> QED BY <2>9, <2>12, <3>1 DEF IdsInv, DistinctIds
  <2> QED BY <2>13, <2>14, <2>15 DEF IdsInv, MaxMessages
<1> QED BY <1>5, <1>6, IdsKept

-----------------------------------------------------------------------------

\* The initial state satisfies all parts.
LEMMA InitAnswers == ASSUME Init PROVE SendInv /\ AnswersInv
<1> USE ConstantsAssumption DEF Init
<1>1. MsgInv BY DEF MsgInv, NoMsg
<1>2. TableInv /\ HadInv /\ SentInv /\ WriteConnInv
  BY DEF TableInv, HadInv, SentInv, WriteConnInv
<1>3. RightAnswer /\ ToldInv BY DEF RightAnswer, ToldInv, Waiting
<1> QED BY <1>1, <1>2, <1>3 DEF SendInv, AnswersInv

\* No id has been drawn at first.
LEMMA InitIds == ASSUME Init, EnoughIds PROVE IdsInv
<1> USE ConstantsAssumption
<1>1. Drawn \subseteq Calls /\ IsFiniteSet(Calls) BY DEF Drawn, EnoughIds
<1>2. Cardinality(Drawn) \in Nat BY <1>1, FS_Subset, FS_CardinalityType
<1>3. MaxMessages \in Nat BY DEF MaxMessages
<1>4. 0 <= Cardinality(Drawn) * MaxMessages BY <1>2, <1>3
<1> QED BY <1>4 DEF Init, IdsInv, DistinctIds

\* The invariant of RpcClientProofs and SendInv carry each other along.
LEMMA SendInvStep == ASSUME Inv, SendInv, [Next]_vars PROVE SendInv' /\ Forward
<1>1. Forward BY ForwardStep DEF Inv
<1> QED BY <1>1, MsgInvStep, TableInvStep, HadInvStep, SentInvStep, WriteConnInvStep DEF Inv, SendInv

\* With distinct ids AnswersInv is preserved too.
LEMMA AnswersInvStep == ASSUME Inv, SendInv, AnswersInv, DistinctIds, [Next]_vars PROVE AnswersInv'
  BY RightAnswerStep, ToldInvStep DEF Inv, SendInv, AnswersInv

\* ToldInv is more than NobodyForgotten asks for.
LEMMA AnswersSuffice == ASSUME TypeOK, AnswersInv PROVE RightAnswer /\ NobodyForgotten
<1>1. ASSUME NEW c \in Calls \ spared, pc[c] = "wait", ids[c] # {}, respBuf[c] = NoOp, c \notin respClosed
      PROVE  \/ Registered(c) /\ reading /\ dpc = "loop"
             \/ c = lastOp /\ why = "reconnected" /\ dpc \in {"waitCalls", "drain"}
  <2>1. Waiting(c) BY <1>1 DEF Waiting
  <2>2. ids[c] \subseteq Ids BY DEF TypeOK
  <2> QED BY <1>1, <2>1, <2>2 DEF AnswersInv, ToldInv, Registered
<1> QED BY <1>1 DEF AnswersInv, NobodyForgotten

\* As long as no two requests share an id, however often the counter has come
\* round, answers go where they belong and nobody is forgotten.
THEOREM WhileIdsDistinct == Spec /\ []DistinctIds => [](RightAnswer /\ NobodyForgotten)
<1>1. Init => SendInv /\ AnswersInv BY InitAnswers
<1>2. Inv /\ SendInv /\ AnswersInv /\ DistinctIds /\ [Next]_vars => SendInv' /\ AnswersInv'
  BY SendInvStep, AnswersInvStep
<1>3. TypeOK /\ AnswersInv => RightAnswer /\ NobodyForgotten BY AnswersSuffice
<1>4. Inv => TypeOK BY DEF Inv
<1> QED BY <1>1, <1>2, <1>3, <1>4, Invariance, PTL DEF Spec

\* A client that sends fewer than IdSpace messages never reuses an id: newMessage
\* draws it from idCounter once, however the callers interleave (client.go:283, 549).
THEOREM DistinctIdsHold == ASSUME EnoughIds PROVE Spec => []DistinctIds
<1>1. Init => IdsInv BY InitIds
<1>2. Inv /\ IdsInv /\ [Next]_vars => IdsInv' BY ForwardStep, IdsInvStep DEF Inv
<1>3. IdsInv => DistinctIds BY DEF IdsInv
<1> QED BY <1>1, <1>2, <1>3, Invariance, PTL DEF Spec

\* However late an answer comes, from whichever connection, only the request that
\* it answers receives it (handler.go handleResponses).
THEOREM RightAnswerHolds == ASSUME EnoughIds PROVE Spec => []RightAnswer
  BY DistinctIdsHold, WhileIdsDistinct, PTL

\* Nobody waits for an answer that cannot come: whoever removes a request from
\* respWait resolves it, cancels it or registers it with the next connection.
THEOREM NobodyForgottenHolds == ASSUME EnoughIds PROVE Spec => []NobodyForgotten
  BY DistinctIdsHold, WhileIdsDistinct, PTL

=============================================================================
