-------------------------- MODULE RpcClientProofs --------------------------
(***************************************************************************)
(* Proofs about RpcClient, for any number of calls and connections and any *)
(* size of the id space.  Inv is the inductive invariant; its parts say    *)
(* why the properties survive every step.                                  *)
(***************************************************************************)
EXTENDS RpcClient, TLAPS

Live  == {"reading", "message", "error"}
Fresh == {"idle", "run", "send"}

\* The writer's result is one that reqSent can carry.
ReportInv == \A c \in Calls : pc[c] = "report" => result[c] \in {"ok", "failed"}

\* What is buffered on reqSent was put there by the holder of the lock.
LockInv == WriteLock /\ (reqSent # "empty" => locked)

\* While dispatch is closing a connection it knows why, and a new one is at hand
\* if it is to be installed.
CloseInv ==
  /\ dpc \in {"waitCalls", "drain"} => why # "none"
  /\ dpc = "drain" => why \in {"quit", "reconnected"} /\ conn \in closed
  /\ dpc \in {"waitCalls", "drain"} /\ why = "reconnected" => newConn \in Conns
  /\ ~reading => conn \in closed

\* A method call being handed over is not running yet and is handed over once.
CallMsgInv ==
  \A n \in Conns : readMsg[n].type = "call" =>
     /\ readMsg[n].of \in Procs /\ pc[readMsg[n].of] = "idle"
     /\ \A m \in Conns \ {n} : readMsg[m].type = "call" => readMsg[m].of # readMsg[n].of

\* Dispatch does not know a request that has not been offered to it yet.
FreshInv ==
  \A c \in Calls : pc[c] \in Fresh =>
     c \notin respClosed /\ respBuf[c] = NoOp /\ ~Registered(c) /\ c # lastOp

\* The request being sent keeps its channel open until the client quits, so it
\* may be registered again on a new connection.
LastOpInv == lastOp \in respClosed => dpc = "stopped" \/ (dpc # "loop" /\ why = "quit")

\* An answer is buffered only by handleResponses, which records it.
AnswerInv == \A c \in Calls : respBuf[c] # NoOp => c \in hadResponse

\* The read loop that reported the error dispatch is handling is gone.
LostInv == dpc = "waitCalls" /\ why = "lost" => \A n \in Conns : reader[n] \notin Live

Inv ==
  /\ TypeOK /\ ReportInv /\ LockInv /\ CloseInv /\ CallMsgInv /\ FreshInv /\ LastOpInv
  /\ AnswerInv /\ RespChanSafe /\ OneReader /\ LostInv /\ ConnsAccounted

-----------------------------------------------------------------------------
(* Each part is preserved by every action: one step per action that        *)
(* changes a variable the part depends on.                                 *)

\* An answer or a message handed over leaves well-typed channels behind.
LEMMA HandOverType ==
  ASSUME TypeOK, NEW n \in Conns, HandOver(n) \/ HandOverError(n)
  PROVE  /\ reader' \in [Conns -> {"none", "reading", "message", "error", "exited"}]
         /\ readMsg' \in [Conns -> Messages]
<1>1. NoMsg \in Messages BY DEF NoMsg, Messages
<1>2. CASE HandOver(n) BY <1>1, <1>2 DEF TypeOK, HandOver
<1>3. CASE HandOverError(n) BY <1>3 DEF TypeOK, HandOverError
<1> QED BY <1>2, <1>3

\* Installing a connection keeps the table and dispatch's locals well-typed.
LEMMA InstallType ==
  ASSUME TypeOK, NEW op \in Calls \cup {NoOp}
  PROVE  addRequestOp(EmptyWait, op) \in [Ids -> Calls \cup {NoOp}]
  BY DEF TypeOK, addRequestOp, EmptyWait

\* Every action keeps the variables within their types.
LEMMA TypeStep == ASSUME TypeOK, ReportInv, CloseInv, [Next]_vars PROVE TypeOK'
<1> USE ConstantsAssumption DEF TypeOK, PCs, Errs, callVars, opVars, dispVars, netVars, writeVars
<1>1. ASSUME NEW c \in Calls, Start(c) PROVE TypeOK'
  BY <1>1 DEF Start, nextID, MessageCount, opIds, Goto, Ids
<1>2. ASSUME NEW c \in Calls, ProcReturn(c) PROVE TypeOK'
  BY <1>2 DEF ProcReturn, Goto
<1>3. ASSUME NEW c \in Calls, SendQuit(c) PROVE TypeOK'
  BY <1>3 DEF SendQuit, Goto, Return
<1>4. ASSUME NEW c \in Calls, WriteOk(c) PROVE TypeOK'
  BY <1>4 DEF WriteOk, Goto
<1>5. ASSUME NEW c \in Calls, WriteFail(c) PROVE TypeOK'
  BY <1>5 DEF WriteFail, Goto
<1>6. ASSUME NEW c \in Calls, Dial(c) PROVE TypeOK'
  <2>1. dialed' \in Conns BY <1>6 DEF Dial, Conns
  <2>2. result' \in [Calls -> {"none", "ok", "failed", "answer", "ctx"} \cup Errs] /\ pc' \in [Calls -> PCs]
    BY <1>6 DEF Dial, Goto
  <2> QED BY <1>6, <2>1, <2>2 DEF Dial
<1>7. ASSUME NEW c \in Calls, OfferAbort(c) PROVE TypeOK'
  BY <1>7 DEF OfferAbort, Goto
<1>8. ASSUME NEW c \in Calls, Report(c) PROVE TypeOK'
  BY <1>8 DEF Report, Goto, ReportInv
<1>9. ASSUME NEW c \in Calls, Receive(c) PROVE TypeOK'
  BY <1>9 DEF Receive, Goto, Return
<1>10. ASSUME NEW c \in Calls, TimeoutAbort(c) PROVE TypeOK'
  BY <1>10 DEF TimeoutAbort, Goto, Return
<1>11. ASSUME NEW c \in Calls, SendCtx(c) PROVE TypeOK'
  BY <1>11 DEF SendCtx, Goto, Return
<1>12. ASSUME NEW c \in Calls, WaitCtx(c) PROVE TypeOK'
  BY <1>12 DEF WaitCtx, Goto
<1>13. ASSUME NEW c \in Calls, DispatchReconnected(c) PROVE TypeOK'
  <2>1. pc' \in [Calls -> PCs] /\ writeConn' \in Conns \cup {0} /\ newConn' \in Conns \cup {0}
    BY <1>13 DEF DispatchReconnected, Goto
  <2>2. CASE reading
    BY <1>13, <2>1, <2>2 DEF DispatchReconnected, cancelAllRequests, EmptyWait
  <2>3. CASE ~reading
    BY <1>13, <2>1, <2>3, InstallType DEF DispatchReconnected, Install
  <2> QED BY <2>2, <2>3
<1>14. ASSUME NEW c \in Calls, DispatchReqInit(c) PROVE TypeOK'
  BY <1>14 DEF DispatchReqInit, Goto, addRequestOp
<1>15. ASSUME NEW c \in Calls, DispatchReqTimeout(c) PROVE TypeOK'
  BY <1>15 DEF DispatchReqTimeout, Goto, Return, removeRequestOp
<1>16. ASSUME NEW n \in Conns, ReadResponse(n) PROVE TypeOK'
  BY <1>16 DEF ReadResponse, Response, Messages
<1>17. ASSUME NEW n \in Conns, ReadCall(n) PROVE TypeOK'
  BY <1>17 DEF ReadCall, Request, Messages
<1>18. ASSUME NEW n \in Conns, ReadFail(n) PROVE TypeOK'
  BY <1>18 DEF ReadFail
<1>19. ASSUME NEW n \in Conns, DispatchReadOp(n) PROVE TypeOK'
  <2>1. HandOver(n) BY <1>19 DEF DispatchReadOp
  <2>2. CASE readMsg[n].type = "call"
    BY <1>19, <2>1, <2>2, HandOverType DEF DispatchReadOp, Goto
  <2>3. CASE readMsg[n].type # "call"
    <3>1. readMsg[n].of \in Calls \cup {NoOp} BY DEF Messages
    <3>2. /\ respBuf' \in [Calls -> Calls \cup {NoOp}] /\ hadResponse' \subseteq Calls
          /\ respWait' \in [Ids -> Calls \cup {NoOp}] /\ pc' \in [Calls -> PCs]
      <4>1. readMsg[n].ids \subseteq Ids BY DEF Messages
      <4> QED BY <1>19, <2>3, <3>1, <4>1 DEF DispatchReadOp, handleResponses
    <3> QED BY <1>19, <2>1, <3>2, HandOverType DEF DispatchReadOp
  <2> QED BY <2>2, <2>3
<1>20. ASSUME NEW n \in Conns, DispatchReadErr(n) PROVE TypeOK'
  <2>1. HandOverError(n) BY <1>20 DEF DispatchReadErr
  <2> QED BY <1>20, <2>1, HandOverType DEF DispatchReadErr, cancelAllRequests, EmptyWait
<1>21. ASSUME NEW n \in Conns, DrainOp(n) PROVE TypeOK'
  BY <1>21, HandOverType DEF DrainOp
<1>22. ASSUME NEW n \in Conns, DrainErr(n) PROVE TypeOK'
  <2>1. CASE why = "quit"
    BY <1>22, <2>1 DEF DrainErr
  <2>2. CASE why # "quit"
    BY <1>22, <2>2, InstallType DEF DrainErr, CloseInv
  <2> QED BY <2>1, <2>2
<1>23. ASSUME CloseCall PROVE TypeOK'
  BY <1>23 DEF CloseCall
<1>24. ASSUME CloseReturn PROVE TypeOK'
  BY <1>24 DEF CloseReturn
<1>25. ASSUME ServerStop PROVE TypeOK'
  BY <1>25 DEF ServerStop
<1>26. ASSUME DispatchClose PROVE TypeOK'
  BY <1>26 DEF DispatchClose, cancelAllRequests, EmptyWait
<1>27. ASSUME DispatchReqSent PROVE TypeOK'
  BY <1>27 DEF DispatchReqSent, removeRequestOp
<1>28. ASSUME CallsDone PROVE TypeOK'
  BY <1>28 DEF CallsDone
<1>29. CASE UNCHANGED vars BY <1>29 DEF vars
<1> QED
  BY <1>1, <1>2, <1>3, <1>4, <1>5, <1>6, <1>7, <1>8, <1>9, <1>10, <1>11, <1>12, <1>13, <1>14, <1>15, <1>16, <1>17, <1>18, <1>19, <1>20, <1>21, <1>22, <1>23, <1>24, <1>25, <1>26, <1>27, <1>28, <1>29
  DEF Next, CallerStep, ContextEnds, Dispatch, Read, Finished, vars

\* Every write or dial ends in success or failure before it is reported.
LEMMA ReportInvStep == ASSUME ReportInv, TypeOK, [Next]_vars PROVE ReportInv'
<1> USE ConstantsAssumption DEF callVars, opVars, dispVars, netVars, writeVars, ReportInv, TypeOK
<1>1. ASSUME NEW c \in Calls, Start(c) PROVE ReportInv'
  BY <1>1 DEF Start, Goto
<1>2. ASSUME NEW c \in Calls, ProcReturn(c) PROVE ReportInv'
  BY <1>2 DEF ProcReturn, Goto
<1>3. ASSUME NEW c \in Calls, SendQuit(c) PROVE ReportInv'
  BY <1>3 DEF SendQuit, Goto, Return
<1>4. ASSUME NEW c \in Calls, WriteOk(c) PROVE ReportInv'
  BY <1>4 DEF WriteOk, Goto
<1>5. ASSUME NEW c \in Calls, WriteFail(c) PROVE ReportInv'
  BY <1>5 DEF WriteFail, Goto
<1>6. ASSUME NEW c \in Calls, Dial(c) PROVE ReportInv'
  BY <1>6 DEF Dial, Goto
<1>7. ASSUME NEW c \in Calls, OfferAbort(c) PROVE ReportInv'
  BY <1>7 DEF OfferAbort, Goto
<1>8. ASSUME NEW c \in Calls, Report(c) PROVE ReportInv'
  BY <1>8 DEF Report, Goto
<1>9. ASSUME NEW c \in Calls, Receive(c) PROVE ReportInv'
  BY <1>9 DEF Receive, Goto, Return
<1>10. ASSUME NEW c \in Calls, TimeoutAbort(c) PROVE ReportInv'
  BY <1>10 DEF TimeoutAbort, Goto, Return
<1>11. ASSUME NEW c \in Calls, SendCtx(c) PROVE ReportInv'
  BY <1>11 DEF SendCtx, Goto, Return
<1>12. ASSUME NEW c \in Calls, WaitCtx(c) PROVE ReportInv'
  BY <1>12 DEF WaitCtx, Goto
<1>13. ASSUME NEW c \in Calls, DispatchReconnected(c) PROVE ReportInv'
  BY <1>13 DEF DispatchReconnected, Goto, Install, cancelAllRequests, addRequestOp, EmptyWait
<1>14. ASSUME NEW c \in Calls, DispatchReqInit(c) PROVE ReportInv'
  BY <1>14 DEF DispatchReqInit, Goto, addRequestOp
<1>15. ASSUME NEW c \in Calls, DispatchReqTimeout(c) PROVE ReportInv'
  BY <1>15 DEF DispatchReqTimeout, Goto, Return, removeRequestOp
<1>16. ASSUME NEW n \in Conns, DispatchReadOp(n) PROVE ReportInv'
  BY <1>16 DEF DispatchReadOp, Goto, HandOver, handleResponses
<1>17. CASE UNCHANGED <<pc, result>> BY <1>17
<1> QED
  BY <1>1, <1>2, <1>3, <1>4, <1>5, <1>6, <1>7, <1>8, <1>9, <1>10, <1>11, <1>12, <1>13, <1>14, <1>15, <1>16, <1>17
  DEF Next, CallerStep, ContextEnds, Dispatch, Read, Finished, vars,
      ReadResponse, ReadCall, ReadFail, DispatchReadErr, DrainOp, DrainErr, CloseCall, CloseReturn, ServerStop, DispatchClose, DispatchReqSent, CallsDone

\* The write lock changes hands only through reqInit and reqSent.
LEMMA LockInvStep == ASSUME LockInv, TypeOK, [Next]_vars PROVE LockInv'
<1> USE ConstantsAssumption DEF callVars, opVars, dispVars, netVars, writeVars, LockInv, TypeOK, WriteLock, HoldsLock
<1>1. ASSUME NEW c \in Calls, Start(c) PROVE LockInv'
  BY <1>1 DEF Start, Goto
<1>2. ASSUME NEW c \in Calls, ProcReturn(c) PROVE LockInv'
  BY <1>2 DEF ProcReturn, Goto
<1>3. ASSUME NEW c \in Calls, SendQuit(c) PROVE LockInv'
  BY <1>3 DEF SendQuit, Goto, Return
<1>4. ASSUME NEW c \in Calls, WriteOk(c) PROVE LockInv'
  BY <1>4 DEF WriteOk, Goto
<1>5. ASSUME NEW c \in Calls, WriteFail(c) PROVE LockInv'
  BY <1>5 DEF WriteFail, Goto
<1>6. ASSUME NEW c \in Calls, Dial(c) PROVE LockInv'
  BY <1>6 DEF Dial, Goto
<1>7. ASSUME NEW c \in Calls, OfferAbort(c) PROVE LockInv'
  BY <1>7 DEF OfferAbort, Goto
<1>8. ASSUME NEW c \in Calls, Report(c) PROVE LockInv'
  BY <1>8 DEF Report, Goto
<1>9. ASSUME NEW c \in Calls, Receive(c) PROVE LockInv'
  BY <1>9 DEF Receive, Goto, Return
<1>10. ASSUME NEW c \in Calls, TimeoutAbort(c) PROVE LockInv'
  BY <1>10 DEF TimeoutAbort, Goto, Return
<1>11. ASSUME NEW c \in Calls, SendCtx(c) PROVE LockInv'
  BY <1>11 DEF SendCtx, Goto, Return
<1>12. ASSUME NEW c \in Calls, WaitCtx(c) PROVE LockInv'
  BY <1>12 DEF WaitCtx, Goto
<1>13. ASSUME NEW c \in Calls, DispatchReconnected(c) PROVE LockInv'
  BY <1>13 DEF DispatchReconnected, Goto, Install, cancelAllRequests, addRequestOp, EmptyWait
<1>14. ASSUME NEW c \in Calls, DispatchReqInit(c) PROVE LockInv'
  BY <1>14 DEF DispatchReqInit, Goto, addRequestOp
<1>15. ASSUME NEW c \in Calls, DispatchReqTimeout(c) PROVE LockInv'
  BY <1>15 DEF DispatchReqTimeout, Goto, Return, removeRequestOp
<1>16. ASSUME NEW n \in Conns, DispatchReadOp(n) PROVE LockInv'
  BY <1>16 DEF DispatchReadOp, Goto, HandOver, handleResponses
<1>17. ASSUME DispatchReqSent PROVE LockInv'
  BY <1>17 DEF DispatchReqSent, removeRequestOp
<1>18. CASE UNCHANGED <<pc, locked, lastOp, reqSent>> BY <1>18
<1> QED
  BY <1>1, <1>2, <1>3, <1>4, <1>5, <1>6, <1>7, <1>8, <1>9, <1>10, <1>11, <1>12, <1>13, <1>14, <1>15, <1>16, <1>17, <1>18
  DEF Next, CallerStep, ContextEnds, Dispatch, Read, Finished, vars,
      ReadResponse, ReadCall, ReadFail, DispatchReadErr, DrainOp, DrainErr, CloseCall, CloseReturn, ServerStop, DispatchClose, CallsDone

\* Closing a connection for a reason, and with a successor where one is due.
LEMMA CloseInvStep == ASSUME CloseInv, TypeOK, [Next]_vars PROVE CloseInv'
<1> USE ConstantsAssumption DEF callVars, opVars, dispVars, netVars, writeVars, CloseInv, TypeOK
<1>1. ASSUME NEW c \in Calls, OfferAbort(c) PROVE CloseInv'
  BY <1>1 DEF OfferAbort, Goto
<1>2. ASSUME NEW c \in Calls, DispatchReconnected(c) PROVE CloseInv'
  BY <1>2 DEF DispatchReconnected, Goto, Install, cancelAllRequests, addRequestOp, EmptyWait
<1>3. ASSUME NEW n \in Conns, DispatchReadErr(n) PROVE CloseInv'
  BY <1>3 DEF DispatchReadErr, HandOverError, cancelAllRequests, EmptyWait
<1>4. ASSUME NEW n \in Conns, DrainErr(n) PROVE CloseInv'
  BY <1>4 DEF DrainErr, addRequestOp, EmptyWait
<1>5. ASSUME ServerStop PROVE CloseInv'
  BY <1>5 DEF ServerStop
<1>6. ASSUME DispatchClose PROVE CloseInv'
  BY <1>6 DEF DispatchClose, cancelAllRequests, EmptyWait
<1>7. ASSUME CallsDone PROVE CloseInv'
  <2>1. CASE why = "lost" BY <1>7, <2>1 DEF CallsDone
  <2>2. CASE why # "lost" BY <1>7, <2>2 DEF CallsDone, Errs
  <2> QED BY <2>1, <2>2
<1>8. CASE UNCHANGED <<dpc, why, newConn, reading, closed, conn>> BY <1>8
<1> QED
  BY <1>1, <1>2, <1>3, <1>4, <1>5, <1>6, <1>7, <1>8
  DEF Next, CallerStep, ContextEnds, Dispatch, Read, Finished, vars,
      Start, ProcReturn, SendQuit, WriteOk, WriteFail, Dial, Report, Receive, TimeoutAbort, SendCtx, WaitCtx, DispatchReqInit, DispatchReqTimeout, ReadResponse, ReadCall, ReadFail, DispatchReadOp, DrainOp, CloseCall, CloseReturn, DispatchReqSent

\* Read loops keep method calls apart and unstarted.
LEMMA CallMsgInvStep == ASSUME CallMsgInv, TypeOK, [Next]_vars PROVE CallMsgInv'
<1> USE ConstantsAssumption DEF callVars, opVars, dispVars, netVars, writeVars, CallMsgInv, TypeOK, NoMsg, Messages
<1>1. ASSUME NEW c \in Calls, Start(c) PROVE CallMsgInv'
  BY <1>1 DEF Start, Goto
<1>2. ASSUME NEW c \in Calls, ProcReturn(c) PROVE CallMsgInv'
  BY <1>2 DEF ProcReturn, Goto
<1>3. ASSUME NEW c \in Calls, SendQuit(c) PROVE CallMsgInv'
  BY <1>3 DEF SendQuit, Goto, Return
<1>4. ASSUME NEW c \in Calls, WriteOk(c) PROVE CallMsgInv'
  BY <1>4 DEF WriteOk, Goto
<1>5. ASSUME NEW c \in Calls, WriteFail(c) PROVE CallMsgInv'
  BY <1>5 DEF WriteFail, Goto
<1>6. ASSUME NEW c \in Calls, Dial(c) PROVE CallMsgInv'
  BY <1>6 DEF Dial, Goto
<1>7. ASSUME NEW c \in Calls, OfferAbort(c) PROVE CallMsgInv'
  BY <1>7 DEF OfferAbort, Goto
<1>8. ASSUME NEW c \in Calls, Report(c) PROVE CallMsgInv'
  BY <1>8 DEF Report, Goto
<1>9. ASSUME NEW c \in Calls, Receive(c) PROVE CallMsgInv'
  BY <1>9 DEF Receive, Goto, Return
<1>10. ASSUME NEW c \in Calls, TimeoutAbort(c) PROVE CallMsgInv'
  BY <1>10 DEF TimeoutAbort, Goto, Return
<1>11. ASSUME NEW c \in Calls, SendCtx(c) PROVE CallMsgInv'
  BY <1>11 DEF SendCtx, Goto, Return
<1>12. ASSUME NEW c \in Calls, WaitCtx(c) PROVE CallMsgInv'
  BY <1>12 DEF WaitCtx, Goto
<1>13. ASSUME NEW c \in Calls, DispatchReconnected(c) PROVE CallMsgInv'
  BY <1>13 DEF DispatchReconnected, Goto, Install, cancelAllRequests, addRequestOp, EmptyWait
<1>14. ASSUME NEW c \in Calls, DispatchReqInit(c) PROVE CallMsgInv'
  BY <1>14 DEF DispatchReqInit, Goto, addRequestOp
<1>15. ASSUME NEW c \in Calls, DispatchReqTimeout(c) PROVE CallMsgInv'
  BY <1>15 DEF DispatchReqTimeout, Goto, Return, removeRequestOp
<1>16. ASSUME NEW n \in Conns, ReadResponse(n) PROVE CallMsgInv'
  BY <1>16 DEF ReadResponse, Response
<1>17. ASSUME NEW n \in Conns, ReadCall(n) PROVE CallMsgInv'
  BY <1>17 DEF ReadCall, Request
<1>18. ASSUME NEW n \in Conns, DispatchReadOp(n) PROVE CallMsgInv'
  BY <1>18 DEF DispatchReadOp, Goto, HandOver, handleResponses
<1>19. ASSUME NEW n \in Conns, DrainOp(n) PROVE CallMsgInv'
  BY <1>19 DEF DrainOp, HandOver
<1>20. CASE UNCHANGED <<readMsg, pc>> BY <1>20
<1> QED
  BY <1>1, <1>2, <1>3, <1>4, <1>5, <1>6, <1>7, <1>8, <1>9, <1>10, <1>11, <1>12, <1>13, <1>14, <1>15, <1>16, <1>17, <1>18, <1>19, <1>20
  DEF Next, CallerStep, ContextEnds, Dispatch, Read, Finished, vars,
      ReadFail, DispatchReadErr, DrainErr, CloseCall, CloseReturn, ServerStop, DispatchClose, DispatchReqSent, CallsDone, HandOverError

\* Requests become known to dispatch through reqInit only.
LEMMA FreshInvStep == ASSUME FreshInv, TypeOK, LockInv, CallMsgInv, [Next]_vars PROVE FreshInv'
<1> USE ConstantsAssumption DEF callVars, opVars, dispVars, netVars, writeVars, FreshInv, TypeOK, Fresh, Registered, CallMsgInv, Messages
<1>1. ASSUME NEW c \in Calls, Start(c) PROVE FreshInv'
  BY <1>1 DEF Start, Goto
<1>2. ASSUME NEW c \in Calls, ProcReturn(c) PROVE FreshInv'
  BY <1>2 DEF ProcReturn, Goto
<1>3. ASSUME NEW c \in Calls, SendQuit(c) PROVE FreshInv'
  BY <1>3 DEF SendQuit, Goto, Return
<1>4. ASSUME NEW c \in Calls, WriteOk(c) PROVE FreshInv'
  BY <1>4 DEF WriteOk, Goto
<1>5. ASSUME NEW c \in Calls, WriteFail(c) PROVE FreshInv'
  BY <1>5 DEF WriteFail, Goto
<1>6. ASSUME NEW c \in Calls, Dial(c) PROVE FreshInv'
  BY <1>6 DEF Dial, Goto
<1>7. ASSUME NEW c \in Calls, OfferAbort(c) PROVE FreshInv'
  BY <1>7 DEF OfferAbort, Goto
<1>8. ASSUME NEW c \in Calls, Report(c) PROVE FreshInv'
  BY <1>8 DEF Report, Goto
<1>9. ASSUME NEW c \in Calls, Receive(c) PROVE FreshInv'
  BY <1>9 DEF Receive, Goto, Return
<1>10. ASSUME NEW c \in Calls, TimeoutAbort(c) PROVE FreshInv'
  BY <1>10 DEF TimeoutAbort, Goto, Return
<1>11. ASSUME NEW c \in Calls, SendCtx(c) PROVE FreshInv'
  BY <1>11 DEF SendCtx, Goto, Return
<1>12. ASSUME NEW c \in Calls, WaitCtx(c) PROVE FreshInv'
  BY <1>12 DEF WaitCtx, Goto
<1>13. ASSUME NEW c \in Calls, DispatchReconnected(c) PROVE FreshInv'
  BY <1>13 DEF DispatchReconnected, Goto, Install, cancelAllRequests, addRequestOp, EmptyWait
<1>14. ASSUME NEW c \in Calls, DispatchReqInit(c) PROVE FreshInv'
  BY <1>14 DEF DispatchReqInit, Goto, addRequestOp
<1>15. ASSUME NEW c \in Calls, DispatchReqTimeout(c) PROVE FreshInv'
  BY <1>15 DEF DispatchReqTimeout, Goto, Return, removeRequestOp
<1>16. ASSUME NEW n \in Conns, DispatchReadOp(n) PROVE FreshInv'
  <2>1. CASE readMsg[n].type = "call"
    BY <1>16, <2>1 DEF DispatchReadOp, Goto
  <2>2. CASE readMsg[n].type # "call"
    BY <1>16, <2>2 DEF DispatchReadOp, handleResponses
  <2> QED BY <2>1, <2>2
<1>17. ASSUME NEW n \in Conns, DispatchReadErr(n) PROVE FreshInv'
  BY <1>17 DEF DispatchReadErr, HandOverError, cancelAllRequests, EmptyWait
<1>18. ASSUME NEW n \in Conns, DrainErr(n) PROVE FreshInv'
  BY <1>18 DEF DrainErr, addRequestOp, EmptyWait
<1>19. ASSUME DispatchClose PROVE FreshInv'
  BY <1>19 DEF DispatchClose, cancelAllRequests, EmptyWait
<1>20. ASSUME DispatchReqSent PROVE FreshInv'
  BY <1>20 DEF DispatchReqSent, removeRequestOp
<1>21. CASE UNCHANGED <<pc, respClosed, respBuf, respWait, lastOp>> BY <1>21
<1> QED
  BY <1>1, <1>2, <1>3, <1>4, <1>5, <1>6, <1>7, <1>8, <1>9, <1>10, <1>11, <1>12, <1>13, <1>14, <1>15, <1>16, <1>17, <1>18, <1>19, <1>20, <1>21
  DEF Next, CallerStep, ContextEnds, Dispatch, Read, Finished, vars,
      ReadResponse, ReadCall, ReadFail, DrainOp, CloseCall, CloseReturn, ServerStop, CallsDone

\* cancelAllRequests spares lastOp unless the client quits.
LEMMA LastOpInvStep == ASSUME LastOpInv, TypeOK, FreshInv, [Next]_vars PROVE LastOpInv'
<1> USE ConstantsAssumption DEF callVars, opVars, dispVars, netVars, writeVars, LastOpInv, TypeOK, FreshInv, Fresh
<1>1. ASSUME NEW c \in Calls, DispatchReconnected(c) PROVE LastOpInv'
  BY <1>1 DEF DispatchReconnected, Goto, Install, cancelAllRequests, addRequestOp, EmptyWait
<1>2. ASSUME NEW c \in Calls, DispatchReqInit(c) PROVE LastOpInv'
  BY <1>2 DEF DispatchReqInit, Goto, addRequestOp
<1>3. ASSUME NEW n \in Conns, DispatchReadErr(n) PROVE LastOpInv'
  BY <1>3 DEF DispatchReadErr, HandOverError, cancelAllRequests, EmptyWait
<1>4. ASSUME NEW n \in Conns, DrainErr(n) PROVE LastOpInv'
  BY <1>4 DEF DrainErr, addRequestOp, EmptyWait
<1>5. ASSUME DispatchClose PROVE LastOpInv'
  BY <1>5 DEF DispatchClose, cancelAllRequests, EmptyWait
<1>6. ASSUME DispatchReqSent PROVE LastOpInv'
  BY <1>6 DEF DispatchReqSent, removeRequestOp
<1>7. ASSUME CallsDone PROVE LastOpInv'
  BY <1>7 DEF CallsDone
<1>8. CASE UNCHANGED <<lastOp, respClosed, dpc, why>> BY <1>8
<1> QED
  BY <1>1, <1>2, <1>3, <1>4, <1>5, <1>6, <1>7, <1>8
  DEF Next, CallerStep, ContextEnds, Dispatch, Read, Finished, vars,
      Start, ProcReturn, SendQuit, WriteOk, WriteFail, Dial, OfferAbort, Report, Receive, TimeoutAbort, SendCtx, WaitCtx, DispatchReqTimeout, ReadResponse, ReadCall, ReadFail, DispatchReadOp, DrainOp, CloseCall, CloseReturn, ServerStop

\* hadResponse is set with the first answer.
LEMMA AnswerInvStep == ASSUME AnswerInv, TypeOK, [Next]_vars PROVE AnswerInv'
<1> USE ConstantsAssumption DEF callVars, opVars, dispVars, netVars, writeVars, AnswerInv, TypeOK
<1>1. ASSUME NEW c \in Calls, Receive(c) PROVE AnswerInv'
  BY <1>1 DEF Receive, Goto, Return
<1>2. ASSUME NEW n \in Conns, DispatchReadOp(n) PROVE AnswerInv'
  BY <1>2 DEF DispatchReadOp, Goto, HandOver, handleResponses
<1>3. CASE UNCHANGED <<respBuf, hadResponse>> BY <1>3
<1> QED
  BY <1>1, <1>2, <1>3
  DEF Next, CallerStep, ContextEnds, Dispatch, Read, Finished, vars,
      Start, ProcReturn, SendQuit, WriteOk, WriteFail, Dial, OfferAbort, Report, TimeoutAbort, SendCtx, WaitCtx, DispatchReconnected, DispatchReqInit, DispatchReqTimeout, ReadResponse, ReadCall, ReadFail, DispatchReadErr, DrainOp, DrainErr, CloseCall, CloseReturn, ServerStop, DispatchClose, DispatchReqSent, CallsDone

\* Registering (DispatchReqInit, Install, DrainErr) finds an open channel; closing
\* (cancelAllRequests) empties the table.
LEMMA RespChanSafeStep == ASSUME RespChanSafe, TypeOK, FreshInv, LastOpInv, AnswerInv, [Next]_vars PROVE RespChanSafe'
<1> USE ConstantsAssumption DEF callVars, opVars, dispVars, netVars, writeVars, RespChanSafe, TypeOK, FreshInv, Fresh, LastOpInv, AnswerInv, Registered
<1>1. ASSUME NEW c \in Calls, Receive(c) PROVE RespChanSafe'
  BY <1>1 DEF Receive, Goto, Return
<1>2. ASSUME NEW c \in Calls, DispatchReconnected(c) PROVE RespChanSafe'
  BY <1>2 DEF DispatchReconnected, Goto, Install, cancelAllRequests, addRequestOp, EmptyWait
<1>3. ASSUME NEW c \in Calls, DispatchReqInit(c) PROVE RespChanSafe'
  BY <1>3 DEF DispatchReqInit, Goto, addRequestOp
<1>4. ASSUME NEW c \in Calls, DispatchReqTimeout(c) PROVE RespChanSafe'
  BY <1>4 DEF DispatchReqTimeout, Goto, Return, removeRequestOp
<1>5. ASSUME NEW n \in Conns, DispatchReadOp(n) PROVE RespChanSafe'
  BY <1>5 DEF DispatchReadOp, Goto, HandOver, handleResponses
<1>6. ASSUME NEW n \in Conns, DispatchReadErr(n) PROVE RespChanSafe'
  BY <1>6 DEF DispatchReadErr, HandOverError, cancelAllRequests, EmptyWait
<1>7. ASSUME NEW n \in Conns, DrainErr(n) PROVE RespChanSafe'
  BY <1>7 DEF DrainErr, addRequestOp, EmptyWait
<1>8. ASSUME DispatchClose PROVE RespChanSafe'
  BY <1>8 DEF DispatchClose, cancelAllRequests, EmptyWait
<1>9. ASSUME DispatchReqSent PROVE RespChanSafe'
  BY <1>9 DEF DispatchReqSent, removeRequestOp
<1>10. CASE UNCHANGED <<respWait, respClosed, hadResponse, respBuf>> BY <1>10
<1> QED
  BY <1>1, <1>2, <1>3, <1>4, <1>5, <1>6, <1>7, <1>8, <1>9, <1>10
  DEF Next, CallerStep, ContextEnds, Dispatch, Read, Finished, vars,
      Start, ProcReturn, SendQuit, WriteOk, WriteFail, Dial, OfferAbort, Report, TimeoutAbort, SendCtx, WaitCtx, ReadResponse, ReadCall, ReadFail, DrainOp, CloseCall, CloseReturn, ServerStop, CallsDone

\* A read loop is started only after the previous one has handed over its error.
LEMMA OneReaderStep == ASSUME OneReader, TypeOK, LostInv, CloseInv, [Next]_vars PROVE OneReader'
<1> USE ConstantsAssumption DEF callVars, opVars, dispVars, netVars, writeVars, OneReader, TypeOK, LostInv, Live, CloseInv
<1>1. ASSUME NEW c \in Calls, DispatchReconnected(c) PROVE OneReader'
  BY <1>1 DEF DispatchReconnected, Goto, Install, cancelAllRequests, addRequestOp, EmptyWait
<1>2. ASSUME NEW n \in Conns, ReadResponse(n) PROVE OneReader'
  BY <1>2 DEF ReadResponse, Response
<1>3. ASSUME NEW n \in Conns, ReadCall(n) PROVE OneReader'
  BY <1>3 DEF ReadCall, Request
<1>4. ASSUME NEW n \in Conns, ReadFail(n) PROVE OneReader'
  BY <1>4 DEF ReadFail
<1>5. ASSUME NEW n \in Conns, DispatchReadOp(n) PROVE OneReader'
  BY <1>5 DEF DispatchReadOp, Goto, HandOver, handleResponses
<1>6. ASSUME NEW n \in Conns, DispatchReadErr(n) PROVE OneReader'
  BY <1>6 DEF DispatchReadErr, HandOverError, cancelAllRequests, EmptyWait
<1>7. ASSUME NEW n \in Conns, DrainOp(n) PROVE OneReader'
  BY <1>7 DEF DrainOp, HandOver
<1>8. ASSUME NEW n \in Conns, DrainErr(n) PROVE OneReader'
  BY <1>8 DEF DrainErr, addRequestOp, EmptyWait
<1>9. ASSUME DispatchClose PROVE OneReader'
  BY <1>9 DEF DispatchClose, cancelAllRequests, EmptyWait
<1>10. ASSUME CallsDone PROVE OneReader'
  BY <1>10 DEF CallsDone
<1>11. CASE UNCHANGED <<reader, conn, reading, dpc>> BY <1>11
<1> QED
  BY <1>1, <1>2, <1>3, <1>4, <1>5, <1>6, <1>7, <1>8, <1>9, <1>10, <1>11
  DEF Next, CallerStep, ContextEnds, Dispatch, Read, Finished, vars,
      Start, ProcReturn, SendQuit, WriteOk, WriteFail, Dial, OfferAbort, Report, Receive, TimeoutAbort, SendCtx, WaitCtx, DispatchReqInit, DispatchReqTimeout, CloseCall, CloseReturn, ServerStop, DispatchReqSent

\* The read loop whose error dispatch handles has ended, and no other was running.
LEMMA LostInvStep == ASSUME LostInv, TypeOK, OneReader, [Next]_vars PROVE LostInv'
<1> USE ConstantsAssumption DEF callVars, opVars, dispVars, netVars, writeVars, OneReader, TypeOK, LostInv, Live
<1>1. ASSUME NEW c \in Calls, DispatchReconnected(c) PROVE LostInv'
  BY <1>1 DEF DispatchReconnected, Goto, Install, cancelAllRequests, addRequestOp, EmptyWait
<1>2. ASSUME NEW n \in Conns, ReadResponse(n) PROVE LostInv'
  BY <1>2 DEF ReadResponse, Response
<1>3. ASSUME NEW n \in Conns, ReadCall(n) PROVE LostInv'
  BY <1>3 DEF ReadCall, Request
<1>4. ASSUME NEW n \in Conns, ReadFail(n) PROVE LostInv'
  BY <1>4 DEF ReadFail
<1>5. ASSUME NEW n \in Conns, DispatchReadOp(n) PROVE LostInv'
  BY <1>5 DEF DispatchReadOp, Goto, HandOver, handleResponses
<1>6. ASSUME NEW n \in Conns, DispatchReadErr(n) PROVE LostInv'
  BY <1>6 DEF DispatchReadErr, HandOverError, cancelAllRequests, EmptyWait
<1>7. ASSUME NEW n \in Conns, DrainOp(n) PROVE LostInv'
  BY <1>7 DEF DrainOp, HandOver
<1>8. ASSUME NEW n \in Conns, DrainErr(n) PROVE LostInv'
  BY <1>8 DEF DrainErr, addRequestOp, EmptyWait
<1>9. ASSUME DispatchClose PROVE LostInv'
  BY <1>9 DEF DispatchClose, cancelAllRequests, EmptyWait
<1>10. ASSUME CallsDone PROVE LostInv'
  BY <1>10 DEF CallsDone
<1>11. CASE UNCHANGED <<dpc, why, reader>> BY <1>11
<1> QED
  BY <1>1, <1>2, <1>3, <1>4, <1>5, <1>6, <1>7, <1>8, <1>9, <1>10, <1>11
  DEF Next, CallerStep, ContextEnds, Dispatch, Read, Finished, vars,
      Start, ProcReturn, SendQuit, WriteOk, WriteFail, Dial, OfferAbort, Report, Receive, TimeoutAbort, SendCtx, WaitCtx, DispatchReqInit, DispatchReqTimeout, CloseCall, CloseReturn, ServerStop, DispatchReqSent

\* A connection leaves use only once closed; the write lock makes the offered one unique.
LEMMA ConnsAccountedStep == ASSUME ConnsAccounted, TypeOK, LockInv, CloseInv, CallMsgInv, [Next]_vars PROVE ConnsAccounted'
<1> USE ConstantsAssumption DEF callVars, opVars, dispVars, netVars, writeVars, ConnsAccounted, TypeOK, LockInv, WriteLock, HoldsLock, CloseInv, CallMsgInv, Offered, Conns
<1>1. ASSUME NEW c \in Calls, Start(c) PROVE ConnsAccounted'
  BY <1>1 DEF Start, Goto
<1>2. ASSUME NEW c \in Calls, ProcReturn(c) PROVE ConnsAccounted'
  BY <1>2 DEF ProcReturn, Goto
<1>3. ASSUME NEW c \in Calls, SendQuit(c) PROVE ConnsAccounted'
  BY <1>3 DEF SendQuit, Goto, Return
<1>4. ASSUME NEW c \in Calls, WriteOk(c) PROVE ConnsAccounted'
  BY <1>4 DEF WriteOk, Goto
<1>5. ASSUME NEW c \in Calls, WriteFail(c) PROVE ConnsAccounted'
  BY <1>5 DEF WriteFail, Goto
<1>6. ASSUME NEW c \in Calls, Dial(c) PROVE ConnsAccounted'
  BY <1>6 DEF Dial, Goto
<1>7. ASSUME NEW c \in Calls, OfferAbort(c) PROVE ConnsAccounted'
  BY <1>7 DEF OfferAbort, Goto
<1>8. ASSUME NEW c \in Calls, Report(c) PROVE ConnsAccounted'
  BY <1>8 DEF Report, Goto
<1>9. ASSUME NEW c \in Calls, Receive(c) PROVE ConnsAccounted'
  BY <1>9 DEF Receive, Goto, Return
<1>10. ASSUME NEW c \in Calls, TimeoutAbort(c) PROVE ConnsAccounted'
  BY <1>10 DEF TimeoutAbort, Goto, Return
<1>11. ASSUME NEW c \in Calls, SendCtx(c) PROVE ConnsAccounted'
  BY <1>11 DEF SendCtx, Goto, Return
<1>12. ASSUME NEW c \in Calls, WaitCtx(c) PROVE ConnsAccounted'
  BY <1>12 DEF WaitCtx, Goto
<1>13. ASSUME NEW c \in Calls, DispatchReconnected(c) PROVE ConnsAccounted'
  BY <1>13 DEF DispatchReconnected, Goto, Install, cancelAllRequests, addRequestOp, EmptyWait
<1>14. ASSUME NEW c \in Calls, DispatchReqInit(c) PROVE ConnsAccounted'
  BY <1>14 DEF DispatchReqInit, Goto, addRequestOp
<1>15. ASSUME NEW c \in Calls, DispatchReqTimeout(c) PROVE ConnsAccounted'
  BY <1>15 DEF DispatchReqTimeout, Goto, Return, removeRequestOp
<1>16. ASSUME NEW n \in Conns, DispatchReadOp(n) PROVE ConnsAccounted'
  BY <1>16 DEF DispatchReadOp, Goto, HandOver, handleResponses
<1>17. ASSUME NEW n \in Conns, DispatchReadErr(n) PROVE ConnsAccounted'
  BY <1>17 DEF DispatchReadErr, HandOverError, cancelAllRequests, EmptyWait
<1>18. ASSUME NEW n \in Conns, DrainErr(n) PROVE ConnsAccounted'
  BY <1>18 DEF DrainErr, addRequestOp, EmptyWait
<1>19. ASSUME ServerStop PROVE ConnsAccounted'
  BY <1>19 DEF ServerStop
<1>20. ASSUME DispatchClose PROVE ConnsAccounted'
  BY <1>20 DEF DispatchClose, cancelAllRequests, EmptyWait
<1>21. ASSUME CallsDone PROVE ConnsAccounted'
  BY <1>21 DEF CallsDone
<1>22. CASE UNCHANGED <<dialed, closed, pc, dpc, conn, why, newConn>> BY <1>22
<1> QED
  BY <1>1, <1>2, <1>3, <1>4, <1>5, <1>6, <1>7, <1>8, <1>9, <1>10, <1>11, <1>12, <1>13, <1>14, <1>15, <1>16, <1>17, <1>18, <1>19, <1>20, <1>21, <1>22
  DEF Next, CallerStep, ContextEnds, Dispatch, Read, Finished, vars,
      ReadResponse, ReadCall, ReadFail, DrainOp, CloseCall, CloseReturn, DispatchReqSent

-----------------------------------------------------------------------------

\* The initial state satisfies the invariant.
LEMMA InitInv == Init => Inv
<1> SUFFICES ASSUME Init PROVE Inv
  OBVIOUS
<1> USE ConstantsAssumption DEF Init
<1>1. TypeOK
  <2>1. NoMsg \in Messages BY DEF NoMsg, Messages
  <2>2. 0 \in Ids /\ 1 \in Conns BY DEF Ids, Conns
  <2> QED BY <2>1, <2>2 DEF TypeOK, PCs, Errs
<1>2. ReportInv /\ LockInv /\ CloseInv /\ FreshInv /\ LastOpInv /\ AnswerInv /\ LostInv
  BY DEF ReportInv, LockInv, WriteLock, HoldsLock, CloseInv, FreshInv, Registered, LastOpInv, AnswerInv, LostInv
<1>3. CallMsgInv BY DEF CallMsgInv, NoMsg
<1>4. RespChanSafe BY DEF RespChanSafe
<1>5. OneReader BY DEF OneReader
<1>6. ConnsAccounted BY DEF ConnsAccounted
<1> QED BY <1>1, <1>2, <1>3, <1>4, <1>5, <1>6 DEF Inv

\* The invariant is inductive.
LEMMA StepInv == Inv /\ [Next]_vars => Inv'
  BY TypeStep, ReportInvStep, LockInvStep, CloseInvStep, CallMsgInvStep, FreshInvStep, LastOpInvStep,
     AnswerInvStep, RespChanSafeStep, OneReaderStep, LostInvStep, ConnsAccountedStep
  DEF Inv

\* Inv holds in every reachable state of every instance.
THEOREM Invariance == Spec => []Inv
  BY InitInv, StepInv, PTL DEF Spec

\* The variables keep their types.
THEOREM TypeCorrect == Spec => []TypeOK
<1>1. Inv => TypeOK BY DEF Inv
<1> QED BY Invariance, <1>1, PTL

\* The write lock of client.go:93-96: only the request that dispatch let in last
\* touches writeConn or reconnects, and its report on reqSent never blocks.
THEOREM WriteLockHolds == Spec => []WriteLock
<1>1. Inv => WriteLock BY DEF Inv, LockInv
<1> QED BY Invariance, <1>1, PTL

\* Dispatch never closes a response channel twice, sends on a closed one or
\* blocks on a full one (handler.go:354-361, 427-430), whatever the sequence of
\* answers, read errors, reconnections, timeouts and Close.
THEOREM RespChanSafeHolds == Spec => []RespChanSafe
<1>1. Inv => RespChanSafe BY DEF Inv
<1> QED BY Invariance, <1>1, PTL

\* No two read loops overlap (client.go:661-676).
THEOREM OneReaderHolds == Spec => []OneReader
<1>1. Inv => OneReader BY DEF Inv
<1> QED BY Invariance, <1>1, PTL

\* Reconnecting and closing leak no connection (client.go:603-616, 629-636).
THEOREM ConnsAccountedHolds == Spec => []ConnsAccounted
<1>1. Inv => ConnsAccounted BY DEF Inv
<1> QED BY Invariance, <1>1, PTL

=============================================================================
