-------------------------- MODULE ClientSubProofs --------------------------
(***************************************************************************)
(* Proofs about ClientSub, for any number of subscriptions, of goroutines  *)
(* that unsubscribe, of notifications and of new connections, and for any  *)
(* buffer limit: the forwarding goroutines use sub.err safely and panic    *)
(* only if a request was answered twice, and the user's channel gets what  *)
(* SubscriptionSpec promises.                                              *)
(***************************************************************************)
EXTENDS ClientSub, SequenceTheorems, TLAPS

\* Where run is once it has closed sub.forwardDone.
Ended == {"request", "write", "answer", "report", "finish", "done"}

\* The first forwarding goroutine of a subscription, and the second.
Run1(s) == run[<<s, 1>>]
Run2(s) == run[<<s, 2>>]
Buf(s)  == buffer[<<s, 1>>]

\* At most one of the two gets past close(sub.forwardDone); it reports an error
\* before it closes unsubDone, and sub.err is closed after that.
EndInv ==
  /\ \A s \in Subs :
     /\ Run1(s) \in Ended => Run2(s) \notin Ended
     /\ s \in forwardDone <=> Run1(s) \in Ended \/ Run2(s) \in Ended
     /\ s \in unsubDone => Run1(s) = "done" \/ Run2(s) = "done"
     /\ errBuf[s] # <<>> => Run1(s) \in {"finish", "done"} \/ Run2(s) \in {"finish", "done"}
     /\ s \in errClosed => s \in unsubDone
     /\ once[s] = "done" => s \in unsubDone
     /\ \A u \in Unsubscribers[s] : upc[<<s, u>>] = "done" => once[s] = "done"
  /\ crashed => \E s \in Subs : AnsweredTwice(s)

\* A goroutine is started by the answer to the request, the second one when the
\* first has been told of the new connection.
RunInv ==
  /\ \A s \in Subs :
     /\ subscriber[s] = "idle" =>
           s \notin respWait /\ s \notin clientSubs /\ lastOp # <<s, 0>> /\ Run1(s) = "none" /\ server[s] = "none"
     /\ s \in respWait => s \notin clientSubs /\ s \notin dispatch.pending
     /\ Run1(s) = "none" => received[s] = <<>> /\ Buf(s) = <<>> /\ Run2(s) = "none"
     /\ Run1(s) = "forward" => Run2(s) = "none" /\ (s \in clientSubs \/ s \in dispatch.pending)
     /\ lastOp = <<s, 0>> /\ reqSent = "none" /\ writeConn => server[s] = "none"
  /\ \A g \in Runs : lastOp = g /\ reqSent = "none" => run[g] = "write"

\* What dispatch is blocked in.
DispatchInv ==
  /\ dispatch.pending # {} => dispatch.op \in {"lost", "reconnected", "quit"} /\ respWait = {}
  /\ dispatch.op = "reconnected" => clientSubs = {} /\ lastOp \in Ops
  /\ dispatch.op = "deliver" => dispatch.sub \in Subs /\ dispatch.val # 0
  /\ \A i \in DOMAIN wire : wire[i].type = "note" => wire[i].val # 0
  /\ link = "down" => wire = <<>> /\ clientSubs = {} /\ dispatch.op # "deliver"

\* deliver is blocked with a value for s; the values that the first run has taken,
\* and with the one in deliver.
Delivering(s) == dispatch.op = "deliver" /\ dispatch.sub = s
Taken(s)  == Len(received[s]) + Len(Buf(s))
Passed(s) == IF Delivering(s) THEN Taken(s) + 1 ELSE Taken(s)

\* The user's channel has got the first values, the buffer holds the following
\* ones, and deliver has the next.
Forwarded(s) ==
  /\ \A i \in DOMAIN received[s] : received[s][i] = i
  /\ \A i \in DOMAIN Buf(s) : Buf(s)[i] = Len(received[s]) + i
  /\ Delivering(s) /\ Run1(s) = "forward" => dispatch.val = Taken(s) + 1

ForwardInv == \A s \in Subs : Forwarded(s)

\* The request is registered, or will be when the old connection is closed.
Asking(s) == s \in respWait \/ (dispatch.op = "reconnected" /\ lastOp = <<s, 0>>)

\* The first run can still be started, or is fed from this connection.
Waiting(s) == Run1(s) = "none" /\ (subscriber[s] = "idle" \/ Asking(s))
Live(s) == Waiting(s) \/ (Run1(s) = "forward" /\ s \in clientSubs)

NoteAt(s, i) == wire[i].type = "note" /\ wire[i].sub = s
OkAt(s, i) == wire[i].type = "ok" /\ wire[i].sub = s

\* The connection holds the values from there to the last one sent, in order.
InFlight(s) ==
  /\ Passed(s) <= sent[s]
  /\ \A i \in DOMAIN wire : NoteAt(s, i) => Passed(s) < wire[i].val /\ wire[i].val <= sent[s]
  /\ \A i, j \in DOMAIN wire : i < j /\ NoteAt(s, i) /\ NoteAt(s, j) => wire[i].val < wire[j].val
  /\ \A v \in Passed(s) + 1 .. sent[s] : \E i \in DOMAIN wire : NoteAt(s, i) /\ wire[i].val = v

\* No notification overtakes the answer that makes the subscription known.
AnswerFirst(s) ==
  /\ server[s] \in {"none", "asked"} => sent[s] = 0
  /\ Asking(s) /\ server[s] = "active" => \E i \in DOMAIN wire : OkAt(s, i)
  /\ Asking(s) => \A i \in DOMAIN wire : NoteAt(s, i) => \E j \in 1 .. i - 1 : OkAt(s, j)

Wire(s) == link = "up" /\ Live(s) => InFlight(s) /\ AnswerFirst(s)

WireInv == \A s \in Subs : Wire(s)

Inv == TypeOK /\ EndInv /\ RunInv /\ DispatchInv /\ ForwardInv /\ WireInv

-----------------------------------------------------------------------------
(* Types.                                                                  *)

Messages == [type : {"ok", "error", "note"}, sub : Subs, val : Notes \cup {0}]

RunStates == {"none", "forward", "exit", "request", "write", "answer", "report", "finish", "done"}

DispatchType == [op : {"idle", "deliver", "lost", "reconnected", "quit"}, sub : Subs \cup {NoSub},
                 val : Notes \cup {0}, pending : SUBSET Subs]

\* An Unsubscribe goroutine belongs to its subscription.
LEMMA UserOf == \A s \in Subs : \A u \in Unsubscribers[s] : <<s, u>> \in Users
  BY DEF Users

\* A subscription has two forwarding goroutines.
LEMMA RunOf ==
  /\ \A g \in Runs : g[1] \in Subs /\ g[2] \in {1, 2} /\ g = <<g[1], g[2]>>
  /\ \A s \in Subs : <<s, 1>> \in Runs /\ <<s, 2>> \in Runs /\ <<s, 1>> # <<s, 2>>
  /\ \A op \in Ops : op[1] \in Subs /\ op[2] \in {0, 1, 2} /\ op = <<op[1], op[2]>>
  BY DEF Runs, Ops

\* Before anything is subscribed the invariant holds.
LEMMA InitInv == Init => Inv
<1> SUFFICES ASSUME Init PROVE Inv
  OBVIOUS
<1>1. TypeOK
  <2>1. dispatch \in DispatchType BY DEF Init, Idle, DispatchType
  <2>2. wire = <<>> /\ wire \in Seq(Messages) BY EmptySeq DEF Init
  <2>3. /\ buffer \in [Runs -> Seq(Notes)] /\ received \in [Subs -> Seq(Notes)]
        /\ errBuf \in [Subs -> Seq(Errors \cup {"nil"})]
    BY EmptySeq DEF Init
  <2>4. \A g \in Runs : Len(buffer[g]) <= MaxBuffer BY SubAssumption DEF Init
  <2> QED BY <2>1, <2>2, <2>3, <2>4 DEF Init, TypeOK, DispatchType, Messages, Errors, NoOp
<1>0. \A s \in Subs : Run1(s) = "none" /\ Run2(s) = "none" /\ Buf(s) = <<>> BY RunOf DEF Init, Run1, Run2, Buf
<1>2. EndInv BY <1>0, UserOf DEF Init, EndInv, Ended
<1>3. RunInv
  <2>1. lastOp = NoOp /\ \A s \in Subs : NoOp # <<s, 0>> BY SubAssumption DEF Init, NoOp
  <2>2. \A g \in Runs : lastOp # g BY SubAssumption DEF Init, NoOp, Runs
  <2> QED BY <1>0, <2>1, <2>2 DEF Init, RunInv, Idle
<1>4. DispatchInv BY DEF Init, DispatchInv, Idle
<1>5. \A s \in Subs : received[s] = <<>> /\ ~Delivering(s) BY DEF Init, Delivering, Idle
<1>6. ForwardInv
  <2>1. ASSUME NEW s \in Subs PROVE DOMAIN received[s] = {} /\ DOMAIN Buf(s) = {} BY <1>0, <1>5
  <2> QED BY <1>5, <2>1 DEF ForwardInv, Forwarded
<1>7. WireInv
  <2>1. Len(<<>>) = 0 OBVIOUS
  <2>2. ASSUME NEW s \in Subs PROVE Taken(s) = 0
    <3>1. Len(received[s]) = 0 /\ Len(Buf(s)) = 0 BY <1>0, <1>5, <2>1
    <3> QED BY <3>1 DEF Taken
  <2>3. \A s \in Subs : Passed(s) = 0 BY <1>5, <2>2 DEF Passed
  <2> QED BY <2>3 DEF Init, WireInv, Wire, InFlight, AnswerFirst
<1> QED BY <1>1, <1>2, <1>3, <1>4, <1>6, <1>7 DEF Inv

\* Steps of Subscribe.
LEMMA SubscribeType == ASSUME TypeOK, NEW s \in Subs, SubscribeStep(s) PROVE TypeOK'
<1> USE DEF TypeOK, opVars, sendVars, fwdVars, unsubVars, netVars
<1>1. CASE Subscribe(s)
  <2>1. <<s, 0>> \in Ops BY DEF Ops
  <2> QED BY <1>1, <2>1 DEF Subscribe, TakeLock
<1>2. CASE SubscribeReturn(s) \/ SubscribeCtx(s) BY <1>2 DEF SubscribeReturn, SubscribeCtx
<1>3. CASE SubscribeTimeout(s) BY <1>3 DEF SubscribeTimeout
<1> QED BY <1>1, <1>2, <1>3 DEF SubscribeStep

\* Steps of write.
LEMMA WriteType == ASSUME TypeOK, NEW op \in Ops, WriteStep(op) PROVE TypeOK'
<1> USE DEF TypeOK, opVars, sendVars, fwdVars, unsubVars, netVars
<1>1. ASSUME NEW ok \in BOOLEAN, SendReturn(op, ok)
      PROVE  /\ reqSent' \in {"none", "ok", "fail"} /\ retried' \in BOOLEAN
             /\ subscriber' \in [Subs -> {"idle", "write", "wait", "timeout", "ok", "failed", "cancelled"}]
             /\ run' \in [Runs -> {"none", "forward", "exit", "request", "write", "answer", "report", "finish", "done"}]
  BY <1>1 DEF SendReturn
<1>2. Reached(op) => server' \in [Subs -> {"none", "asked", "active", "gone"}] BY DEF Reached
<1>3. CASE WriteOk(op) BY <1>1, <1>2, <1>3 DEF WriteOk
<1>4. CASE WriteFail(op)
  <2>1. server' \in [Subs -> {"none", "asked", "active", "gone"}] BY <1>2, <1>4 DEF WriteFail
  <2>2. /\ reqSent' \in {"none", "ok", "fail"} /\ retried' \in BOOLEAN
        /\ subscriber' \in [Subs -> {"idle", "write", "wait", "timeout", "ok", "failed", "cancelled"}]
        /\ run' \in [Runs -> {"none", "forward", "exit", "request", "write", "answer", "report", "finish", "done"}]
    <3>1. CASE retried
      <4>1. SendReturn(op, FALSE) BY <1>4, <3>1 DEF WriteFail
      <4> QED BY <1>1, <4>1
    <3>2. CASE ~retried BY <1>4, <3>2 DEF WriteFail
    <3> QED BY <3>1, <3>2
  <2> QED BY <1>4, <2>1, <2>2 DEF WriteFail
<1>5. CASE DialFail(op) BY <1>1, <1>5 DEF DialFail
<1>6. CASE Reconnect(op)
  <2>1. dispatch' \in DispatchType BY <1>6 DEF Reconnect, Closing, DispatchType
  <2>2. wire' = <<>> /\ wire' \in Seq(Messages) BY <1>6, EmptySeq DEF Reconnect, Disconnect
  <2>3. dials' \in 0 .. MaxDials BY <1>6, SubAssumption DEF Reconnect
  <2>4. /\ server' \in [Subs -> {"none", "asked", "active", "gone"}] /\ sent' \in [Subs -> Notes \cup {0}]
        /\ opResp' \in [Subs -> {"none", "ok", "error"}]
    BY <1>6 DEF Reconnect, Disconnect, CancelRequests
  <2>5. respWait' = {} /\ clientSubs' = {} /\ writeConn' = TRUE /\ link' = "up"
    BY <1>6 DEF Reconnect, CancelRequests
  <2> QED BY <1>6, <2>1, <2>2, <2>3, <2>4, <2>5 DEF Reconnect, Messages, DispatchType
<1> QED BY <1>3, <1>4, <1>5, <1>6 DEF WriteStep

\* What the server sends is a message.
LEMMA ServerType ==
  ASSUME TypeOK, NEW s \in Subs, ServerAnswer(s) \/ ServerNotify(s) PROVE TypeOK'
<1>1. CASE ServerAnswer(s)
  <2>1. wire \in Seq(Messages) BY DEF TypeOK, Messages
  <2>2. Message("ok", s, 0) \in Messages /\ Message("error", s, 0) \in Messages BY DEF Message, Messages
  <2>3. wire' \in Seq(Messages) BY <1>1, <2>1, <2>2, AppendProperties DEF ServerAnswer
  <2>4. server' \in [Subs -> {"none", "asked", "active", "gone"}] BY <1>1 DEF ServerAnswer, TypeOK
  <2>5. UNCHANGED <<opVars, sendVars, fwdVars, unsubVars, link, sent, clientSubs, dispatch, crashed>>
    BY <1>1 DEF ServerAnswer
  <2> QED BY <2>3, <2>4, <2>5 DEF TypeOK, Messages, opVars, sendVars, fwdVars, unsubVars
<1>2. CASE ServerNotify(s)
  <2>1. sent[s] + 1 \in Notes
    <3>1. sent[s] \in Nat BY DEF TypeOK, Notes
    <3> QED BY <3>1 DEF Notes
  <2>2. wire' \in Seq(Messages) BY <1>2, <2>1, AppendProperties DEF ServerNotify, TypeOK, Messages, Message
  <2>3. sent' \in [Subs -> Notes \cup {0}] BY <1>2, <2>1 DEF ServerNotify, TypeOK
  <2> QED BY <1>2, <2>2, <2>3 DEF TypeOK, Messages, ServerNotify, opVars, sendVars, fwdVars, unsubVars
<1> QED BY <1>1, <1>2

\* Dispatch takes the first message off the connection.
LEMMA HeadTail ==
  ASSUME TypeOK, wire # <<>>
  PROVE  /\ Head(wire) \in Messages /\ Head(wire) = wire[1]
         /\ Tail(wire) \in Seq(Messages) /\ Len(Tail(wire)) = Len(wire) - 1
         /\ \A i \in 1 .. Len(wire) - 1 : Tail(wire)[i] = wire[i + 1]
         /\ Len(wire) \in Nat \ {0}
<1>1. wire \in Seq(Messages) BY DEF TypeOK, Messages
<1> QED BY <1>1, HeadTailProperties, ElementOfSeq, EmptySeq

\* What the answer to the subscribe request of h does.
AnswerEffect(h) ==
  \/ /\ h \in respWait /\ wire[1].type = "ok" /\ wire[1].sub = h
     /\ respWait' = respWait \ {h} /\ opResp' = [opResp EXCEPT ![h] = "ok"]
     /\ clientSubs' = clientSubs \cup {h}
     /\ \/ Run1(h) = "none" /\ run' = [run EXCEPT ![<<h, 1>>] = "forward"]
        \/ Run1(h) # "none" /\ Run2(h) = "none" /\ run' = [run EXCEPT ![<<h, 2>>] = "forward"]
  \/ /\ h \in respWait /\ wire[1].sub = h
     /\ respWait' = respWait \ {h} /\ opResp' = [opResp EXCEPT ![h] = "error"]
     /\ UNCHANGED <<run, clientSubs>>
  \/ h \notin respWait /\ wire[1].sub = h /\ UNCHANGED <<respWait, opResp, run, clientSubs>>

\* handleResponses has one of these effects.
LEMMA AnswerHandled ==
  ASSUME TypeOK, DispatchAnswer PROVE \E h \in Subs : AnswerEffect(h)
<1>1. Head(wire) \in Messages /\ Head(wire) = wire[1] BY HeadTail DEF DispatchAnswer
<1>2. Head(wire).sub \in Subs BY <1>1 DEF Messages
<1> DEFINE h == Head(wire).sub
<1>3. CASE h \in respWait /\ Head(wire).type = "ok"
  <2>1. HandleAnswer(h, TRUE) BY <1>3 DEF DispatchAnswer
  <2>2. AnswerEffect(h) BY <1>1, <1>3, <2>1 DEF AnswerEffect, HandleAnswer, NewRun, Run1, Run2
  <2> QED BY <1>2, <2>2
<1>4. CASE h \in respWait /\ Head(wire).type # "ok"
  <2>1. HandleAnswer(h, FALSE) BY <1>4 DEF DispatchAnswer
  <2>2. AnswerEffect(h) BY <1>1, <1>4, <2>1 DEF AnswerEffect, HandleAnswer
  <2> QED BY <1>2, <2>2
<1>5. CASE h \notin respWait
  <2>1. AnswerEffect(h) BY <1>1, <1>5 DEF AnswerEffect, DispatchAnswer
  <2> QED BY <1>2, <2>1
<1> QED BY <1>3, <1>4, <1>5

\* dispatch takes messages off the connection and keeps the types of its tables.
LEMMA DispatchTypes ==
  ASSUME TypeOK, DispatchInv, DispatchStep \/ \E e \in {"lost", "quit"} : DispatchClose(e) PROVE TypeOK'
<1>1. CASE DispatchAnswer
  <2>1. wire' \in Seq(Messages) BY <1>1, HeadTail DEF DispatchAnswer
  <2>2. PICK h \in Subs : AnswerEffect(h) BY <1>1, AnswerHandled
  <2>3. /\ respWait' \subseteq Subs /\ clientSubs' \subseteq Subs
        /\ opResp' \in [Subs -> {"none", "ok", "error"}]
        /\ run' \in [Runs -> RunStates]
    BY <2>2 DEF AnswerEffect, TypeOK, RunStates
  <2> QED BY <1>1, <2>1, <2>3 DEF DispatchAnswer, TypeOK, Messages, sendVars, unsubVars, RunStates
<1>2. CASE DispatchNote
  <2>1. wire' \in Seq(Messages) /\ Head(wire) \in Messages BY <1>2, HeadTail DEF DispatchNote
  <2>2. dispatch' \in DispatchType BY <1>2, <2>1 DEF DispatchNote, Deliver, Idle, Messages, DispatchType
  <2> QED BY <1>2, <2>1, <2>2 DEF DispatchNote, TypeOK, Messages, opVars, sendVars, fwdVars, unsubVars, DispatchType
<1>3. CASE DispatchReqSent
  <2>1. lastOp' = NoOp /\ reqSent' = "none" /\ respWait' \subseteq respWait BY <1>3 DEF DispatchReqSent
  <2> QED BY <1>3, <2>1 DEF DispatchReqSent, TypeOK, fwdVars, unsubVars, netVars
<1>4. ASSUME NEW e \in {"lost", "reconnected"}, DispatchClosed(e) PROVE TypeOK'
  <2>1. respWait' \subseteq Subs
    <3>1. e = "reconnected" => lastOp[1] \in Subs BY <1>4, RunOf DEF DispatchClosed, DispatchInv, Closing
    <3> QED BY <1>4, <3>1 DEF DispatchClosed, TypeOK
  <2> QED BY <1>4, <2>1 DEF DispatchClosed, Idle, TypeOK, sendVars, fwdVars, unsubVars, netVars
<1>5. ASSUME NEW s \in Subs, DispatchSkip(s) PROVE TypeOK'
  <2>1. dispatch' \in DispatchType
    <3>1. CASE dispatch' = Idle BY <3>1 DEF Idle, DispatchType
    <3>2. CASE dispatch' = [dispatch EXCEPT !.pending = @ \ {s}]
      <4>1. dispatch.pending \ {s} \in SUBSET Subs BY DEF TypeOK
      <4> QED BY <3>2, <4>1 DEF TypeOK, DispatchType
    <3> QED BY <1>5, <3>1, <3>2 DEF DispatchSkip
  <2> QED BY <1>5, <2>1 DEF DispatchSkip, TypeOK, opVars, sendVars, fwdVars, unsubVars, netVars, DispatchType
<1>6. ASSUME NEW e \in {"lost", "quit"}, DispatchClose(e) PROVE TypeOK'
  <2>1. dispatch' \in DispatchType BY <1>6 DEF DispatchClose, Closing, TypeOK, DispatchType
  <2>2. wire' = <<>> /\ wire' \in Seq(Messages) BY <1>6, EmptySeq DEF DispatchClose, Disconnect
  <2>3. server' \in [Subs -> {"none", "asked", "active", "gone"}] /\ sent' \in [Subs -> Notes \cup {0}]
    BY <1>6 DEF DispatchClose, Disconnect, TypeOK
  <2>4. respWait' \subseteq Subs /\ clientSubs' \subseteq Subs /\ opResp' \in [Subs -> {"none", "ok", "error"}]
    <3>1. CASE link = "up"
      <4>1. PICK o \in {lastOp, NoOp} : CancelRequests(o) BY <1>6, <3>1 DEF DispatchClose
      <4> QED BY <4>1 DEF CancelRequests, TypeOK
    <3>2. CASE link # "up" BY <1>6, <3>2 DEF DispatchClose, TypeOK
    <3> QED BY <3>1, <3>2
  <2> QED BY <1>6, <2>1, <2>2, <2>3, <2>4 DEF DispatchClose, TypeOK, Messages, sendVars, fwdVars, unsubVars, DispatchType
<1> QED BY <1>1, <1>2, <1>3, <1>4, <1>5, <1>6 DEF DispatchStep

\* forward returns.
LEMMA ReturnType ==
  ASSUME TypeOK, NEW g \in Runs, NEW b \in BOOLEAN, NEW e \in Errors, ForwardReturn(g, b, e)
  PROVE  /\ run' \in [Runs -> RunStates] /\ unsubscribe' \in [Runs -> BOOLEAN] /\ err' \in [Runs -> Errors]
         /\ buffer' \in [Runs -> Seq(Notes)] /\ \A h \in Runs : Len(buffer'[h]) <= MaxBuffer
<1>1. run' \in [Runs -> RunStates] /\ unsubscribe' \in [Runs -> BOOLEAN] /\ err' \in [Runs -> Errors]
  BY DEF TypeOK, ForwardReturn, RunStates
<1>2. buffer' \in [Runs -> Seq(Notes)] BY EmptySeq DEF TypeOK, ForwardReturn
<1>3. \A h \in Runs : buffer'[h] = IF h = g THEN <<>> ELSE buffer[h] BY DEF TypeOK, ForwardReturn
<1>4. Len(<<>>) <= MaxBuffer BY SubAssumption
<1> QED BY <1>1, <1>2, <1>3, <1>4 DEF TypeOK

\* The buffer is appended to below its limit.
LEMMA ForwardInType == ASSUME TypeOK, DispatchInv, NEW g \in Runs, ForwardIn(g) PROVE TypeOK'
<1>1. dispatch' \in DispatchType BY DEF ForwardIn, Idle, DispatchType
<1>2. UNCHANGED <<opVars, sendVars, received, forwardDone, unsubDone, errBuf, unsubVars, netVars, clientSubs, crashed>>
  BY DEF ForwardIn
<1>3. ASSUME NEW e \in {"bad", "overflow"}, ForwardReturn(g, TRUE, e) PROVE TypeOK'
  <2>1. e \in Errors BY DEF Errors
  <2>2. /\ run' \in [Runs -> RunStates] /\ unsubscribe' \in [Runs -> BOOLEAN] /\ err' \in [Runs -> Errors]
        /\ buffer' \in [Runs -> Seq(Notes)] /\ \A h \in Runs : Len(buffer'[h]) <= MaxBuffer
    BY <1>3, <2>1, ReturnType
  <2> QED BY <1>1, <1>2, <2>2 DEF TypeOK, RunStates, DispatchType, opVars, sendVars, unsubVars, netVars
<1>4. CASE /\ dispatch.val \in Notes /\ Len(buffer[g]) # MaxBuffer /\ UNCHANGED <<run, unsubscribe, err>>
           /\ buffer' = [buffer EXCEPT ![g] = Append(@, dispatch.val)]
  <2>1. buffer[g] \in Seq(Notes) /\ Len(buffer[g]) \in Nat BY DEF TypeOK
  <2>2. /\ Append(buffer[g], dispatch.val) \in Seq(Notes)
        /\ Len(Append(buffer[g], dispatch.val)) = Len(buffer[g]) + 1
    BY <1>4, <2>1, AppendProperties
  <2>4. Len(buffer[g]) < MaxBuffer BY <1>4, <2>1, SubAssumption DEF TypeOK
  <2>5. /\ buffer' \in [Runs -> Seq(Notes)]
        /\ \A h \in Runs : buffer'[h] = IF h = g THEN Append(buffer[g], dispatch.val) ELSE buffer[h]
    BY <1>4, <2>2 DEF TypeOK
  <2>6. \A h \in Runs : Len(buffer[h]) <= MaxBuffer BY DEF TypeOK
  <2>7. Len(buffer[g]) + 1 <= MaxBuffer BY <2>1, <2>4, SubAssumption
  <2>8. \A h \in Runs : Len(buffer'[h]) <= MaxBuffer BY <2>2, <2>5, <2>6, <2>7
  <2> QED BY <1>1, <1>2, <1>4, <2>5, <2>8 DEF TypeOK, DispatchType, opVars, sendVars, unsubVars, netVars
<1>5. dispatch.val \in Notes BY DEF TypeOK, DispatchInv, ForwardIn
<1> QED BY <1>3, <1>4, <1>5 DEF ForwardIn

\* The value that goes to the user was at the head of the buffer.
LEMMA ForwardSendType == ASSUME TypeOK, NEW g \in Runs, ForwardSend(g) PROVE TypeOK'
<1>1. /\ buffer[g] \in Seq(Notes) /\ received[g[1]] \in Seq(Notes) /\ Len(buffer[g]) \in Nat /\ buffer[g] # <<>>
      /\ g[1] \in Subs
  BY RunOf DEF TypeOK, ForwardSend
<1>2. Head(buffer[g]) \in Notes /\ Tail(buffer[g]) \in Seq(Notes) /\ Len(Tail(buffer[g])) = Len(buffer[g]) - 1
  BY <1>1, HeadTailProperties
<1>3. Append(received[g[1]], Head(buffer[g])) \in Seq(Notes) BY <1>1, <1>2, AppendProperties
<1>4. received' \in [Subs -> Seq(Notes)] BY <1>1, <1>3 DEF ForwardSend, TypeOK
<1>5. /\ buffer' \in [Runs -> Seq(Notes)]
      /\ \A h \in Runs : buffer'[h] = IF h = g THEN Tail(buffer[g]) ELSE buffer[h]
  BY <1>2 DEF ForwardSend, TypeOK
<1>6. \A h \in Runs : Len(buffer[h]) <= MaxBuffer BY DEF TypeOK
<1>7. Len(Tail(buffer[g])) <= MaxBuffer BY <1>1, <1>2, <1>6, SubAssumption
<1>8. \A h \in Runs : Len(buffer'[h]) <= MaxBuffer BY <1>5, <1>6, <1>7
<1>9. UNCHANGED <<opVars, sendVars, run, unsubscribe, err, forwardDone, unsubDone, errBuf,
                  unsubVars, netVars, clientSubs, dispatch, crashed>>
  BY DEF ForwardSend
<1> QED BY <1>4, <1>5, <1>8, <1>9 DEF TypeOK, opVars, sendVars, unsubVars, netVars

\* forward returns because of Unsubscribe or of close.
LEMMA ForwardEndType ==
  ASSUME TypeOK, DispatchInv, NEW g \in Runs,
         ForwardClose(g) \/ \E u \in Unsubscribers[g[1]] : ForwardUnsubscribe(g, u)
  PROVE  TypeOK'
<1>1. CASE ForwardClose(g)
  <2>1. dispatch.op \in Errors BY <1>1 DEF ForwardClose, DispatchInv, Errors
  <2>2. dispatch' \in DispatchType
    <3>1. dispatch.pending \ {g[1]} \in SUBSET Subs BY DEF TypeOK
    <3> QED BY <1>1, <3>1 DEF ForwardClose, TypeOK, DispatchType
  <2>3. ForwardReturn(g, FALSE, dispatch.op) BY <1>1 DEF ForwardClose
  <2>4. /\ run' \in [Runs -> RunStates] /\ unsubscribe' \in [Runs -> BOOLEAN] /\ err' \in [Runs -> Errors]
        /\ buffer' \in [Runs -> Seq(Notes)] /\ \A h \in Runs : Len(buffer'[h]) <= MaxBuffer
    BY <2>1, <2>3, ReturnType
  <2> QED BY <1>1, <2>2, <2>4 DEF ForwardClose, TypeOK, RunStates, DispatchType, opVars, sendVars, unsubVars, netVars
<1>2. ASSUME NEW u \in Unsubscribers[g[1]], ForwardUnsubscribe(g, u) PROVE TypeOK'
  <2>1. upc' \in [Users -> {"idle", "once", "quit", "wait", "done"}]
    BY <1>2, UserOf DEF TypeOK, ForwardUnsubscribe
  <2>2. "none" \in Errors /\ ForwardReturn(g, TRUE, "none") BY <1>2 DEF Errors, ForwardUnsubscribe
  <2>3. /\ run' \in [Runs -> RunStates] /\ unsubscribe' \in [Runs -> BOOLEAN] /\ err' \in [Runs -> Errors]
        /\ buffer' \in [Runs -> Seq(Notes)] /\ \A h \in Runs : Len(buffer'[h]) <= MaxBuffer
    BY <2>2, ReturnType
  <2> QED BY <1>2, <2>1, <2>3 DEF ForwardUnsubscribe, TypeOK, RunStates, opVars, sendVars, netVars
<1> QED BY <1>1, <1>2

\* The rest of run.
RunTail(g) ==
  \/ CloseForwardDone(g) \/ RequestUnsubscribe(g) \/ RequestTimeout(g) \/ RequestReturn(g)
  \/ ReportError(g) \/ CloseUnsubDone(g)

\* It moves the goroutine on.
LEMMA RunType == ASSUME TypeOK, NEW g \in Runs, RunTail(g) PROVE TypeOK'
<1> g[1] \in Subs BY RunOf
<1> USE DEF TypeOK, opVars, sendVars, fwdVars, unsubVars, netVars
<1>1. CASE CloseForwardDone(g)
  <2>1. CASE g[1] \in forwardDone BY <1>1, <2>1 DEF CloseForwardDone
  <2>2. CASE g[1] \notin forwardDone
    <3>1. PICK l \in {"request", "report"} : run' = [run EXCEPT ![g] = l] BY <1>1, <2>2 DEF CloseForwardDone
    <3>2. run' \in [Runs -> RunStates] BY <3>1 DEF RunStates
    <3> QED BY <1>1, <2>2, <3>2 DEF CloseForwardDone, RunStates
  <2> QED BY <2>1, <2>2
<1>2. CASE RequestUnsubscribe(g)
  <2>1. g \in Ops BY DEF Runs, Ops
  <2> QED BY <1>2, <2>1 DEF RequestUnsubscribe, TakeLock
<1>3. CASE RequestTimeout(g) \/ RequestReturn(g) BY <1>3 DEF RequestTimeout, RequestReturn
<1>4. CASE ReportError(g)
  <2>1. ASSUME NEW e \in Errors \cup {"nil"}
        PROVE  [errBuf EXCEPT ![g[1]] = Append(@, e)] \in [Subs -> Seq(Errors \cup {"nil"})]
    BY AppendProperties
  <2>2. (IF err[g] = "quit" THEN "nil" ELSE err[g]) \in Errors \cup {"nil"} OBVIOUS
  <2>3. errBuf' \in [Subs -> Seq(Errors \cup {"nil"})] BY <1>4, <2>1, <2>2 DEF ReportError
  <2>4. crashed' \in BOOLEAN BY <1>4 DEF ReportError
  <2> QED BY <1>4, <2>3, <2>4 DEF ReportError
<1>5. CASE CloseUnsubDone(g) BY <1>5 DEF CloseUnsubDone
<1> QED BY <1>1, <1>2, <1>3, <1>4, <1>5 DEF RunTail

\* Unsubscribe moves its own goroutine.
LEMMA UnsubscribeType ==
  ASSUME TypeOK, NEW s \in Subs, NEW u \in Unsubscribers[s], UnsubscribeStep(s, u) PROVE TypeOK'
<1> <<s, u>> \in Users BY UserOf
<1> USE DEF TypeOK, opVars, sendVars, fwdVars, unsubVars, netVars
<1>1. CASE Unsubscribe(s, u) BY <1>1 DEF Unsubscribe
<1>2. CASE UnsubscribeAgain(s, u) BY <1>2 DEF UnsubscribeAgain
<1>3. CASE UnsubscribeReturn(s, u) BY <1>3 DEF UnsubscribeReturn
<1> QED BY <1>1, <1>2, <1>3 DEF UnsubscribeStep

\* Every action keeps the types.
LEMMA TypeStep == ASSUME TypeOK, DispatchInv, [Next]_vars PROVE TypeOK'
<1>1. CASE UNCHANGED vars BY <1>1 DEF TypeOK, vars, opVars, sendVars, fwdVars, unsubVars, netVars
<1>2. ASSUME NEW g \in Runs, RunStep(g) PROVE TypeOK'
  BY <1>2, ForwardInType, ForwardEndType, RunType DEF RunStep, RunTail
<1> QED
  BY <1>1, <1>2, SubscribeType, WriteType, ServerType, DispatchTypes, ForwardSendType, UnsubscribeType DEF Next

-----------------------------------------------------------------------------
(* The goroutines of a subscription.                                       *)

\* The step of one forwarding goroutine, seen from every subscription.
LEMMA RunMoved ==
  ASSUME TypeOK, NEW s \in Subs, NEW k \in {1, 2}, NEW l, run' = [run EXCEPT ![<<s, k>>] = l]
  PROVE  \A x \in Subs : /\ Run1(x)' = IF x = s /\ k = 1 THEN l ELSE Run1(x)
                         /\ Run2(x)' = IF x = s /\ k = 2 THEN l ELSE Run2(x)
  BY RunOf DEF TypeOK, Run1, Run2

\* So is the step of its buffer.
LEMMA BufMoved ==
  ASSUME TypeOK, NEW s \in Subs, NEW k \in {1, 2}, NEW b, buffer' = [buffer EXCEPT ![<<s, k>>] = b]
  PROVE  \A x \in Subs : Buf(x)' = IF x = s /\ k = 1 THEN b ELSE Buf(x)
  BY RunOf DEF TypeOK, Buf

\* Where a goroutine is.
LEMMA RunAt ==
  ASSUME NEW s \in Subs, NEW k \in {1, 2}
  PROVE  run[<<s, k>>] = (IF k = 1 THEN Run1(s) ELSE Run2(s)) /\ <<s, k>>[1] = s /\ <<s, k>>[2] = k
  BY DEF Run1, Run2

\* The steps of a goroutine that is not yet at close(sub.forwardDone), or that
\* sends its unsubscribe request.
EndFrame(x) ==
  /\ \/ Run1(x)' = Run1(x)
     \/ Run1(x)' \notin Ended /\ Run1(x) \notin Ended
     \/ {Run1(x), Run1(x)'} \subseteq {"request", "write", "answer", "report"}
  /\ \/ Run2(x)' = Run2(x)
     \/ Run2(x)' \notin Ended \cup {"none"} /\ Run2(x) \notin Ended
     \/ {Run2(x), Run2(x)'} \subseteq {"request", "write", "answer", "report"}

\* They leave what ends the subscription alone.
LEMMA FrameEnd ==
  ASSUME TypeOK, EndInv, UNCHANGED <<forwardDone, unsubDone, errBuf, errClosed, once, crashed>>,
         \A x \in Subs : EndFrame(x), \A x \in Users : upc'[x] = "done" => upc[x] = "done"
  PROVE  EndInv'
<1>1. ASSUME NEW x \in Subs
      PROVE  /\ Run1(x)' \in Ended <=> Run1(x) \in Ended
             /\ Run2(x)' \in Ended <=> Run2(x) \in Ended
             /\ Run1(x) \in {"finish", "done"} => Run1(x)' = Run1(x)
             /\ Run2(x) \in {"finish", "done"} => Run2(x)' = Run2(x)
             /\ Run2(x) # "none" => Run2(x)' # "none"
  BY <1>1 DEF EndFrame, Ended
<1>2. \A x \in Subs : AnsweredTwice(x) => AnsweredTwice(x)' BY <1>1 DEF AnsweredTwice, Run2
<1> QED BY <1>1, <1>2, UserOf DEF EndInv

\* run and Unsubscribe go their ways in this order only: close(sub.forwardDone).
LEMMA CloseForwardEnd ==
  ASSUME TypeOK, EndInv, NEW s \in Subs, NEW k \in {1, 2}, CloseForwardDone(<<s, k>>) PROVE EndInv'
<1>1. UNCHANGED <<unsubDone, errBuf, errClosed, once, upc>> BY DEF CloseForwardDone, unsubVars
<1>2. run[<<s, k>>] = "exit" /\ forwardDone' = forwardDone \cup {s} BY DEF CloseForwardDone
<1>3. CASE s \in forwardDone
  <2>1. run' = run /\ crashed' = TRUE /\ forwardDone' = forwardDone BY <1>2, <1>3 DEF CloseForwardDone
  <2>2. Run1(s) \in Ended \/ Run2(s) \in Ended BY <1>3 DEF EndInv
  <2>3. Run2(s) # "none" BY <1>2, <2>2, RunAt DEF Ended
  <2>4. AnsweredTwice(s)' BY <2>1, <2>3 DEF AnsweredTwice, Run2
  <2>5. \A x \in Subs : Run1(x)' = Run1(x) /\ Run2(x)' = Run2(x) BY <2>1 DEF Run1, Run2
  <2> QED BY <1>1, <2>1, <2>4, <2>5 DEF EndInv
<1>4. CASE s \notin forwardDone
  <2>1. PICK l \in {"request", "report"} : run' = [run EXCEPT ![<<s, k>>] = l]
    BY <1>4 DEF CloseForwardDone
  <2>2. crashed' = crashed BY <1>4 DEF CloseForwardDone
  <2>3. \A x \in Subs : /\ Run1(x)' = IF x = s /\ k = 1 THEN l ELSE Run1(x)
                        /\ Run2(x)' = IF x = s /\ k = 2 THEN l ELSE Run2(x)
    BY <2>1, RunMoved
  <2>4. \A x \in Subs : AnsweredTwice(x) => AnsweredTwice(x)' BY <2>3 DEF AnsweredTwice, Run2
  <2>5. Run1(s) \notin Ended /\ Run2(s) \notin Ended BY <1>4 DEF EndInv
  <2>6. s \notin unsubDone /\ errBuf[s] = <<>> BY <2>5 DEF EndInv, Ended
  <2>7. l \in Ended BY DEF Ended
  <2> QED BY <1>1, <1>2, <2>2, <2>3, <2>4, <2>5, <2>6, <2>7 DEF EndInv
<1> QED BY <1>3, <1>4

\* The error is reported once.
LEMMA ReportEnd ==
  ASSUME TypeOK, EndInv, NEW s \in Subs, NEW k \in {1, 2}, ReportError(<<s, k>>) PROVE EndInv'
<1>1. UNCHANGED <<forwardDone, unsubDone, errClosed, once, upc>> BY DEF ReportError, unsubVars
<1>2. run[<<s, k>>] = "report" /\ run' = [run EXCEPT ![<<s, k>>] = "finish"] BY DEF ReportError
<1>3. \A x \in Subs : /\ Run1(x)' = IF x = s /\ k = 1 THEN "finish" ELSE Run1(x)
                      /\ Run2(x)' = IF x = s /\ k = 2 THEN "finish" ELSE Run2(x)
  BY <1>2, RunMoved
<1>4. s \notin unsubDone /\ s \notin errClosed BY <1>2, RunAt DEF EndInv, Ended
<1>5. crashed' = crashed BY <1>4 DEF ReportError, TypeOK
<1>6. \A x \in Subs : x # s => errBuf'[x] = errBuf[x] BY DEF ReportError, TypeOK
<1>7. \A x \in Subs : AnsweredTwice(x) => AnsweredTwice(x)' BY <1>3 DEF AnsweredTwice, Run2
<1>8. (IF k = 1 THEN Run1(s) ELSE Run2(s)) = "report" BY <1>2, RunAt
<1> QED BY <1>1, <1>3, <1>4, <1>5, <1>6, <1>7, <1>8 DEF EndInv, Ended

\* unsubDone is closed once.
LEMMA FinishEnd ==
  ASSUME TypeOK, EndInv, NEW s \in Subs, NEW k \in {1, 2}, CloseUnsubDone(<<s, k>>) PROVE EndInv'
<1>1. UNCHANGED <<forwardDone, errBuf, errClosed, once, upc>> BY DEF CloseUnsubDone, unsubVars
<1>2. /\ run[<<s, k>>] = "finish" /\ run' = [run EXCEPT ![<<s, k>>] = "done"]
      /\ unsubDone' = unsubDone \cup {s}
  BY DEF CloseUnsubDone
<1>3. \A x \in Subs : /\ Run1(x)' = IF x = s /\ k = 1 THEN "done" ELSE Run1(x)
                      /\ Run2(x)' = IF x = s /\ k = 2 THEN "done" ELSE Run2(x)
  BY <1>2, RunMoved
<1>4. s \notin unsubDone BY <1>2, RunAt DEF EndInv, Ended
<1>5. crashed' = crashed BY <1>4 DEF CloseUnsubDone, TypeOK
<1>7. \A x \in Subs : AnsweredTwice(x) => AnsweredTwice(x)' BY <1>3 DEF AnsweredTwice, Run2
<1>8. (IF k = 1 THEN Run1(s) ELSE Run2(s)) = "finish" BY <1>2, RunAt
<1> QED BY <1>1, <1>2, <1>3, <1>4, <1>5, <1>7, <1>8 DEF EndInv, Ended

\* Unsubscribe closes sub.err when unsubDone is closed.
LEMMA UnsubscribeEnd ==
  ASSUME TypeOK, EndInv, NEW s \in Subs, NEW u \in Unsubscribers[s], UnsubscribeStep(s, u) PROVE EndInv'
<1>1. UNCHANGED <<run, forwardDone, unsubDone, errBuf, crashed>>
  BY DEF UnsubscribeStep, Unsubscribe, UnsubscribeAgain, UnsubscribeReturn, fwdVars
<1>2. \A x \in Subs : Run1(x)' = Run1(x) /\ Run2(x)' = Run2(x) /\ (AnsweredTwice(x)' <=> AnsweredTwice(x))
  BY <1>1 DEF Run1, Run2, AnsweredTwice
<1>3. <<s, u>> \in Users /\ \A x \in Subs : \A v \in Unsubscribers[x] : <<x, v>> \in Users BY UserOf
<1>4. CASE Unsubscribe(s, u)
  <2>1. errClosed' = errClosed /\ \A x \in Subs : once'[x] = "done" <=> once[x] = "done"
    BY <1>4 DEF Unsubscribe, TypeOK
  <2>2. \A x \in Users : upc'[x] = "done" => upc[x] = "done" BY <1>4 DEF Unsubscribe, TypeOK
  <2> QED BY <1>1, <1>2, <1>3, <2>1, <2>2 DEF EndInv
<1>5. CASE UnsubscribeAgain(s, u)
  <2>1. UNCHANGED <<errClosed, once>> /\ once[s] = "done" BY <1>5 DEF UnsubscribeAgain
  <2>2. \A x \in Subs : \A v \in Unsubscribers[x] : upc'[<<x, v>>] = "done" => x = s \/ upc[<<x, v>>] = "done"
    BY <1>3, <1>5 DEF UnsubscribeAgain, TypeOK
  <2> QED BY <1>1, <1>2, <2>1, <2>2 DEF EndInv
<1>6. CASE UnsubscribeReturn(s, u)
  <2>1. /\ errClosed' = errClosed \cup {s} /\ s \in unsubDone
        /\ \A x \in Subs : once'[x] = IF x = s THEN "done" ELSE once[x]
    BY <1>6 DEF UnsubscribeReturn, TypeOK
  <2>2. \A x \in Subs : \A v \in Unsubscribers[x] : upc'[<<x, v>>] = "done" => x = s \/ upc[<<x, v>>] = "done"
    BY <1>3, <1>6 DEF UnsubscribeReturn, TypeOK
  <2> QED BY <1>1, <1>2, <2>1, <2>2 DEF EndInv
<1> QED BY <1>4, <1>5, <1>6 DEF UnsubscribeStep

\* A goroutine in run sends its unsubscribe request, or leaves the loop.
RunMove(s, k, from, to) == run[<<s, k>>] = from /\ run' = [run EXCEPT ![<<s, k>>] = to]

\* Before close(sub.forwardDone), or while it sends its request, it keeps EndFrame.
LEMMA MoveFrame ==
  ASSUME TypeOK, NEW s \in Subs, NEW k \in {1, 2}, NEW from, NEW to, RunMove(s, k, from, to),
         \/ from \notin Ended /\ to \notin Ended \cup {"none"}
         \/ {from, to} \subseteq {"request", "write", "answer", "report"},
         NEW x \in Subs
  PROVE  EndFrame(x)
<1>1. /\ Run1(x)' = IF x = s /\ k = 1 THEN to ELSE Run1(x)
      /\ Run2(x)' = IF x = s /\ k = 2 THEN to ELSE Run2(x)
  BY RunMoved DEF RunMove
<1>2. (IF k = 1 THEN Run1(s) ELSE Run2(s)) = from BY RunAt DEF RunMove
<1> QED BY <1>1, <1>2 DEF EndFrame

\* A write returns to the goroutine that made it.
LEMMA WriteMoves ==
  ASSUME TypeOK, RunInv, NEW op \in Ops, WriteOk(op) \/ WriteFail(op) \/ DialFail(op)
  PROVE  /\ lastOp = op /\ reqSent = "none" /\ lastOp' = lastOp
         /\ \/ run' = run
            \/ \E s \in Subs, k \in {1, 2}, l \in {"answer", "report"} : op = <<s, k>> /\ RunMove(s, k, "write", l)
<1>1. lastOp = op /\ reqSent = "none" /\ lastOp' = lastOp BY DEF WriteOk, WriteFail, DialFail, Writing
<1>2. run' = run \/ (op[2] # 0 /\ \E l \in {"answer", "report"} : run' = [run EXCEPT ![op] = l])
  BY DEF WriteOk, WriteFail, DialFail, SendReturn
<1>3. op[2] # 0 => op \in Runs /\ op = <<op[1], op[2]>> /\ op[1] \in Subs /\ op[2] \in {1, 2} BY RunOf DEF Runs
<1>4. op[2] # 0 => run[op] = "write" BY <1>1, <1>3 DEF RunInv
<1> QED BY <1>1, <1>2, <1>3, <1>4 DEF RunMove

\* The forwarding loop ends.
LEMMA ReturnMoves ==
  ASSUME TypeOK, NEW s \in Subs, NEW k \in {1, 2},
         ForwardIn(<<s, k>>) \/ ForwardClose(<<s, k>>) \/ \E u \in Unsubscribers[s] : ForwardUnsubscribe(<<s, k>>, u)
  PROVE  run' = run \/ RunMove(s, k, "forward", "exit")
  BY DEF ForwardIn, ForwardClose, ForwardUnsubscribe, ForwardReturn, RunMove

\* The unsubscribe request.
LEMMA RequestMoves ==
  ASSUME TypeOK, NEW s \in Subs, NEW k \in {1, 2},
         RequestUnsubscribe(<<s, k>>) \/ RequestTimeout(<<s, k>>) \/ RequestReturn(<<s, k>>)
  PROVE  \E from \in {"request", "answer"}, to \in {"write", "report"} : RunMove(s, k, from, to)
  BY DEF RequestUnsubscribe, RequestTimeout, RequestReturn, RunMove

\* No step of a goroutine puts the end of the subscription out of order.
LEMMA RunEnd == ASSUME TypeOK, EndInv, NEW g \in Runs, RunStep(g) PROVE EndInv'
<1>1. PICK s \in Subs, k \in {1, 2} : g = <<s, k>> BY RunOf
<1>2. ASSUME UNCHANGED <<forwardDone, unsubDone, errBuf, errClosed, once, crashed>>,
             \A x \in Users : upc'[x] = "done" => upc[x] = "done",
             run' = run \/ \E from \in {"forward", "request", "answer"}, to \in {"exit", "write", "report"} :
                              /\ from = "forward" <=> to = "exit"
                              /\ RunMove(s, k, from, to)
      PROVE  EndInv'
  <2>1. CASE run' = run
    <3>1. \A x \in Subs : EndFrame(x) BY <2>1 DEF EndFrame, Run1, Run2
    <3> QED BY <1>2, <3>1, FrameEnd
  <2>2. ASSUME NEW from \in {"forward", "request", "answer"}, NEW to \in {"exit", "write", "report"},
               from = "forward" <=> to = "exit", RunMove(s, k, from, to)
        PROVE  EndInv'
    <3>1. \/ from \notin Ended /\ to \notin Ended \cup {"none"}
          \/ {from, to} \subseteq {"request", "write", "answer", "report"}
      BY <2>2 DEF Ended
    <3>2. \A x \in Subs : EndFrame(x) BY <2>2, <3>1, MoveFrame
    <3> QED BY <1>2, <3>2, FrameEnd
  <2> QED BY <1>2, <2>1, <2>2
<1>3. CASE ForwardIn(g) \/ ForwardClose(g)
  <2>1. UNCHANGED <<forwardDone, unsubDone, errBuf, errClosed, once, crashed, upc>>
    BY <1>3 DEF ForwardIn, ForwardClose, unsubVars
  <2>2. run' = run \/ RunMove(s, k, "forward", "exit") BY <1>1, <1>3, ReturnMoves
  <2> QED BY <1>2, <2>1, <2>2
<1>4. ASSUME NEW u \in Unsubscribers[g[1]], ForwardUnsubscribe(g, u) PROVE EndInv'
  <2>1. UNCHANGED <<forwardDone, unsubDone, errBuf, errClosed, once, crashed>> BY <1>4 DEF ForwardUnsubscribe
  <2>2. \A x \in Users : upc'[x] = "done" => upc[x] = "done" BY <1>4 DEF ForwardUnsubscribe, TypeOK
  <2>3. run' = run \/ RunMove(s, k, "forward", "exit") BY <1>1, <1>4, ReturnMoves
  <2> QED BY <1>2, <2>1, <2>2, <2>3
<1>5. CASE RequestUnsubscribe(g) \/ RequestTimeout(g) \/ RequestReturn(g)
  <2>1. UNCHANGED <<forwardDone, unsubDone, errBuf, errClosed, once, crashed, upc>>
    BY <1>5 DEF RequestUnsubscribe, RequestTimeout, RequestReturn, unsubVars
  <2>2. \E from \in {"request", "answer"}, to \in {"write", "report"} : RunMove(s, k, from, to)
    BY <1>1, <1>5, RequestMoves
  <2> QED BY <1>2, <2>1, <2>2
<1> QED
  BY <1>1, <1>3, <1>4, <1>5, CloseForwardEnd, ReportEnd, FinishEnd DEF RunStep

\* No step does.
LEMMA EndStepInv == ASSUME TypeOK, EndInv, RunInv, [Next]_vars PROVE EndInv'
<1>1. ASSUME UNCHANGED <<run, forwardDone, unsubDone, errBuf, errClosed, once, crashed, upc>> PROVE EndInv'
  <2>1. \A x \in Subs : EndFrame(x) BY <1>1 DEF EndFrame, Run1, Run2
  <2> QED BY <1>1, <2>1, FrameEnd
<1>2. ASSUME NEW s \in Subs, SubscribeStep(s) \/ ServerAnswer(s) \/ ServerNotify(s) PROVE EndInv'
  BY <1>1, <1>2 DEF SubscribeStep, Subscribe, SubscribeReturn, SubscribeCtx, SubscribeTimeout, ServerAnswer,
                    ServerNotify, fwdVars, unsubVars
<1>3. ASSUME NEW op \in Ops, WriteStep(op) PROVE EndInv'
  <2>1. CASE Reconnect(op) BY <1>1, <2>1 DEF Reconnect, fwdVars, unsubVars
  <2>2. CASE WriteOk(op) \/ WriteFail(op) \/ DialFail(op)
    <3>1. UNCHANGED <<forwardDone, unsubDone, errBuf, errClosed, once, crashed, upc>>
      BY <2>2 DEF WriteOk, WriteFail, DialFail, unsubVars
    <3>2. \/ run' = run
          \/ \E s \in Subs, k \in {1, 2}, l \in {"answer", "report"} : op = <<s, k>> /\ RunMove(s, k, "write", l)
      BY <2>2, WriteMoves
    <3>3. ASSUME NEW s \in Subs, NEW k \in {1, 2}, NEW l \in {"answer", "report"}, RunMove(s, k, "write", l)
          PROVE  EndInv'
      <4>1. {"write", l} \subseteq {"request", "write", "answer", "report"} BY <3>3
      <4>2. \A x \in Subs : EndFrame(x) BY <3>3, <4>1, MoveFrame
      <4> QED BY <3>1, <4>2, FrameEnd
    <3> QED BY <1>1, <3>1, <3>2, <3>3
  <2> QED BY <1>3, <2>1, <2>2 DEF WriteStep
<1>4. ASSUME NEW e \in {"lost", "quit"}, DispatchClose(e) PROVE EndInv'
  BY <1>1, <1>4 DEF DispatchClose, fwdVars, unsubVars
<1>5. CASE DispatchStep
  <2>1. CASE DispatchAnswer
    <3>1. UNCHANGED <<forwardDone, unsubDone, errBuf, errClosed, once, crashed, upc>>
      BY <2>1 DEF DispatchAnswer, unsubVars
    <3>2. PICK h \in Subs : AnswerEffect(h) BY <2>1, AnswerHandled
    <3>3. ASSUME NEW k \in {1, 2}, RunMove(h, k, "none", "forward") PROVE EndInv'
      <4>1. "none" \notin Ended /\ "forward" \notin Ended \cup {"none"} BY DEF Ended
      <4>2. \A x \in Subs : EndFrame(x) BY <3>3, <4>1, MoveFrame
      <4> QED BY <3>1, <4>2, FrameEnd
    <3>4. run' = run \/ RunMove(h, 1, "none", "forward") \/ RunMove(h, 2, "none", "forward")
      BY <3>2 DEF AnswerEffect, RunMove, Run1, Run2
    <3> QED BY <1>1, <3>1, <3>3, <3>4
  <2>2. CASE ~DispatchAnswer
    BY <1>1, <1>5, <2>2 DEF DispatchStep, DispatchNote, DispatchReqSent, DispatchClosed, DispatchSkip, fwdVars, unsubVars
  <2> QED BY <2>1, <2>2
<1>6. ASSUME NEW g \in Runs, ForwardSend(g) PROVE EndInv' BY <1>1, <1>6 DEF ForwardSend, unsubVars
<1>7. CASE UNCHANGED vars BY <1>1, <1>7 DEF vars, fwdVars, unsubVars
<1> QED BY <1>2, <1>3, <1>4, <1>5, <1>6, <1>7, RunEnd, UnsubscribeEnd DEF Next

\* A goroutine goes on, without a new one.
RunFrame(x) ==
  /\ Run1(x)' = Run1(x) \/ (Run1(x)' \notin {"none", "forward"} /\ Run1(x) # "none")
  /\ Run2(x)' = Run2(x) \/ (Run2(x)' # "none" /\ Run2(x) # "none")
  /\ Run1(x) = "none" => received'[x] = received[x] /\ Buf(x)' = Buf(x)

\* What keeps RunFrame, while requests stay where they are, keeps RunInv.
LEMMA FrameRun ==
  ASSUME TypeOK, RunInv, \A x \in Subs : RunFrame(x),
         UNCHANGED <<subscriber, respWait, clientSubs, server, lastOp, reqSent, writeConn>>,
         \A x \in dispatch.pending : x \in dispatch'.pending \/ Run1(x)' # "forward",
         dispatch'.pending \subseteq dispatch.pending,
         \A g \in Runs : run[g] = "write" => run'[g] = "write"
  PROVE  RunInv'
<1>1. ASSUME NEW s \in Subs
      PROVE  /\ subscriber[s] = "idle" => Run1(s)' = "none"
             /\ Run1(s)' = "none" => received'[s] = <<>> /\ Buf(s)' = <<>> /\ Run2(s)' = "none"
             /\ Run1(s)' = "forward" => Run2(s)' = "none" /\ (s \in clientSubs \/ s \in dispatch'.pending)
  BY DEF RunFrame, RunInv
<1> QED BY <1>1 DEF RunInv

\* A move of a goroutine that has left the loop keeps RunFrame.
LEMMA MoveRun ==
  ASSUME TypeOK, NEW s \in Subs, NEW k \in {1, 2}, NEW from, NEW to, RunMove(s, k, from, to),
         from # "none", to \notin {"none", "forward"},
         UNCHANGED received, \A x \in Subs : Run1(x) = "none" => Buf(x)' = Buf(x)
  PROVE  /\ \A x \in Subs : RunFrame(x) /\ (x = s /\ k = 1 => Run1(x)' # "forward")
         /\ from # "write" => \A g \in Runs : run[g] = "write" => run'[g] = "write"
<1>1. \A x \in Subs : /\ Run1(x)' = IF x = s /\ k = 1 THEN to ELSE Run1(x)
                      /\ Run2(x)' = IF x = s /\ k = 2 THEN to ELSE Run2(x)
  BY RunMoved DEF RunMove
<1>2. (IF k = 1 THEN Run1(s) ELSE Run2(s)) = from BY RunAt DEF RunMove
<1>3. \A x \in Subs : RunFrame(x) /\ (x = s /\ k = 1 => Run1(x)' # "forward") BY <1>1, <1>2 DEF RunFrame
<1>4. ASSUME NEW g \in Runs, run[g] = "write", from # "write" PROVE run'[g] = "write"
  <2>1. g # <<s, k>> BY <1>4 DEF RunMove
  <2> QED BY <1>4, <2>1 DEF RunMove, TypeOK
<1> QED BY <1>3, <1>4

\* forward drops its own buffer only.
LEMMA ReturnBuf ==
  ASSUME TypeOK, NEW s \in Subs, NEW k \in {1, 2}, run[<<s, k>>] = "forward", NEW b,
         buffer' = [buffer EXCEPT ![<<s, k>>] = b]
  PROVE  \A x \in Subs : Run1(x) = "none" => Buf(x)' = Buf(x)
<1>1. \A x \in Subs : Buf(x)' = IF x = s /\ k = 1 THEN b ELSE Buf(x) BY BufMoved
<1>2. k = 1 => Run1(s) # "none" BY RunAt
<1> QED BY <1>1, <1>2

\* Steps of Subscribe.
LEMMA SubscribeRun ==
  ASSUME TypeOK, RunInv, DispatchInv, NEW s \in Subs, SubscribeStep(s) PROVE RunInv'
<1>1. UNCHANGED <<run, received, buffer, server, clientSubs, dispatch, reqSent, writeConn>>
  BY DEF SubscribeStep, Subscribe, SubscribeReturn, SubscribeCtx, SubscribeTimeout, fwdVars, netVars, sendVars
<1>2. \A x \in Subs : Run1(x)' = Run1(x) /\ Run2(x)' = Run2(x) /\ Buf(x)' = Buf(x) BY <1>1 DEF Run1, Run2, Buf
<1>3. CASE Subscribe(s)
  <2>1. /\ subscriber' = [subscriber EXCEPT ![s] = "write"] /\ respWait' = respWait \cup {s}
        /\ lastOp' = <<s, 0>> /\ dispatch.pending = {} /\ subscriber[s] = "idle"
    BY <1>3 DEF Subscribe, TakeLock, Idle
  <2>2. \A g \in Runs : lastOp' # g BY <2>1 DEF Runs
  <2>3. \A x \in Subs : lastOp' = <<x, 0>> => x = s BY <2>1
  <2>4. \A x \in Subs : subscriber'[x] = IF x = s THEN "write" ELSE subscriber[x] BY <2>1 DEF TypeOK
  <2> QED BY <1>1, <1>2, <2>1, <2>2, <2>3, <2>4 DEF RunInv
<1>4. CASE SubscribeReturn(s) \/ SubscribeCtx(s) \/ SubscribeTimeout(s)
  <2>1. lastOp' = lastOp /\ respWait' \subseteq respWait
    BY <1>4 DEF SubscribeReturn, SubscribeCtx, SubscribeTimeout, sendVars
  <2>2. \A x \in Subs : subscriber'[x] = "idle" => subscriber[x] = "idle"
    BY <1>4 DEF SubscribeReturn, SubscribeCtx, SubscribeTimeout, TypeOK
  <2> QED BY <1>1, <1>2, <2>1, <2>2 DEF RunInv
<1> QED BY <1>3, <1>4 DEF SubscribeStep

\* Steps of write.
LEMMA WriteRun ==
  ASSUME TypeOK, RunInv, DispatchInv, NEW op \in Ops, WriteStep(op) PROVE RunInv'
<1>1. CASE Reconnect(op)
  <2>1. /\ UNCHANGED <<run, received, buffer, subscriber, lastOp, reqSent>> /\ lastOp = op /\ reqSent = "none"
        /\ respWait' = {} /\ clientSubs' = {} /\ dispatch'.pending = clientSubs /\ dispatch.pending = {}
        /\ server' = [s \in Subs |-> IF <<s, 0>> = op \/ server[s] = "none" THEN "none" ELSE "gone"]
    BY <1>1 DEF Reconnect, CancelRequests, Disconnect, Closing, fwdVars, Writing, Idle
  <2>2. \A x \in Subs : Run1(x)' = Run1(x) /\ Run2(x)' = Run2(x) /\ Buf(x)' = Buf(x) BY <2>1 DEF Run1, Run2, Buf
  <2> QED BY <2>1, <2>2 DEF RunInv
<1>2. CASE WriteOk(op) \/ WriteFail(op) \/ DialFail(op)
  <2>1. /\ lastOp = op /\ reqSent = "none" /\ lastOp' = lastOp
        /\ \/ run' = run
           \/ \E s \in Subs, k \in {1, 2}, l \in {"answer", "report"} : op = <<s, k>> /\ RunMove(s, k, "write", l)
    BY <1>2, WriteMoves
  <2>2. /\ UNCHANGED <<received, buffer, clientSubs, respWait, dispatch>>
        /\ \A x \in Subs : subscriber'[x] = "idle" => subscriber[x] = "idle"
    BY <1>2 DEF WriteOk, WriteFail, DialFail, SendReturn, TypeOK
  <2>3. \A x \in Subs : Run1(x) = "none" => Buf(x)' = Buf(x) BY <2>2 DEF Buf
  <2>4. \A x \in Subs : RunFrame(x)
    <3>1. CASE run' = run BY <2>2, <2>3, <3>1 DEF RunFrame, Run1, Run2
    <3>2. ASSUME NEW s \in Subs, NEW k \in {1, 2}, NEW l \in {"answer", "report"}, RunMove(s, k, "write", l)
          PROVE  \A x \in Subs : RunFrame(x)
      BY <2>2, <2>3, <3>2, MoveRun
    <3> QED BY <2>1, <3>1, <3>2
  <2>5. reqSent' # "none" \/ (writeConn' = FALSE /\ run' = run)
    BY <1>2 DEF WriteOk, WriteFail, DialFail, SendReturn
  <2>6. \A x \in Subs : subscriber[x] = "idle" => server'[x] = server[x]
    <3>1. server' = server \/ Reached(op) BY <1>2 DEF WriteOk, WriteFail, DialFail, netVars
    <3>2. CASE Reached(op) /\ op[2] = 0
      <4>1. op = <<op[1], 0>> /\ op[1] \in Subs BY <3>2, RunOf
      <4>2. subscriber[op[1]] # "idle" BY <2>1, <4>1 DEF RunInv
      <4> QED BY <3>2, <4>2 DEF Reached, TypeOK
    <3>3. CASE Reached(op) /\ op[2] # 0
      <4>1. \A x \in Subs : server[x] # "active" => server'[x] = server[x] BY <3>3 DEF Reached, TypeOK
      <4> QED BY <4>1 DEF RunInv
    <3> QED BY <3>1, <3>2, <3>3
  <2>7. ASSUME NEW s \in Subs
        PROVE  /\ subscriber[s] = "idle" => Run1(s)' = "none"
               /\ Run1(s)' = "none" => received[s] = <<>> /\ Buf(s)' = <<>> /\ Run2(s)' = "none"
               /\ Run1(s)' = "forward" => Run2(s)' = "none" /\ (s \in clientSubs \/ s \in dispatch.pending)
    BY <2>2, <2>4 DEF RunFrame, RunInv
  <2>8. \A g \in Runs : lastOp' = g /\ reqSent' = "none" => run'[g] = "write" BY <2>1, <2>5 DEF RunInv
  <2>9. ~(reqSent' = "none" /\ writeConn' = TRUE) BY <2>5
  <2> QED BY <2>1, <2>2, <2>5, <2>6, <2>7, <2>8, <2>9 DEF RunInv
<1> QED BY <1>1, <1>2 DEF WriteStep

\* The server, and dispatch on what it sends.
LEMMA DispatchRun ==
  ASSUME TypeOK, EndInv, RunInv, DispatchInv,
         \/ \E s \in Subs : ServerAnswer(s) \/ ServerNotify(s)
         \/ \E e \in {"lost", "quit"} : DispatchClose(e)
         \/ DispatchStep
  PROVE  RunInv'
<1>1. ASSUME NEW s \in Subs, ServerAnswer(s) \/ ServerNotify(s) PROVE RunInv'
  <2>1. UNCHANGED <<run, received, buffer, subscriber, lastOp, reqSent, writeConn, respWait, clientSubs, dispatch>>
    BY <1>1 DEF ServerAnswer, ServerNotify, fwdVars, opVars, sendVars
  <2>2. \A x \in Subs : Run1(x)' = Run1(x) /\ Run2(x)' = Run2(x) /\ Buf(x)' = Buf(x) BY <2>1 DEF Run1, Run2, Buf
  <2>3. \A x \in Subs : server[x] = "none" => server'[x] = "none" BY <1>1 DEF ServerAnswer, ServerNotify, TypeOK
  <2> QED BY <2>1, <2>2, <2>3 DEF RunInv
<1>2. ASSUME NEW e \in {"lost", "quit"}, DispatchClose(e) PROVE RunInv'
  <2>1. /\ UNCHANGED <<run, received, buffer, subscriber, lastOp, reqSent, writeConn>>
        /\ dispatch'.pending = clientSubs /\ dispatch.pending = {}
        /\ clientSubs' = {} /\ (respWait' = {} \/ (clientSubs = {} /\ respWait' = respWait))
    BY <1>2 DEF DispatchClose, CancelRequests, Closing, fwdVars, sendVars, Idle, DispatchInv, TypeOK
  <2>2. \A x \in Subs : Run1(x)' = Run1(x) /\ Run2(x)' = Run2(x) /\ Buf(x)' = Buf(x) BY <2>1 DEF Run1, Run2, Buf
  <2>3. \A x \in Subs : server[x] = "none" => server'[x] = "none" BY <1>2 DEF DispatchClose, Disconnect, TypeOK
  <2> QED BY <2>1, <2>2, <2>3 DEF RunInv
<1>3. CASE DispatchAnswer
  <2>1. PICK h \in Subs : AnswerEffect(h) BY <1>3, AnswerHandled
  <2>2. UNCHANGED <<received, buffer, subscriber, lastOp, reqSent, writeConn, dispatch, server>>
    BY <1>3 DEF DispatchAnswer, sendVars
  <2>3. \A x \in Subs : Buf(x)' = Buf(x) BY <2>2 DEF Buf
  <2>4. CASE run' = run /\ clientSubs' = clientSubs /\ respWait' \subseteq respWait
    <3>1. \A x \in Subs : Run1(x)' = Run1(x) /\ Run2(x)' = Run2(x) BY <2>4 DEF Run1, Run2
    <3> QED BY <2>2, <2>3, <2>4, <3>1 DEF RunInv
  <2>5. ASSUME NEW k \in {1, 2}, h \in respWait, respWait' = respWait \ {h}, clientSubs' = clientSubs \cup {h},
               run[<<h, k>>] = "none", k = 1 <=> Run1(h) = "none", run' = [run EXCEPT ![<<h, k>>] = "forward"]
        PROVE  RunInv'
    <3>1. \A x \in Subs : /\ Run1(x)' = IF x = h /\ k = 1 THEN "forward" ELSE Run1(x)
                          /\ Run2(x)' = IF x = h /\ k = 2 THEN "forward" ELSE Run2(x)
      BY <2>5, RunMoved
    <3>2. \A g \in Runs : lastOp = g /\ reqSent = "none" => run'[g] = "write"
      <4> SUFFICES ASSUME NEW g \in Runs, lastOp = g, reqSent = "none" PROVE run'[g] = "write"
        OBVIOUS
      <4>1. run[g] = "write" BY DEF RunInv
      <4>2. g # <<h, k>> BY <2>5, <4>1
      <4> QED BY <2>5, <4>1, <4>2 DEF TypeOK
    <3>3. subscriber[h] # "idle" /\ Run1(h) # "forward" BY <2>5 DEF RunInv
    <3>4. (IF k = 1 THEN Run1(h) ELSE Run2(h)) = "none" BY <2>5, RunAt
    <3> QED BY <2>2, <2>3, <2>5, <3>1, <3>2, <3>3, <3>4 DEF RunInv
  <2> QED BY <2>1, <2>4, <2>5 DEF AnswerEffect, Run1, Run2
<1>4. CASE DispatchNote
  <2>1. /\ UNCHANGED <<run, received, buffer, subscriber, lastOp, reqSent, writeConn, respWait, clientSubs, server>>
        /\ dispatch.pending = {} /\ dispatch'.pending = {}
    BY <1>4 DEF DispatchNote, fwdVars, opVars, sendVars, Idle, Deliver
  <2>2. \A x \in Subs : Run1(x)' = Run1(x) /\ Run2(x)' = Run2(x) /\ Buf(x)' = Buf(x) BY <2>1 DEF Run1, Run2, Buf
  <2> QED BY <2>1, <2>2 DEF RunInv
<1>5. CASE DispatchReqSent
  <2>1. /\ UNCHANGED <<run, received, buffer, subscriber, clientSubs, server, dispatch>>
        /\ lastOp' = NoOp /\ respWait' \subseteq respWait
    BY <1>5 DEF DispatchReqSent, fwdVars, netVars
  <2>2. \A x \in Subs : Run1(x)' = Run1(x) /\ Run2(x)' = Run2(x) /\ Buf(x)' = Buf(x) BY <2>1 DEF Run1, Run2, Buf
  <2>3. (\A x \in Subs : lastOp' # <<x, 0>>) /\ \A g \in Runs : lastOp' # g
    BY <2>1, SubAssumption DEF NoOp, Runs
  <2> QED BY <2>1, <2>2, <2>3 DEF RunInv
<1>6. ASSUME NEW e \in {"lost", "reconnected"}, DispatchClosed(e) PROVE RunInv'
  <2>1. /\ UNCHANGED <<run, received, buffer, subscriber, lastOp, reqSent, writeConn, clientSubs, server>>
        /\ dispatch.pending = {} /\ dispatch'.pending = {} /\ dispatch.op = e
    BY <1>6 DEF DispatchClosed, fwdVars, sendVars, netVars, Idle, Closing
  <2>2. \A x \in Subs : Run1(x)' = Run1(x) /\ Run2(x)' = Run2(x) /\ Buf(x)' = Buf(x) BY <2>1 DEF Run1, Run2, Buf
  <2>3. ASSUME NEW x \in Subs, x \in respWait' PROVE x \in respWait \/ (lastOp = <<x, 0>> /\ clientSubs = {})
    BY <1>6, <2>1, <2>3, RunOf DEF DispatchClosed, DispatchInv
  <2> QED BY <2>1, <2>2, <2>3 DEF RunInv
<1>7. ASSUME NEW s \in Subs, DispatchSkip(s) PROVE RunInv'
  <2>1. UNCHANGED <<run, received, buffer, subscriber, lastOp, reqSent, writeConn, respWait, clientSubs, server>>
    BY <1>7 DEF DispatchSkip, fwdVars, opVars, sendVars, netVars
  <2>2. \A x \in Subs : RunFrame(x) /\ Run1(x)' = Run1(x) BY <2>1 DEF RunFrame, Run1, Run2, Buf
  <2>3. Run1(s) # "forward" BY <1>7 DEF DispatchSkip, EndInv, RunInv, Ended
  <2>4. /\ dispatch'.pending \subseteq dispatch.pending
        /\ \A x \in dispatch.pending : x \in dispatch'.pending \/ x = s
    BY <1>7 DEF DispatchSkip, Idle, DispatchInv, TypeOK
  <2> QED BY <2>1, <2>2, <2>3, <2>4, FrameRun
<1> QED BY <1>1, <1>2, <1>3, <1>4, <1>5, <1>6, <1>7 DEF DispatchStep

\* Steps of a forwarding goroutine.
LEMMA RunRun ==
  ASSUME TypeOK, RunInv, DispatchInv, NEW g \in Runs, RunStep(g) \/ ForwardSend(g) PROVE RunInv'
<1>1. PICK s \in Subs, k \in {1, 2} : g = <<s, k>> BY RunOf
<1>g. g[1] = s /\ g[2] = k BY <1>1
<1>2. CASE ForwardIn(g) \/ ForwardClose(g) \/ \E u \in Unsubscribers[g[1]] : ForwardUnsubscribe(g, u)
  <2>1. /\ UNCHANGED <<received, subscriber, lastOp, reqSent, writeConn, respWait, clientSubs, server>>
        /\ run[<<s, k>>] = "forward"
    BY <1>1, <1>2 DEF ForwardIn, ForwardClose, ForwardUnsubscribe, opVars, sendVars, netVars
  <2>2. \E b : buffer' = [buffer EXCEPT ![<<s, k>>] = b]
    BY <1>1, <1>2 DEF ForwardIn, ForwardClose, ForwardUnsubscribe, ForwardReturn
  <2>3. \A x \in Subs : Run1(x) = "none" => Buf(x)' = Buf(x) BY <2>1, <2>2, ReturnBuf
  <2>4. run' = run \/ RunMove(s, k, "forward", "exit") BY <1>1, <1>2, <1>g, ReturnMoves
  <2>5. /\ \A x \in Subs : RunFrame(x)
        /\ \A h \in Runs : run[h] = "write" => run'[h] = "write"
    <3>1. CASE run' = run BY <2>1, <2>3, <3>1 DEF RunFrame, Run1, Run2
    <3>2. CASE RunMove(s, k, "forward", "exit") BY <2>1, <2>3, <3>2, MoveRun
    <3> QED BY <2>4, <3>1, <3>2
  <2>6. dispatch'.pending \subseteq dispatch.pending
    <3>1. CASE ForwardIn(g) BY <3>1 DEF ForwardIn, Idle
    <3>2. CASE ForwardClose(g) BY <3>2 DEF ForwardClose, TypeOK
    <3>3. CASE \E u \in Unsubscribers[g[1]] : ForwardUnsubscribe(g, u) BY <3>3 DEF ForwardUnsubscribe
    <3> QED BY <1>2, <3>1, <3>2, <3>3
  <2>7. ASSUME NEW x \in dispatch.pending, x \notin dispatch'.pending PROVE Run1(x)' # "forward"
    <3>1. ForwardClose(g) BY <1>2, <2>7 DEF ForwardIn, ForwardUnsubscribe, Idle, DispatchInv
    <3>2. x = s /\ x \in Subs BY <1>g, <2>7, <3>1 DEF ForwardClose, TypeOK
    <3>3. RunMove(s, k, "forward", "exit") BY <1>1, <3>1 DEF ForwardClose, ForwardReturn, RunMove
    <3>4. Run1(s)' = IF k = 1 THEN "exit" ELSE Run1(s) BY <3>3, RunMoved DEF RunMove
    <3>5. run[<<s, k>>] = (IF k = 1 THEN Run1(s) ELSE Run2(s)) BY RunAt
    <3>6. k = 2 => Run2(s) = "forward" BY <2>1, <3>5
    <3> QED BY <3>2, <3>4, <3>6 DEF RunInv
  <2> QED BY <2>1, <2>5, <2>6, <2>7, FrameRun
<1>3. CASE ForwardSend(g)
  <2>1. /\ UNCHANGED <<run, subscriber, lastOp, reqSent, writeConn, respWait, clientSubs, server, dispatch>>
        /\ run[<<s, k>>] = "forward"
    BY <1>1, <1>3 DEF ForwardSend, opVars, sendVars, netVars
  <2>2. \A x \in Subs : received'[x] # received[x] => x = s /\ k = 1 BY <1>3, <1>g DEF ForwardSend, TypeOK
  <2>3. \E b : buffer' = [buffer EXCEPT ![<<s, k>>] = b] BY <1>1, <1>3 DEF ForwardSend
  <2>4. \A x \in Subs : Run1(x) = "none" => Buf(x)' = Buf(x) BY <2>1, <2>3, ReturnBuf
  <2>5. k = 1 => Run1(s) = "forward" BY <2>1, RunAt
  <2>6. \A x \in Subs : RunFrame(x) BY <2>1, <2>2, <2>4, <2>5 DEF RunFrame, Run1, Run2
  <2> QED BY <2>1, <2>6, FrameRun
<1>4. CASE RequestUnsubscribe(g)
  <2>1. /\ UNCHANGED <<received, buffer, subscriber, reqSent, writeConn, respWait, clientSubs, server, dispatch>>
        /\ RunMove(s, k, "request", "write") /\ lastOp' = <<s, k>>
    BY <1>1, <1>4 DEF RequestUnsubscribe, TakeLock, opVars, netVars, RunMove
  <2>2. \A x \in Subs : Buf(x)' = Buf(x) BY <2>1 DEF Buf
  <2>3. \A x \in Subs : RunFrame(x) BY <2>1, <2>2, MoveRun
  <2>4. ASSUME NEW x \in Subs
        PROVE  /\ subscriber[x] = "idle" => Run1(x)' = "none"
               /\ Run1(x)' = "none" => received[x] = <<>> /\ Buf(x)' = <<>> /\ Run2(x)' = "none"
               /\ Run1(x)' = "forward" => Run2(x)' = "none" /\ (x \in clientSubs \/ x \in dispatch.pending)
    BY <2>1, <2>3 DEF RunFrame, RunInv
  <2>5. \A x \in Subs : lastOp' # <<x, 0>> BY <2>1
  <2>6. run'[<<s, k>>] = "write" BY <1>1, <2>1 DEF RunMove, TypeOK
  <2> QED BY <2>1, <2>4, <2>5, <2>6 DEF RunInv
<1>5. CASE CloseForwardDone(g) \/ RequestTimeout(g) \/ RequestReturn(g) \/ ReportError(g) \/ CloseUnsubDone(g)
  <2>1. UNCHANGED <<received, buffer, subscriber, lastOp, reqSent, writeConn, respWait, clientSubs, server, dispatch>>
    BY <1>5 DEF CloseForwardDone, RequestTimeout, RequestReturn, ReportError, CloseUnsubDone, opVars, sendVars, netVars
  <2>2. \/ run' = run
        \/ \E from \in {"exit", "request", "answer", "report", "finish"}, to \in {"request", "report", "finish", "done"} :
             RunMove(s, k, from, to)
    BY <1>1, <1>5 DEF CloseForwardDone, RequestTimeout, RequestReturn, ReportError, CloseUnsubDone, RunMove
  <2>3. \A x \in Subs : Buf(x)' = Buf(x) BY <2>1 DEF Buf
  <2>4. (\A x \in Subs : RunFrame(x)) /\ \A h \in Runs : run[h] = "write" => run'[h] = "write"
    <3>1. CASE run' = run BY <2>1, <2>3, <3>1 DEF RunFrame, Run1, Run2
    <3>2. ASSUME NEW from \in {"exit", "request", "answer", "report", "finish"},
                 NEW to \in {"request", "report", "finish", "done"}, RunMove(s, k, from, to)
          PROVE  (\A x \in Subs : RunFrame(x)) /\ \A h \in Runs : run[h] = "write" => run'[h] = "write"
      BY <2>1, <2>3, <3>2, MoveRun
    <3> QED BY <2>2, <3>1, <3>2
  <2> QED BY <2>1, <2>4, FrameRun
<1> QED BY <1>2, <1>3, <1>4, <1>5 DEF RunStep

\* A goroutine is started by an answer only, in every step.
LEMMA RunStepInv == ASSUME TypeOK, EndInv, RunInv, DispatchInv, [Next]_vars PROVE RunInv'
<1>1. ASSUME UNCHANGED <<run, received, buffer, subscriber, lastOp, reqSent, writeConn, respWait, clientSubs,
                         server, dispatch>>
      PROVE  RunInv'
  <2>1. \A x \in Subs : RunFrame(x) BY <1>1 DEF RunFrame, Run1, Run2, Buf
  <2> QED BY <1>1, <2>1, FrameRun
<1>2. ASSUME NEW s \in Subs, NEW u \in Unsubscribers[s], UnsubscribeStep(s, u) PROVE RunInv'
  BY <1>1, <1>2 DEF UnsubscribeStep, Unsubscribe, UnsubscribeAgain, UnsubscribeReturn, opVars, sendVars, fwdVars, netVars
<1>3. CASE UNCHANGED vars BY <1>1, <1>3 DEF vars, opVars, sendVars, fwdVars, netVars
<1> QED BY <1>2, <1>3, SubscribeRun, WriteRun, DispatchRun, RunRun DEF Next

\* Numbers of notifications are not 0 in what is left of the connection.
LEMMA TailNotes ==
  ASSUME TypeOK, DispatchInv, wire # <<>>
  PROVE  /\ \A i \in DOMAIN Tail(wire) : Tail(wire)[i].type = "note" => Tail(wire)[i].val # 0
         /\ Head(wire).type = "note" => Head(wire).val # 0
<1>1. wire \in Seq(Messages) BY DEF TypeOK, Messages
<1>2. DOMAIN wire = 1 .. Len(wire) /\ DOMAIN Tail(wire) = 1 .. Len(wire) - 1 BY <1>1, HeadTail, LenProperties
<1> QED BY <1>2, HeadTail DEF DispatchInv

\* What dispatch is blocked in, in every step.
LEMMA DispatchStepInv ==
  ASSUME TypeOK, RunInv, DispatchInv, [Next]_vars PROVE DispatchInv'
<1>1. CASE DispatchAnswer
  <2>1. dispatch' = dispatch /\ dispatch = Idle /\ link' = link /\ link = "up" BY <1>1 DEF DispatchAnswer
  <2>2. \A i \in DOMAIN wire' : wire'[i].type = "note" => wire'[i].val # 0 BY <1>1, TailNotes DEF DispatchAnswer
  <2> QED BY <2>1, <2>2 DEF DispatchInv, Idle
<1>2. CASE DispatchNote
  <2>1. \A i \in DOMAIN wire' : wire'[i].type = "note" => wire'[i].val # 0
    BY <1>2, TailNotes DEF DispatchNote
  <2>2. Head(wire) \in Messages /\ Head(wire).val # 0 BY <1>2, HeadTail, TailNotes DEF DispatchNote
  <2>3. link' = link /\ link = "up" BY <1>2 DEF DispatchNote
  <2>4. CASE Head(wire).sub \in clientSubs
    <3>1. dispatch' = Deliver(Head(wire).sub, Head(wire).val) BY <1>2, <2>4 DEF DispatchNote
    <3>2. Head(wire).sub \in Subs BY <2>2 DEF Messages
    <3> QED BY <2>1, <2>2, <2>3, <3>1, <3>2 DEF Deliver, DispatchInv
  <2>5. CASE Head(wire).sub \notin clientSubs
    <3>1. dispatch' = Idle BY <1>2, <2>5 DEF DispatchNote
    <3> QED BY <2>1, <2>3, <3>1 DEF Idle, DispatchInv
  <2> QED BY <2>4, <2>5
<1>3. ASSUME NEW e \in {"lost", "quit"}, DispatchClose(e) PROVE DispatchInv'
  <2>1. /\ dispatch'.op = e /\ dispatch'.pending = clientSubs /\ link' = "down" /\ wire' = <<>>
    BY <1>3 DEF DispatchClose, Disconnect, Closing
  <2>2. clientSubs' = {} /\ (clientSubs # {} => respWait' = {})
    BY <1>3 DEF DispatchClose, CancelRequests, DispatchInv, TypeOK
  <2> QED BY <2>1, <2>2 DEF DispatchInv
<1>4. CASE \E s \in Subs : ServerAnswer(s) \/ ServerNotify(s)
  <2>1. PICK m \in Messages : (m.type = "note" => m.val # 0) /\ wire' = Append(wire, m)
    <3>1. ASSUME NEW s \in Subs, ServerAnswer(s)
          PROVE  \E m \in Messages : (m.type = "note" => m.val # 0) /\ wire' = Append(wire, m)
      BY <3>1 DEF ServerAnswer, Message, Messages
    <3>2. ASSUME NEW s \in Subs, ServerNotify(s)
          PROVE  \E m \in Messages : (m.type = "note" => m.val # 0) /\ wire' = Append(wire, m)
      <4>1. sent[s] \in Nat BY DEF TypeOK, Notes
      <4>2. Message("note", s, sent[s] + 1) \in Messages /\ Message("note", s, sent[s] + 1).val # 0
        BY <4>1 DEF Message, Messages, Notes
      <4> QED BY <3>2, <4>2 DEF ServerNotify
    <3> QED BY <1>4, <3>1, <3>2
  <2>2. wire \in Seq(Messages) BY DEF TypeOK, Messages
  <2>3. /\ DOMAIN wire' = 1 .. Len(wire) + 1 /\ DOMAIN wire = 1 .. Len(wire) /\ Len(wire) \in Nat
        /\ \A i \in 1 .. Len(wire) : wire'[i] = wire[i]
        /\ wire'[Len(wire) + 1] = m
    BY <2>1, <2>2, AppendProperties, LenProperties
  <2>4. \A i \in DOMAIN wire' : i \in DOMAIN wire \/ i = Len(wire) + 1 BY <2>3
  <2>5. UNCHANGED <<dispatch, link, clientSubs, respWait, lastOp>> /\ link = "up"
    BY <1>4 DEF ServerAnswer, ServerNotify, opVars, sendVars
  <2>6. \A i \in DOMAIN wire' : wire'[i].type = "note" => wire'[i].val # 0
    BY <2>1, <2>3, <2>4 DEF DispatchInv
  <2> QED BY <2>5, <2>6 DEF DispatchInv
<1>5. ASSUME UNCHANGED <<link, wire, clientSubs>>, dispatch' = Idle PROVE DispatchInv'
  BY <1>5 DEF DispatchInv, Idle
<1>6. ASSUME UNCHANGED <<link, wire, clientSubs, respWait, lastOp>>, NEW s \in Subs,
             dispatch' = [dispatch EXCEPT !.pending = @ \ {s}], s \in dispatch.pending
      PROVE  DispatchInv'
  BY <1>6 DEF DispatchInv, TypeOK
<1>7. ASSUME UNCHANGED <<link, wire, clientSubs, dispatch>>,
             dispatch = Idle \/ (respWait' \subseteq respWait /\ lastOp' = lastOp)
      PROVE  DispatchInv'
  BY <1>7 DEF DispatchInv, Idle
<1>8. ASSUME NEW s \in Subs, DispatchSkip(s) PROVE DispatchInv'
  BY <1>5, <1>6, <1>8 DEF DispatchSkip, netVars, opVars, sendVars
<1>9. ASSUME NEW e \in {"lost", "reconnected"}, DispatchClosed(e) PROVE DispatchInv'
  BY <1>5, <1>9 DEF DispatchClosed, netVars
<1>10. CASE DispatchReqSent BY <1>7, <1>10 DEF DispatchReqSent, netVars
<1>11. ASSUME NEW op \in Ops, WriteStep(op) PROVE DispatchInv'
  <2>1. CASE Reconnect(op)
    <3>1. /\ dispatch'.op = "reconnected" /\ link' = "up" /\ wire' = <<>> /\ respWait' = {} /\ clientSubs' = {}
          /\ lastOp' \in Ops
      BY <2>1 DEF Reconnect, CancelRequests, Disconnect, Closing, Writing
    <3> QED BY <3>1 DEF DispatchInv
  <2>2. CASE WriteOk(op) \/ WriteFail(op) \/ DialFail(op)
    BY <1>7, <2>2 DEF WriteOk, WriteFail, DialFail, netVars
  <2> QED BY <1>11, <2>1, <2>2 DEF WriteStep
<1>12. ASSUME NEW s \in Subs, SubscribeStep(s) PROVE DispatchInv'
  BY <1>7, <1>12 DEF SubscribeStep, Subscribe, SubscribeReturn, SubscribeCtx, SubscribeTimeout, TakeLock, netVars, sendVars
<1>13. ASSUME NEW g \in Runs, RunStep(g) \/ ForwardSend(g) PROVE DispatchInv'
  <2>1. CASE ForwardIn(g) BY <1>5, <2>1 DEF ForwardIn, netVars
  <2>2. CASE ForwardClose(g) BY <1>6, <2>2, RunOf DEF ForwardClose, netVars, opVars, sendVars
  <2>3. CASE RequestUnsubscribe(g) BY <1>7, <2>3 DEF RequestUnsubscribe, TakeLock, netVars
  <2>4. CASE \/ CloseForwardDone(g) \/ RequestTimeout(g) \/ RequestReturn(g) \/ ReportError(g) \/ CloseUnsubDone(g)
             \/ ForwardSend(g) \/ \E u \in Unsubscribers[g[1]] : ForwardUnsubscribe(g, u)
    BY <1>7, <2>4 DEF CloseForwardDone, RequestTimeout, RequestReturn, ReportError, CloseUnsubDone, ForwardSend,
                      ForwardUnsubscribe, netVars, opVars, sendVars
  <2> QED BY <1>13, <2>1, <2>2, <2>3, <2>4 DEF RunStep
<1>14. ASSUME NEW s \in Subs, NEW u \in Unsubscribers[s], UnsubscribeStep(s, u) PROVE DispatchInv'
  BY <1>7, <1>14 DEF UnsubscribeStep, Unsubscribe, UnsubscribeAgain, UnsubscribeReturn, netVars, opVars, sendVars
<1>15. CASE UNCHANGED vars BY <1>7, <1>15 DEF vars, netVars, opVars, sendVars
<1> QED
  BY <1>1, <1>2, <1>3, <1>4, <1>8, <1>9, <1>10, <1>11, <1>12, <1>13, <1>14, <1>15 DEF Next, DispatchStep


-----------------------------------------------------------------------------
(* The way of the values.                                                  *)

\* The lengths that the arguments below add up are numbers.
LEMMA Lengths ==
  ASSUME TypeOK, NEW s \in Subs
  PROVE  /\ received[s] \in Seq(Notes) /\ Buf(s) \in Seq(Notes)
         /\ Len(received[s]) \in Nat /\ DOMAIN received[s] = 1 .. Len(received[s])
         /\ Len(Buf(s)) \in Nat /\ DOMAIN Buf(s) = 1 .. Len(Buf(s))
         /\ Taken(s) \in Nat /\ Passed(s) \in Nat /\ sent[s] \in Nat
         /\ wire \in Seq(Messages) /\ Len(wire) \in Nat /\ DOMAIN wire = 1 .. Len(wire)
<1>1. received[s] \in Seq(Notes) /\ Buf(s) \in Seq(Notes) /\ wire \in Seq(Messages) BY RunOf DEF TypeOK, Messages, Buf
<1>2. Len(received[s]) \in Nat /\ Len(Buf(s)) \in Nat /\ Len(wire) \in Nat BY <1>1, LenProperties
<1>3. PICK a \in Nat, b \in Nat : Len(received[s]) = a /\ Len(Buf(s)) = b BY <1>2
<1>4. Taken(s) = a + b BY <1>3 DEF Taken
<1>5. Taken(s) \in Nat /\ Passed(s) \in Nat BY <1>4 DEF Passed
<1> QED BY <1>1, <1>2, <1>5, LenProperties DEF TypeOK, Notes

\* The oldest notification in flight of a subscription is the next one.
LEMMA NextValue ==
  ASSUME TypeOK, NEW s \in Subs, InFlight(s), wire # <<>>, NoteAt(s, 1)
  PROVE  wire[1].val = Passed(s) + 1 /\ Passed(s) + 1 <= sent[s]
<1>1. /\ Passed(s) \in Nat /\ sent[s] \in Nat /\ wire \in Seq(Messages)
      /\ DOMAIN wire = 1 .. Len(wire) /\ Len(wire) \in Nat \ {0}
  BY Lengths, HeadTail
<1>2. Passed(s) < wire[1].val /\ wire[1].val <= sent[s] /\ wire[1].val \in Nat
  <2>1. wire[1] \in Messages BY <1>1
  <2> QED BY <1>1, <2>1 DEF InFlight, Messages, Notes
<1>3. PICK i \in DOMAIN wire : NoteAt(s, i) /\ wire[i].val = Passed(s) + 1
  <2>1. Passed(s) + 1 \in Passed(s) + 1 .. sent[s] BY <1>1, <1>2
  <2> QED BY <2>1 DEF InFlight
<1>4. CASE i = 1 BY <1>1, <1>2, <1>3, <1>4
<1>5. CASE i > 1
  <2>1. wire[1].val < wire[i].val BY <1>1, <1>3, <1>5 DEF InFlight
  <2> QED BY <1>1, <1>2, <1>3, <2>1
<1> QED BY <1>1, <1>4, <1>5

\* The value that deliver gets is the next one.
LEMMA NoteForwarded ==
  ASSUME TypeOK, ForwardInv, WireInv, DispatchNote, NEW s \in Subs PROVE Forwarded(s)'
<1>1. UNCHANGED <<run, received, buffer>> /\ dispatch = Idle /\ link = "up" /\ wire # <<>>
  BY DEF DispatchNote, fwdVars
<1>2. Forwarded(s) BY DEF ForwardInv
<1>3. ASSUME Delivering(s)', Run1(s) = "forward" PROVE dispatch'.val = Taken(s) + 1
  <2>1. dispatch' = Deliver(s, Head(wire).val) /\ Head(wire).sub = s /\ s \in clientSubs
    BY <1>3 DEF DispatchNote, Delivering, Deliver, Idle
  <2>2. NoteAt(s, 1) BY <1>1, <2>1, HeadTail DEF NoteAt, DispatchNote
  <2>3. InFlight(s) BY <1>1, <1>3, <2>1 DEF WireInv, Wire, Live
  <2>4. wire[1].val = Passed(s) + 1 BY <1>1, <2>2, <2>3, NextValue
  <2>5. Passed(s) = Taken(s) BY <1>1 DEF Passed, Delivering, Idle
  <2> QED BY <1>1, <2>1, <2>4, <2>5, HeadTail DEF Deliver
<1>4. Taken(s)' = Taken(s) /\ Run1(s)' = Run1(s) /\ Buf(s)' = Buf(s) BY <1>1 DEF Taken, Run1, Buf
<1> QED BY <1>1, <1>2, <1>3, <1>4 DEF Forwarded

\* The buffer of the first goroutine has taken the value that deliver had.
LEMMA InForwarded ==
  ASSUME TypeOK, NEW s \in Subs, Forwarded(s), received' = received, ~Delivering(s)',
         Delivering(s), Run1(s) = "forward", Buf(s)' = Append(Buf(s), dispatch.val)
  PROVE  Forwarded(s)' /\ Passed(s)' = Passed(s)
<1>1. dispatch.val = Taken(s) + 1 BY DEF Forwarded
<1>2. /\ Len(Buf(s)) \in Nat /\ Buf(s) \in Seq(Nat) /\ Len(received[s]) \in Nat /\ DOMAIN Buf(s) = 1 .. Len(Buf(s))
      /\ dispatch.val \in Nat
  BY Lengths DEF Notes, TypeOK
<1>3. PICK a \in Nat, b \in Nat : Len(received[s]) = a /\ Len(Buf(s)) = b BY <1>2
<1>4. dispatch.val = a + b + 1 BY <1>1, <1>3 DEF Taken
<1>5. /\ DOMAIN Buf(s)' = 1 .. b + 1 /\ Len(Buf(s)') = b + 1
      /\ \A i \in 1 .. b : Buf(s)'[i] = Buf(s)[i]
      /\ Buf(s)'[b + 1] = dispatch.val
  BY <1>2, <1>3, AppendProperties
<1>6. \A i \in DOMAIN Buf(s)' : i \in 1 .. b \/ i = b + 1 BY <1>5
<1>7. \A i \in 1 .. b : Buf(s)[i] = a + i BY <1>2, <1>3 DEF Forwarded
<1>8. ASSUME NEW i \in DOMAIN Buf(s)' PROVE Buf(s)'[i] = a + i
  <2>1. CASE i \in 1 .. b BY <1>5, <1>7, <2>1
  <2>2. CASE i = b + 1 BY <1>4, <1>5, <2>2
  <2> QED BY <1>6, <2>1, <2>2
<1>9. Taken(s) = a + b /\ Taken(s)' = a + (b + 1) BY <1>3, <1>5 DEF Taken
<1>10. Passed(s)' = Passed(s) BY <1>9 DEF Passed
<1>11. Len(received'[s]) = a BY <1>3
<1> QED BY <1>8, <1>10, <1>11 DEF Forwarded

\* The reader takes the first value of the buffer.
LEMMA SendForwarded ==
  ASSUME TypeOK, ForwardInv, NEW s \in Subs, ForwardSend(<<s, 1>>)
  PROVE  /\ Forwarded(s)' /\ Taken(s)' = Taken(s)
         /\ received' = [received EXCEPT ![s] = Append(received[s], Len(received[s]) + 1)]
<1>0. /\ Buf(s) # <<>> /\ Buf(s)' = Tail(Buf(s))
      /\ received' = [received EXCEPT ![s] = Append(received[s], Head(Buf(s)))]
  BY RunOf DEF ForwardSend, Buf, TypeOK
<1>1. /\ received[s] \in Seq(Notes) /\ Buf(s) \in Seq(Notes)
      /\ Len(received[s]) \in Nat /\ DOMAIN received[s] = 1 .. Len(received[s])
      /\ Len(Buf(s)) \in Nat /\ DOMAIN Buf(s) = 1 .. Len(Buf(s))
  BY Lengths
<1>2. Len(Buf(s)) >= 1 BY <1>0, <1>1, EmptySeq
<1>3. /\ Head(Buf(s)) = Buf(s)[1] /\ Tail(Buf(s)) \in Seq(Notes)
      /\ Len(Tail(Buf(s))) = Len(Buf(s)) - 1
      /\ \A i \in 1 .. Len(Buf(s)) - 1 : Tail(Buf(s))[i] = Buf(s)[i + 1]
  BY <1>0, <1>1, HeadTailProperties
<1>4. /\ \A i \in DOMAIN received[s] : received[s][i] = i
      /\ \A i \in DOMAIN Buf(s) : Buf(s)[i] = Len(received[s]) + i
      /\ Delivering(s) /\ Run1(s) = "forward" => dispatch.val = Taken(s) + 1
  BY DEF ForwardInv, Forwarded
<1>5. Head(Buf(s)) = Len(received[s]) + 1 /\ Head(Buf(s)) \in Notes BY <1>1, <1>2, <1>3, <1>4 DEF Notes
<1>6. received'[s] = Append(received[s], Head(Buf(s))) BY <1>0 DEF TypeOK
<1>7. /\ DOMAIN received'[s] = 1 .. Len(received[s]) + 1 /\ Len(received'[s]) = Len(received[s]) + 1
      /\ \A i \in 1 .. Len(received[s]) : received'[s][i] = received[s][i]
      /\ received'[s][Len(received[s]) + 1] = Head(Buf(s))
  BY <1>1, <1>5, <1>6, AppendProperties
<1>8. \A i \in DOMAIN received'[s] : i \in DOMAIN received[s] \/ i = Len(received[s]) + 1 BY <1>1, <1>7
<1>9. \A i \in DOMAIN received'[s] : received'[s][i] = i BY <1>1, <1>4, <1>5, <1>7, <1>8
<1>10. DOMAIN Buf(s)' = 1 .. Len(Buf(s)) - 1 /\ Len(Buf(s)') = Len(Buf(s)) - 1
  BY <1>0, <1>1, <1>3, LenProperties
<1>11. ASSUME NEW i \in DOMAIN Buf(s)' PROVE Buf(s)'[i] = Len(received'[s]) + i
  <2>1. i + 1 \in DOMAIN Buf(s) /\ i \in 1 .. Len(Buf(s)) - 1 BY <1>1, <1>10
  <2>2. Buf(s)'[i] = Len(received[s]) + (i + 1) BY <1>0, <1>3, <1>4, <2>1
  <2>3. PICK n \in Int : Len(received[s]) = n BY <1>1
  <2>4. Len(received'[s]) = n + 1 /\ Buf(s)'[i] = n + (i + 1) BY <1>7, <2>2, <2>3
  <2>5. i \in Int BY <2>1
  <2>6. n + (i + 1) = (n + 1) + i BY <2>5
  <2> QED BY <2>4, <2>6
<1>12. Taken(s)' = Taken(s)
  <2>1. Len(received'[s]) = Len(received[s]) + 1 /\ Len(Buf(s)') = Len(Buf(s)) - 1 BY <1>7, <1>10
  <2>2. Len(received[s]) \in Int /\ Len(Buf(s)) \in Int BY <1>1
  <2>4. PICK a \in Int, b \in Int : Len(received[s]) = a /\ Len(Buf(s)) = b BY <2>2
  <2>5. Taken(s) = a + b /\ Taken(s)' = (a + 1) + (b - 1) BY <2>1, <2>4 DEF Taken
  <2> QED BY <2>5
<1>13. UNCHANGED <<run, dispatch>> BY DEF ForwardSend
<1>14. (Delivering(s)' <=> Delivering(s)) /\ Run1(s)' = Run1(s) /\ dispatch'.val = dispatch.val
  BY <1>13 DEF Delivering, Run1
<1>15. Forwarded(s)' BY <1>4, <1>9, <1>11, <1>12, <1>14 DEF Forwarded
<1> QED BY <1>0, <1>5, <1>12, <1>15

\* A step that moves no value of x and no message.
Still(x) ==
  /\ received'[x] = received[x] /\ Buf(x)' = Buf(x) /\ sent'[x] = sent[x] /\ wire' = wire
  /\ link' = "up" => link = "up"
  /\ Run1(x)' = "forward" => Run1(x) = "forward"
  /\ Live(x)' => Live(x) /\ (Delivering(x)' <=> Delivering(x))
  /\ Delivering(x)' => Delivering(x) /\ dispatch'.val = dispatch.val
  /\ Live(x)' => \/ server'[x] \in {server[x], "gone"}
                 \/ server[x] = "none" /\ server'[x] = "asked"
  /\ Asking(x)' => Asking(x) \/ server[x] = "none"

\* It keeps what was forwarded.
LEMMA StillForwarded == ASSUME NEW x \in Subs, Forwarded(x), Still(x) PROVE Forwarded(x)'
<1>1. Taken(x)' = Taken(x) BY DEF Still, Taken
<1> QED BY <1>1 DEF Still, Forwarded

\* It keeps what is in flight.
LEMMA StillWire == ASSUME TypeOK, NEW x \in Subs, Wire(x), Still(x) PROVE Wire(x)'
<1> SUFFICES ASSUME link' = "up", Live(x)' PROVE InFlight(x)' /\ AnswerFirst(x)'
  BY DEF Wire
<1>1. InFlight(x) /\ AnswerFirst(x) BY DEF Wire, Still
<1>2. Passed(x)' = Passed(x) BY DEF Still, Passed, Taken
<1>3. wire' = wire /\ sent'[x] = sent[x] BY DEF Still
<1>4. \A i \in DOMAIN wire : (NoteAt(x, i)' <=> NoteAt(x, i)) /\ (OkAt(x, i)' <=> OkAt(x, i))
  BY <1>3 DEF NoteAt, OkAt
<1>5. InFlight(x)' BY <1>1, <1>2, <1>3, <1>4 DEF InFlight
<1>6. server[x] = "none" => \A i \in DOMAIN wire : ~NoteAt(x, i)
  <2> SUFFICES ASSUME server[x] = "none", NEW i \in DOMAIN wire, NoteAt(x, i) PROVE FALSE
    OBVIOUS
  <2>1. sent[x] = 0 BY <1>1 DEF AnswerFirst
  <2>2. Passed(x) < wire[i].val /\ wire[i].val <= 0 BY <1>1, <2>1 DEF InFlight
  <2>3. wire[i].val \in Nat /\ Passed(x) \in Nat
    <3>1. wire[i] \in Messages BY Lengths, ElementOfSeq
    <3> QED BY <3>1, Lengths DEF Messages, Notes
  <2> QED BY <2>2, <2>3
<1>7. \A i \in DOMAIN wire : DOMAIN wire = 1 .. Len(wire) /\ Len(wire) \in Nat /\ \A j \in 1 .. i - 1 : j \in DOMAIN wire
  BY Lengths
<1>8. server'[x] \in {"none", "asked"} => sent'[x] = 0 BY <1>1, <1>3 DEF Still, AnswerFirst
<1>9. ASSUME Asking(x)', server'[x] = "active" PROVE \E i \in DOMAIN wire' : OkAt(x, i)'
  <2>1. Asking(x) /\ server[x] = "active" BY <1>9 DEF Still
  <2> QED BY <1>1, <1>3, <1>4, <2>1 DEF AnswerFirst
<1>10. ASSUME Asking(x)', NEW i \in DOMAIN wire', NoteAt(x, i)' PROVE \E j \in 1 .. i - 1 : OkAt(x, j)'
  <2>1. i \in DOMAIN wire /\ NoteAt(x, i) BY <1>3, <1>4, <1>10
  <2>2. Asking(x) BY <1>6, <1>10, <2>1 DEF Still
  <2>3. PICK j \in 1 .. i - 1 : OkAt(x, j) BY <1>1, <2>1, <2>2 DEF AnswerFirst
  <2> QED BY <1>4, <1>7, <2>1, <2>3
<1> QED BY <1>5, <1>8, <1>9, <1>10 DEF AnswerFirst

\* forward has returned and dropped its buffer.
Stops(x) == received'[x] = received[x] /\ Buf(x)' = <<>> /\ Run1(x)' = "exit"

\* Nothing is forwarded any more.
LEMMA StopsBoth == ASSUME NEW x \in Subs, Forwarded(x), Stops(x) PROVE Forwarded(x)' /\ Wire(x)'
<1>1. DOMAIN Buf(x)' = {} BY DEF Stops
<1>2. Forwarded(x)' BY <1>1 DEF Stops, Forwarded
<1>3. ~Live(x)' BY DEF Stops, Live, Waiting
<1> QED BY <1>2, <1>3 DEF Wire

\* Subscribe.
LEMMA SubscribeStill ==
  ASSUME TypeOK, RunInv, NEW s \in Subs, SubscribeStep(s), NEW x \in Subs PROVE Still(x)
<1>1. UNCHANGED <<received, buffer, sent, wire, link, run, clientSubs, dispatch, server>>
  BY DEF SubscribeStep, Subscribe, SubscribeReturn, SubscribeCtx, SubscribeTimeout, fwdVars, netVars
<1>2. Buf(x)' = Buf(x) /\ Run1(x)' = Run1(x) /\ (Delivering(x)' <=> Delivering(x)) BY <1>1 DEF Buf, Run1, Delivering
<1>3. CASE Subscribe(s)
  <2>1. /\ dispatch.op = "idle" /\ respWait' = respWait \cup {s} /\ subscriber[s] = "idle"
        /\ \A y \in Subs : subscriber'[y] = IF y = s THEN "write" ELSE subscriber[y]
    BY <1>3 DEF Subscribe, TakeLock, Idle, TypeOK
  <2>2. server[s] = "none" /\ Run1(s) = "none" BY <2>1 DEF RunInv
  <2>3. Asking(x)' => Asking(x) \/ x = s BY <1>1, <2>1 DEF Asking
  <2>4. Live(x)' => Live(x) BY <1>1, <1>2, <2>1, <2>2, <2>3 DEF Live, Waiting
  <2> QED BY <1>1, <1>2, <2>2, <2>3, <2>4 DEF Still
<1>4. CASE SubscribeReturn(s) \/ SubscribeCtx(s) \/ SubscribeTimeout(s)
  <2>1. /\ respWait' \subseteq respWait /\ lastOp' = lastOp
        /\ \A y \in Subs : subscriber'[y] = "idle" => subscriber[y] = "idle"
    BY <1>4 DEF SubscribeReturn, SubscribeCtx, SubscribeTimeout, TypeOK, sendVars
  <2>2. Asking(x)' => Asking(x) BY <1>1, <2>1 DEF Asking
  <2>3. Live(x)' => Live(x) BY <1>1, <1>2, <2>1, <2>2 DEF Live, Waiting
  <2> QED BY <1>1, <1>2, <2>2, <2>3 DEF Still
<1> QED BY <1>3, <1>4 DEF SubscribeStep

\* A write, as long as it is made on the connection there is.
LEMMA WriteStill ==
  ASSUME TypeOK, RunInv, NEW op \in Ops, WriteOk(op) \/ WriteFail(op) \/ DialFail(op), NEW x \in Subs PROVE Still(x)
<1>1. UNCHANGED <<received, buffer, sent, wire, link, clientSubs, dispatch, respWait, lastOp>>
  BY DEF WriteOk, WriteFail, DialFail, netVars
<1>2. Buf(x)' = Buf(x) /\ (Delivering(x)' <=> Delivering(x)) /\ (Asking(x)' <=> Asking(x))
  BY <1>1 DEF Buf, Delivering, Asking
<1>3. Run1(x)' \in {"none", "forward"} => Run1(x)' = Run1(x)
  <2>1. CASE run' = run BY <2>1 DEF Run1
  <2>2. ASSUME NEW s \in Subs, NEW k \in {1, 2}, NEW l \in {"answer", "report"}, RunMove(s, k, "write", l)
        PROVE  Run1(x)' \in {"none", "forward"} => Run1(x)' = Run1(x)
    <3>1. Run1(x)' = IF x = s /\ k = 1 THEN l ELSE Run1(x) BY <2>2, RunMoved DEF RunMove
    <3> QED BY <2>2, <3>1
  <2> QED BY <2>1, <2>2, WriteMoves
<1>4. subscriber'[x] = "idle" => subscriber[x] = "idle" BY DEF WriteOk, WriteFail, DialFail, SendReturn, TypeOK
<1>5. Live(x)' => Live(x) BY <1>1, <1>2, <1>3, <1>4 DEF Live, Waiting
<1>6. server'[x] \in {server[x], "gone"} \/ (server[x] = "none" /\ server'[x] = "asked")
  <2>1. server' = server \/ (Reached(op) /\ writeConn /\ lastOp = op /\ reqSent = "none")
    BY DEF WriteOk, WriteFail, DialFail, netVars, Writing
  <2>2. CASE Reached(op) /\ writeConn /\ lastOp = op /\ reqSent = "none" /\ op[2] = 0
    <3>1. op = <<op[1], 0>> /\ op[1] \in Subs BY <2>2, RunOf
    <3>2. server[op[1]] = "none" BY <2>2, <3>1 DEF RunInv
    <3> QED BY <2>2, <3>2 DEF Reached, TypeOK
  <2>3. CASE Reached(op) /\ op[2] # 0 BY <2>3 DEF Reached, TypeOK
  <2> QED BY <2>1, <2>2, <2>3
<1> QED BY <1>1, <1>2, <1>3, <1>5, <1>6 DEF Still

\* deliver and close return; the write lock is given back.
LEMMA DispatchStill ==
  ASSUME TypeOK, EndInv, RunInv, DispatchInv, NEW x \in Subs,
         \/ DispatchReqSent \/ (\E e \in {"lost", "reconnected"} : DispatchClosed(e))
         \/ \E s \in Subs : DispatchSkip(s)
  PROVE  Still(x)
<1>1. UNCHANGED <<received, buffer, sent, wire, link, run, clientSubs, server, subscriber>>
  BY DEF DispatchReqSent, DispatchClosed, DispatchSkip, fwdVars, netVars, opVars
<1>2. Buf(x)' = Buf(x) /\ Run1(x)' = Run1(x) BY <1>1 DEF Buf, Run1
<1>3. ASSUME Asking(x)' => Asking(x), Live(x)' => (Delivering(x)' <=> Delivering(x)),
             Delivering(x)' => Delivering(x) /\ dispatch'.val = dispatch.val
      PROVE  Still(x)
  <2>1. Live(x)' => Live(x) BY <1>1, <1>2, <1>3 DEF Live, Waiting
  <2> QED BY <1>1, <1>2, <1>3, <2>1 DEF Still
<1>4. CASE DispatchReqSent
  <2>1. dispatch' = dispatch /\ dispatch.op = "idle" /\ respWait' \subseteq respWait BY <1>4 DEF DispatchReqSent, Idle
  <2> QED BY <1>3, <2>1 DEF Asking, Delivering
<1>5. ASSUME NEW e \in {"lost", "reconnected"}, DispatchClosed(e) PROVE Still(x)
  <2>1. dispatch.op = e /\ dispatch'.op = "idle" /\ lastOp' = lastOp BY <1>5 DEF DispatchClosed, Idle, Closing, sendVars
  <2>2. x \in respWait' => x \in respWait \/ (e = "reconnected" /\ lastOp = <<x, 0>>)
    BY <1>5, <2>1, RunOf DEF DispatchClosed, DispatchInv
  <2>3. Asking(x)' => Asking(x) BY <2>1, <2>2 DEF Asking
  <2> QED BY <1>3, <2>1, <2>3 DEF Delivering
<1>6. ASSUME NEW s \in Subs, DispatchSkip(s) PROVE Still(x)
  <2>0. UNCHANGED <<respWait, lastOp>> BY <1>6 DEF DispatchSkip, opVars, sendVars
  <2>1. CASE dispatch' = [dispatch EXCEPT !.pending = @ \ {s}]
    <3>1. dispatch'.op = dispatch.op /\ dispatch'.sub = dispatch.sub /\ dispatch'.val = dispatch.val
      BY <2>1 DEF TypeOK
    <3> QED BY <1>3, <2>0, <3>1 DEF Asking, Delivering
  <2>2. CASE dispatch.op = "deliver" /\ dispatch.sub = s /\ dispatch'.op = "idle"
    <3>1. Run1(s) \notin {"none", "forward"} BY <1>6 DEF DispatchSkip, EndInv, RunInv, Ended
    <3>2. ~Live(s)' BY <1>1, <3>1 DEF Live, Waiting, Run1
    <3>3. Live(x)' => ~Delivering(x) BY <2>2, <3>2 DEF Delivering
    <3>4. ~Delivering(x)' BY <2>2 DEF Delivering
    <3>5. Asking(x)' => Asking(x) BY <2>0, <2>2 DEF Asking
    <3> QED BY <1>3, <3>3, <3>4, <3>5
  <2> QED BY <1>6, <2>1, <2>2 DEF DispatchSkip, Idle
<1> QED BY <1>4, <1>5, <1>6

\* Unsubscribe.
LEMMA UnsubscribeStill ==
  ASSUME NEW x \in Subs,
         UNCHANGED vars \/ \E s \in Subs : \E u \in Unsubscribers[s] : UnsubscribeStep(s, u)
  PROVE  Still(x)
<1>1. UNCHANGED <<received, buffer, sent, wire, link, run, clientSubs, server, subscriber, dispatch, respWait, lastOp>>
  BY DEF UnsubscribeStep, Unsubscribe, UnsubscribeAgain, UnsubscribeReturn, vars, fwdVars, netVars, opVars, sendVars
<1>2. Buf(x)' = Buf(x) /\ Run1(x)' = Run1(x) /\ (Delivering(x)' <=> Delivering(x)) /\ (Asking(x)' <=> Asking(x))
  BY <1>1 DEF Buf, Run1, Delivering, Asking
<1>3. Live(x)' <=> Live(x) BY <1>1, <1>2 DEF Live, Waiting
<1> QED BY <1>1, <1>2, <1>3 DEF Still

\* run takes the value that deliver has.
Takes(s) ==
  /\ ForwardIn(<<s, 1>>) /\ Run1(s)' = "forward" /\ Buf(s)' = Append(Buf(s), dispatch.val)

\* A forwarding goroutine: only the first one takes and sends values.
LEMMA RunStill ==
  ASSUME TypeOK, EndInv, RunInv, DispatchInv, NEW g \in Runs, RunStep(g) \/ ForwardSend(g), NEW x \in Subs
  PROVE  Still(x) \/ Stops(x) \/ Takes(x) \/ ForwardSend(<<x, 1>>)
<1>1. PICK s \in Subs, k \in {1, 2} : g = <<s, k>> BY RunOf
<1>g. g[1] = s /\ g[2] = k BY <1>1
<1>r. run[<<s, k>>] = (IF k = 1 THEN Run1(s) ELSE Run2(s)) BY RunAt
<1>2. UNCHANGED <<sent, wire, link, clientSubs, server, subscriber, respWait>>
  BY DEF RunStep, ForwardIn, ForwardSend, ForwardClose, ForwardUnsubscribe, CloseForwardDone, RequestUnsubscribe,
         RequestTimeout, RequestReturn, ReportError, CloseUnsubDone, netVars, opVars
<1>3. ASSUME received'[x] = received[x], Buf(x)' = Buf(x), Run1(x)' \in {"none", "forward"} => Run1(x)' = Run1(x),
             Asking(x)' => Asking(x), Live(x)' => (Delivering(x)' <=> Delivering(x)),
             Delivering(x)' => Delivering(x) /\ dispatch'.val = dispatch.val
      PROVE  Still(x)
  <2>1. Live(x)' => Live(x) BY <1>2, <1>3 DEF Live, Waiting
  <2> QED BY <1>2, <1>3, <2>1 DEF Still
<1>4. CASE RequestUnsubscribe(g) \/ RunTail(g)
  <2>1. UNCHANGED <<received, buffer, dispatch>>
    BY <1>4 DEF RunTail, CloseForwardDone, RequestUnsubscribe, RequestTimeout, RequestReturn, ReportError, CloseUnsubDone
  <2>2. lastOp' = lastOp \/ dispatch.op = "idle"
    BY <1>4 DEF RunTail, CloseForwardDone, RequestUnsubscribe, RequestTimeout, RequestReturn, ReportError, CloseUnsubDone,
                TakeLock, Idle, sendVars
  <2>3. run' = run \/ \E l \in Ended : run' = [run EXCEPT ![<<s, k>>] = l]
    BY <1>1, <1>4 DEF RunTail, CloseForwardDone, RequestUnsubscribe, RequestTimeout, RequestReturn, ReportError,
                CloseUnsubDone, Ended
  <2>4. Run1(x)' \in {"none", "forward"} => Run1(x)' = Run1(x)
    <3>1. CASE run' = run BY <3>1 DEF Run1
    <3>2. ASSUME NEW l \in Ended, run' = [run EXCEPT ![<<s, k>>] = l]
          PROVE  Run1(x)' \in {"none", "forward"} => Run1(x)' = Run1(x)
      <4>1. Run1(x)' = IF x = s /\ k = 1 THEN l ELSE Run1(x) BY <3>2, RunMoved
      <4> QED BY <4>1 DEF Ended
    <3> QED BY <2>3, <3>1, <3>2
  <2>5. Asking(x)' => Asking(x) BY <1>2, <2>1, <2>2 DEF Asking
  <2> QED BY <1>3, <2>1, <2>4, <2>5 DEF Delivering, Buf
<1>5. CASE ForwardIn(g) \/ ForwardClose(g) \/ \E u \in Unsubscribers[g[1]] : ForwardUnsubscribe(g, u)
  <2>1. received' = received /\ lastOp' = lastOp /\ run[<<s, k>>] = "forward"
    BY <1>1, <1>5 DEF ForwardIn, ForwardClose, ForwardUnsubscribe, sendVars
  <2>2. /\ run' = run \/ run' = [run EXCEPT ![<<s, k>>] = "exit"]
        /\ \E b : buffer' = [buffer EXCEPT ![<<s, k>>] = b]
    BY <1>1, <1>5 DEF ForwardIn, ForwardClose, ForwardUnsubscribe, ForwardReturn
  <2>3. /\ dispatch'.op \in {dispatch.op, "idle"} /\ dispatch'.sub \in {dispatch.sub, NoSub}
        /\ Delivering(x)' => Delivering(x) /\ dispatch'.val = dispatch.val
        /\ Delivering(x) /\ x # s => Delivering(x)'
    <3>1. CASE ForwardIn(g) BY <1>g, <3>1 DEF ForwardIn, Idle, Delivering
    <3>2. CASE ForwardClose(g)
      <4>1. dispatch'.op = dispatch.op /\ dispatch'.sub = dispatch.sub /\ dispatch'.val = dispatch.val
        BY <3>2 DEF ForwardClose, TypeOK
      <4> QED BY <4>1 DEF Delivering
    <3>3. CASE \E u \in Unsubscribers[g[1]] : ForwardUnsubscribe(g, u) BY <3>3 DEF ForwardUnsubscribe, Delivering
    <3> QED BY <1>5, <3>1, <3>2, <3>3
  <2>4. Asking(x)' => Asking(x) BY <1>2, <2>1, <2>3 DEF Asking
  <2>5. CASE x # s \/ k = 2
    <3>1. Buf(x)' = Buf(x)
      <4>1. PICK b : buffer' = [buffer EXCEPT ![<<s, k>>] = b] BY <2>2
      <4>2. Buf(x)' = IF x = s /\ k = 1 THEN b ELSE Buf(x) BY <4>1, BufMoved
      <4> QED BY <2>5, <4>2
    <3>2. Run1(x)' = Run1(x)
      <4>1. CASE run' = run BY <4>1 DEF Run1
      <4>2. CASE run' = [run EXCEPT ![<<s, k>>] = "exit"]
        <5>1. Run1(x)' = IF x = s /\ k = 1 THEN "exit" ELSE Run1(x) BY <4>2, RunMoved
        <5> QED BY <2>5, <5>1
      <4> QED BY <2>2, <4>1, <4>2
    <3>3. x = s => Run1(x) \notin {"none", "forward"}
      <4>1. x = s => Run2(s) = "forward" BY <1>r, <2>1, <2>5
      <4> QED BY <4>1 DEF RunInv
    <3>4. x = s => ~Live(x)' BY <3>2, <3>3 DEF Live, Waiting
    <3> QED BY <1>3, <2>1, <2>3, <2>4, <3>1, <3>2, <3>4
  <2>6. CASE x = s /\ k = 1
    <3>0. g = <<x, 1>> BY <1>1, <2>6
    <3>1. CASE \E b, e : ForwardReturn(g, b, e)
      <4>1. run' = [run EXCEPT ![<<x, 1>>] = "exit"] /\ buffer' = [buffer EXCEPT ![<<x, 1>>] = <<>>]
        BY <3>0, <3>1 DEF ForwardReturn
      <4>2. Run1(x)' = "exit" /\ Buf(x)' = <<>> BY <4>1, RunMoved, BufMoved
      <4> QED BY <2>1, <4>2 DEF Stops
    <3>2. CASE ForwardIn(g) /\ run' = run /\ buffer' = [buffer EXCEPT ![g] = Append(@, dispatch.val)]
      <4>1. Buf(x)' = Append(Buf(x), dispatch.val) BY <3>0, <3>2, RunOf DEF Buf, TypeOK
      <4>2. Run1(x)' = "forward" BY <2>1, <2>6, <3>2 DEF Run1
      <4> QED BY <3>0, <3>2, <4>1, <4>2 DEF Takes
    <3> QED BY <1>5, <3>1, <3>2 DEF ForwardIn, ForwardClose, ForwardUnsubscribe
  <2> QED BY <2>5, <2>6
<1>6. CASE ForwardSend(g) /\ <<x, 1>> # g
  <2>1. UNCHANGED <<run, dispatch, lastOp>> BY <1>6 DEF ForwardSend, sendVars
  <2>2. ~(x = s /\ k = 1) BY <1>1, <1>6
  <2>3. received'[x] = received[x] BY <1>6, <1>g, <2>2 DEF ForwardSend, TypeOK
  <2>4. buffer' = [buffer EXCEPT ![<<s, k>>] = Tail(buffer[<<s, k>>])] BY <1>1, <1>6 DEF ForwardSend
  <2>5. Buf(x)' = Buf(x) BY <2>2, <2>4, BufMoved
  <2> QED BY <1>2, <1>3, <2>1, <2>3, <2>5 DEF Delivering, Asking, Run1
<1> QED BY <1>4, <1>5, <1>6 DEF RunStep, RunTail

\* run takes the value that deliver has.
LEMMA TakesBoth ==
  ASSUME TypeOK, NEW x \in Subs, Takes(x), Forwarded(x), Wire(x) PROVE Forwarded(x)' /\ Wire(x)'
<1>1. /\ UNCHANGED <<received, sent, wire, link, clientSubs, server, respWait, subscriber, lastOp>>
      /\ dispatch' = Idle /\ dispatch.op = "deliver" /\ dispatch.sub = x /\ Run1(x) = "forward"
  BY DEF Takes, ForwardIn, netVars, opVars, sendVars, Run1
<1>2. Delivering(x) /\ ~Delivering(x)' /\ Run1(x)' = "forward" /\ Buf(x)' = Append(Buf(x), dispatch.val)
  BY <1>1 DEF Delivering, Idle, Takes
<1>3. Forwarded(x)' /\ Passed(x)' = Passed(x) BY <1>1, <1>2, InForwarded
<1>4. (Asking(x)' <=> Asking(x)) /\ (Live(x)' <=> Live(x)) BY <1>1, <1>2 DEF Asking, Idle, Live, Waiting
<1>5. InFlight(x) => InFlight(x)' BY <1>1, <1>3 DEF InFlight, NoteAt
<1>6. AnswerFirst(x) => AnswerFirst(x)' BY <1>1, <1>4 DEF AnswerFirst, NoteAt, OkAt
<1> QED BY <1>1, <1>3, <1>4, <1>5, <1>6 DEF Wire

\* Sending to the user moves a value from the buffer on, and leaves what is in flight.
LEMMA SendWire ==
  ASSUME TypeOK, ForwardInv, NEW x \in Subs, ForwardSend(<<x, 1>>), Wire(x) PROVE Wire(x)'
<1>1. UNCHANGED <<run, dispatch, sent, wire, link, clientSubs, server, respWait, subscriber, lastOp>>
  BY DEF ForwardSend, netVars, opVars, sendVars
<1>2. Taken(x)' = Taken(x) BY SendForwarded
<1>3. Passed(x)' = Passed(x) BY <1>1, <1>2 DEF Passed, Delivering
<1>4. Asking(x)' <=> Asking(x) BY <1>1 DEF Asking
<1>5. Live(x)' <=> Live(x) BY <1>1, <1>4 DEF Live, Waiting, Run1
<1>6. InFlight(x) => InFlight(x)' BY <1>1, <1>3 DEF InFlight, NoteAt
<1>7. AnswerFirst(x) => AnswerFirst(x)' BY <1>1, <1>4 DEF AnswerFirst, NoteAt, OkAt
<1> QED BY <1>1, <1>5, <1>6, <1>7 DEF Wire

\* A new connection starts empty, and only who has received nothing uses it.
LEMMA ReconnectBoth ==
  ASSUME TypeOK, RunInv, NEW op \in Ops, Reconnect(op), NEW x \in Subs, Forwarded(x) PROVE Forwarded(x)' /\ Wire(x)'
<1>1. /\ UNCHANGED <<run, received, buffer>> /\ dispatch'.op = "reconnected" /\ clientSubs' = {}
      /\ wire' = <<>> /\ sent'[x] = 0 /\ server'[x] \in {"none", "gone"}
  BY DEF Reconnect, Closing, CancelRequests, Disconnect, fwdVars
<1>2. Run1(x)' = Run1(x) /\ Buf(x)' = Buf(x) /\ ~Delivering(x)' BY <1>1 DEF Run1, Buf, Delivering
<1>3. Forwarded(x)' BY <1>1, <1>2 DEF Forwarded
<1>4. ASSUME Live(x)' PROVE InFlight(x)' /\ AnswerFirst(x)'
  <2>1. Run1(x) = "none" BY <1>1, <1>2, <1>4 DEF Live, Waiting
  <2>2. received'[x] = <<>> /\ Buf(x)' = <<>> BY <1>1, <1>2, <2>1 DEF RunInv
  <2>3. Len(received'[x]) = 0 /\ Len(Buf(x)') = 0 BY <2>2
  <2>4. Taken(x)' = 0 BY <2>3 DEF Taken
  <2>5. Passed(x)' = 0 BY <1>2, <2>4 DEF Passed
  <2>6. DOMAIN wire' = {} BY <1>1
  <2> QED BY <1>1, <2>5, <2>6 DEF InFlight, AnswerFirst
<1> QED BY <1>3, <1>4 DEF Wire

\* The server appends a message m.
LEMMA AppendWire ==
  ASSUME TypeOK, NEW m \in Messages, wire' = Append(wire, m)
  PROVE  /\ Len(wire) \in Nat /\ DOMAIN wire = 1 .. Len(wire) /\ DOMAIN wire' = 1 .. Len(wire) + 1
         /\ \A i \in DOMAIN wire : i \in DOMAIN wire' /\ wire'[i] = wire[i]
         /\ \A i \in DOMAIN wire' : i \in DOMAIN wire \/ i = Len(wire) + 1
         /\ wire'[Len(wire) + 1] = m
<1>1. wire \in Seq(Messages) BY DEF TypeOK, Messages
<1>2. /\ Len(wire) \in Nat /\ DOMAIN wire = 1 .. Len(wire) /\ DOMAIN wire' = 1 .. Len(wire) + 1
      /\ \A i \in 1 .. Len(wire) : wire'[i] = wire[i]
      /\ wire'[Len(wire) + 1] = m
  BY <1>1, AppendProperties, LenProperties
<1> QED BY <1>2

\* The answer to the subscribe request precedes the values, of which there are none yet.
LEMMA ServerAnswerWire ==
  ASSUME TypeOK, NEW s \in Subs, ServerAnswer(s), NEW x \in Subs, Wire(x) PROVE Wire(x)'
<1>1. UNCHANGED <<run, dispatch, sent, received, buffer, link, clientSubs, respWait, subscriber, lastOp>>
  BY DEF ServerAnswer, fwdVars, opVars, sendVars
<1>a. /\ Buf(x)' = Buf(x) /\ Run1(x)' = Run1(x) /\ (Delivering(x)' <=> Delivering(x)) /\ (Asking(x)' <=> Asking(x))
      /\ Live(x)' <=> Live(x)
  BY <1>1 DEF Buf, Run1, Delivering, Asking, Live, Waiting
<1>2. PICK m \in Messages : /\ m.type # "note" /\ wire' = Append(wire, m)
                            /\ server'[s] \in {"active", "gone"}
                            /\ server'[s] = "active" => m.type = "ok" /\ m.sub = s
  <2>1. Message("ok", s, 0) \in Messages /\ Message("ok", s, 0).type = "ok" /\ Message("ok", s, 0).sub = s
    BY DEF Message, Messages
  <2>2. Message("error", s, 0) \in Messages /\ Message("error", s, 0).type = "error" BY DEF Message, Messages
  <2>3. CASE server' = [server EXCEPT ![s] = "active"] /\ wire' = Append(wire, Message("ok", s, 0))
    BY <2>1, <2>3 DEF TypeOK
  <2>4. CASE server' = [server EXCEPT ![s] = "gone"] /\ wire' = Append(wire, Message("error", s, 0))
    BY <2>2, <2>4 DEF TypeOK
  <2> QED BY <2>3, <2>4 DEF ServerAnswer
<1>3. /\ Len(wire) \in Nat /\ DOMAIN wire = 1 .. Len(wire) /\ DOMAIN wire' = 1 .. Len(wire) + 1
      /\ \A i \in DOMAIN wire : i \in DOMAIN wire' /\ wire'[i] = wire[i]
      /\ \A i \in DOMAIN wire' : i \in DOMAIN wire \/ i = Len(wire) + 1
      /\ wire'[Len(wire) + 1] = m
  BY <1>2, AppendWire
<1> SUFFICES ASSUME link = "up", Live(x) PROVE InFlight(x)' /\ AnswerFirst(x)'
  BY <1>1, <1>a DEF Wire
<1>4. InFlight(x) /\ AnswerFirst(x) BY DEF Wire
<1>5. Passed(x)' = Passed(x) BY <1>1, <1>a DEF Passed, Taken
<1>6. \A i \in DOMAIN wire' : NoteAt(x, i)' => i \in DOMAIN wire /\ NoteAt(x, i) BY <1>2, <1>3 DEF NoteAt
<1>7. \A i \in DOMAIN wire : (NoteAt(x, i) => NoteAt(x, i)') /\ (OkAt(x, i) => OkAt(x, i)')
  BY <1>3 DEF NoteAt, OkAt
<1>8. InFlight(x)'
  <2>1. \A i \in DOMAIN wire' : NoteAt(x, i)' => Passed(x) < wire'[i].val /\ wire'[i].val <= sent[x]
    BY <1>3, <1>4, <1>6 DEF InFlight
  <2>2. \A i, j \in DOMAIN wire' : i < j /\ NoteAt(x, i)' /\ NoteAt(x, j)' => wire'[i].val < wire'[j].val
    BY <1>3, <1>4, <1>6 DEF InFlight
  <2>3. \A v \in Passed(x) + 1 .. sent[x] : \E i \in DOMAIN wire' : NoteAt(x, i)' /\ wire'[i].val = v
    BY <1>3, <1>4, <1>7 DEF InFlight
  <2> QED BY <1>1, <1>4, <1>5, <2>1, <2>2, <2>3 DEF InFlight
<1>9. AnswerFirst(x)'
  <2>1. server'[x] \in {"none", "asked"} => sent[x] = 0
    <3>1. CASE x = s BY <1>2, <3>1
    <3>2. CASE x # s BY <1>4, <3>2 DEF AnswerFirst, ServerAnswer, TypeOK
    <3> QED BY <3>1, <3>2
  <2>2. ASSUME Asking(x), server'[x] = "active" PROVE \E i \in DOMAIN wire' : OkAt(x, i)'
    <3>1. CASE x = s
      <4>1. PICK n \in DOMAIN wire' : n = Len(wire) + 1 BY <1>3
      <4>2. OkAt(x, n)' BY <1>2, <1>3, <2>2, <3>1, <4>1 DEF OkAt
      <4> QED BY <4>2
    <3>2. CASE x # s
      <4>1. server[x] = "active" BY <2>2, <3>2 DEF ServerAnswer, TypeOK
      <4> QED BY <1>3, <1>4, <1>7, <2>2, <4>1 DEF AnswerFirst
    <3> QED BY <3>1, <3>2
  <2>3. ASSUME Asking(x), NEW i \in DOMAIN wire', NoteAt(x, i)' PROVE \E j \in 1 .. i - 1 : OkAt(x, j)'
    <3>1. i \in DOMAIN wire /\ NoteAt(x, i) BY <1>6, <2>3
    <3>2. PICK j \in 1 .. i - 1 : OkAt(x, j) BY <1>4, <2>3, <3>1 DEF AnswerFirst
    <3>3. j \in DOMAIN wire BY <1>3, <3>1
    <3> QED BY <1>7, <3>2, <3>3
  <2> QED BY <1>1, <1>a, <2>1, <2>2, <2>3 DEF AnswerFirst
<1> QED BY <1>8, <1>9

\* A notification is the next value and goes behind all others.
LEMMA ServerNotifyWire ==
  ASSUME TypeOK, NEW s \in Subs, ServerNotify(s), NEW x \in Subs, Wire(x) PROVE Wire(x)'
<1>1. UNCHANGED <<run, dispatch, received, buffer, link, clientSubs, respWait, subscriber, server, lastOp>>
  BY DEF ServerNotify, fwdVars, opVars, sendVars
<1>a. /\ Buf(x)' = Buf(x) /\ Run1(x)' = Run1(x) /\ (Delivering(x)' <=> Delivering(x)) /\ (Asking(x)' <=> Asking(x))
      /\ Live(x)' <=> Live(x)
  BY <1>1 DEF Buf, Run1, Delivering, Asking, Live, Waiting
<1>s. sent[s] \in Nat /\ sent[x] \in Nat /\ Passed(x) \in Nat BY Lengths
<1>2. PICK m \in Messages : m.type = "note" /\ m.sub = s /\ m.val = sent[s] + 1 /\ wire' = Append(wire, m)
  <2>1. sent[s] + 1 \in Notes BY <1>s DEF Notes
  <2>2. /\ Message("note", s, sent[s] + 1) \in Messages /\ Message("note", s, sent[s] + 1).type = "note"
        /\ Message("note", s, sent[s] + 1).sub = s /\ Message("note", s, sent[s] + 1).val = sent[s] + 1
    BY <2>1 DEF Message, Messages
  <2> QED BY <2>2 DEF ServerNotify
<1>3. /\ Len(wire) \in Nat /\ DOMAIN wire = 1 .. Len(wire) /\ DOMAIN wire' = 1 .. Len(wire) + 1
      /\ \A i \in DOMAIN wire : i \in DOMAIN wire' /\ wire'[i] = wire[i]
      /\ \A i \in DOMAIN wire' : i \in DOMAIN wire \/ i = Len(wire) + 1
      /\ wire'[Len(wire) + 1] = m
  BY <1>2, AppendWire
<1> SUFFICES ASSUME link = "up", Live(x) PROVE InFlight(x)' /\ AnswerFirst(x)'
  BY <1>1, <1>a DEF Wire
<1>4. InFlight(x) /\ AnswerFirst(x) BY DEF Wire
<1>5. Passed(x)' = Passed(x) BY <1>1, <1>a DEF Passed, Taken
<1>7. \A i \in DOMAIN wire : (NoteAt(x, i)' <=> NoteAt(x, i)) /\ (OkAt(x, i)' <=> OkAt(x, i))
  BY <1>3 DEF NoteAt, OkAt
<1>8. \A i \in DOMAIN wire : wire[i].val \in Nat
  <2>1. \A i \in DOMAIN wire : wire[i] \in Messages BY <1>3, Lengths, ElementOfSeq
  <2> QED BY <2>1 DEF Messages, Notes
<1>9. CASE x # s
  <2>1. sent'[x] = sent[x] BY <1>9 DEF ServerNotify, TypeOK
  <2>2. \A i \in DOMAIN wire' : NoteAt(x, i)' => i \in DOMAIN wire /\ NoteAt(x, i)
    BY <1>2, <1>3, <1>7, <1>9 DEF NoteAt
  <2>3. \A i \in DOMAIN wire' : NoteAt(x, i)' => Passed(x) < wire'[i].val /\ wire'[i].val <= sent[x]
    BY <1>3, <1>4, <2>2 DEF InFlight
  <2>4. \A i, j \in DOMAIN wire' : i < j /\ NoteAt(x, i)' /\ NoteAt(x, j)' => wire'[i].val < wire'[j].val
    BY <1>3, <1>4, <2>2 DEF InFlight
  <2>5. \A v \in Passed(x) + 1 .. sent[x] : \E i \in DOMAIN wire' : NoteAt(x, i)' /\ wire'[i].val = v
    BY <1>3, <1>4, <1>7 DEF InFlight
  <2>6. InFlight(x)' BY <1>4, <1>5, <2>1, <2>3, <2>4, <2>5 DEF InFlight
  <2>7. Asking(x) /\ server[x] = "active" => \E i \in DOMAIN wire' : OkAt(x, i)'
    BY <1>3, <1>4, <1>7 DEF AnswerFirst
  <2>8. ASSUME Asking(x), NEW i \in DOMAIN wire', NoteAt(x, i)' PROVE \E j \in 1 .. i - 1 : OkAt(x, j)'
    <3>1. i \in DOMAIN wire /\ NoteAt(x, i) BY <2>2, <2>8
    <3>2. PICK j \in 1 .. i - 1 : OkAt(x, j) BY <1>4, <2>8, <3>1 DEF AnswerFirst
    <3>3. j \in DOMAIN wire BY <1>3, <3>1
    <3> QED BY <1>7, <3>2, <3>3
  <2>9. AnswerFirst(x)' BY <1>1, <1>4, <1>a, <2>1, <2>7, <2>8 DEF AnswerFirst
  <2> QED BY <2>6, <2>9
<1>10. CASE x = s
  <2>1. sent'[x] = sent[x] + 1 BY <1>10 DEF ServerNotify, TypeOK
  <2>2. PICK n \in DOMAIN wire' : n = Len(wire) + 1 BY <1>3
  <2>3. NoteAt(x, n)' /\ wire'[n].val = sent[x] + 1 BY <1>2, <1>3, <1>10, <2>2 DEF NoteAt
  <2>4. \A i \in DOMAIN wire' : i = n \/ i \in DOMAIN wire BY <1>3, <2>2
  <2>5. \A i \in DOMAIN wire : NoteAt(x, i) => Passed(x) < wire'[i].val /\ wire'[i].val <= sent[x]
    BY <1>3, <1>4 DEF InFlight
  <2>6. Passed(x) <= sent[x] BY <1>4 DEF InFlight
  <2>7. ASSUME NEW i \in DOMAIN wire', NoteAt(x, i)' PROVE Passed(x) < wire'[i].val /\ wire'[i].val <= sent[x] + 1
    <3>1. CASE i = n BY <1>s, <2>3, <2>6, <3>1
    <3>2. CASE i \in DOMAIN wire
      <4>1. wire'[i].val \in Nat /\ Passed(x) < wire'[i].val /\ wire'[i].val <= sent[x]
        BY <1>3, <1>7, <1>8, <2>5, <2>7, <3>2
      <4> QED BY <1>s, <4>1
    <3> QED BY <2>4, <3>1, <3>2
  <2>8. ASSUME NEW i \in DOMAIN wire', NEW j \in DOMAIN wire', i < j, NoteAt(x, i)', NoteAt(x, j)'
        PROVE  wire'[i].val < wire'[j].val
    <3>1. i \in DOMAIN wire BY <1>3, <2>8
    <3>2. NoteAt(x, i) /\ wire'[i] = wire[i] /\ wire[i].val \in Nat BY <1>3, <1>7, <1>8, <2>8, <3>1
    <3>3. CASE j = n
      <4>1. wire'[i].val <= sent[x] BY <2>5, <3>1, <3>2
      <4> QED BY <1>s, <2>3, <3>2, <3>3, <4>1
    <3>4. CASE j \in DOMAIN wire BY <1>3, <1>4, <1>7, <2>8, <3>1, <3>2, <3>4 DEF InFlight
    <3> QED BY <2>4, <3>3, <3>4
  <2>9. ASSUME NEW v \in Passed(x) + 1 .. sent[x] + 1 PROVE \E i \in DOMAIN wire' : NoteAt(x, i)' /\ wire'[i].val = v
    <3>1. CASE v = sent[x] + 1 BY <2>3, <3>1
    <3>2. CASE v \in Passed(x) + 1 .. sent[x]
      <4>1. PICK i \in DOMAIN wire : NoteAt(x, i) /\ wire[i].val = v BY <1>4, <3>2 DEF InFlight
      <4> QED BY <1>3, <1>7, <4>1
    <3> QED BY <1>s, <3>1, <3>2
  <2>10. InFlight(x)' BY <1>s, <1>5, <2>1, <2>6, <2>7, <2>8, <2>9 DEF InFlight
  <2>11. Asking(x) => \E i \in DOMAIN wire : OkAt(x, i) BY <1>4, <1>10 DEF AnswerFirst, ServerNotify
  <2>12. Asking(x) => \E i \in DOMAIN wire' : OkAt(x, i)' BY <1>3, <1>7, <2>11
  <2>13. ASSUME Asking(x), NEW i \in DOMAIN wire', NoteAt(x, i)' PROVE \E j \in 1 .. i - 1 : OkAt(x, j)'
    <3>1. CASE i = n
      <4>1. PICK j \in DOMAIN wire : OkAt(x, j) BY <2>11, <2>13
      <4>2. j \in 1 .. i - 1 BY <1>3, <2>2, <3>1
      <4> QED BY <1>7, <4>1, <4>2
    <3>2. CASE i \in DOMAIN wire
      <4>1. NoteAt(x, i) BY <1>7, <2>13, <3>2
      <4>2. PICK j \in 1 .. i - 1 : OkAt(x, j) BY <1>4, <2>13, <3>2, <4>1 DEF AnswerFirst
      <4>3. j \in DOMAIN wire BY <1>3, <3>2
      <4> QED BY <1>7, <4>2, <4>3
    <3> QED BY <2>4, <3>1, <3>2
  <2>14. server[x] = "active" BY <1>10 DEF ServerNotify
  <2>15. AnswerFirst(x)' BY <1>1, <1>4, <1>a, <2>12, <2>13, <2>14 DEF AnswerFirst
  <2> QED BY <2>10, <2>15
<1> QED BY <1>9, <1>10

\* Dispatch takes the first message.
LEMMA TailWire ==
  ASSUME TypeOK, wire # <<>>, wire' = Tail(wire), NEW x \in Subs
  PROVE  /\ Len(wire) \in Nat /\ DOMAIN wire = 1 .. Len(wire) /\ 1 \in DOMAIN wire
         /\ \A i \in DOMAIN wire' : /\ i + 1 \in DOMAIN wire /\ i \in Nat /\ wire'[i] = wire[i + 1]
                                    /\ NoteAt(x, i)' <=> NoteAt(x, i + 1)
         /\ \A i \in DOMAIN wire : i = 1 \/ (/\ i - 1 \in DOMAIN wire' /\ wire'[i - 1] = wire[i]
                                             /\ NoteAt(x, i - 1)' <=> NoteAt(x, i)
                                             /\ OkAt(x, i - 1)' <=> OkAt(x, i))
<1>1. /\ wire' \in Seq(Messages) /\ Len(wire') = Len(wire) - 1 /\ Len(wire) \in Nat \ {0}
      /\ \A i \in 1 .. Len(wire) - 1 : wire'[i] = wire[i + 1]
  BY HeadTail
<1>2. DOMAIN wire' = 1 .. Len(wire) - 1 /\ DOMAIN wire = 1 .. Len(wire) BY <1>1, Lengths, LenProperties
<1>3. ASSUME NEW i \in DOMAIN wire' PROVE i + 1 \in DOMAIN wire /\ i \in Nat /\ wire'[i] = wire[i + 1]
  BY <1>1, <1>2
<1>4. ASSUME NEW i \in DOMAIN wire, i # 1 PROVE i - 1 \in DOMAIN wire' /\ wire'[i - 1] = wire[i]
  <2>1. i - 1 \in 1 .. Len(wire) - 1 /\ (i - 1) + 1 = i BY <1>1, <1>2, <1>4
  <2> QED BY <1>1, <1>2, <2>1
<1> QED BY <1>1, <1>2, <1>3, <1>4 DEF NoteAt, OkAt

\* An answer leaves the connection: the notifications behind it stay.
LEMMA DispatchAnswerWire ==
  ASSUME TypeOK, RunInv, DispatchAnswer, NEW x \in Subs, Wire(x) PROVE Wire(x)'
<1>1. /\ UNCHANGED <<subscriber, received, buffer, dispatch, link, server, sent>>
      /\ wire # <<>> /\ wire' = Tail(wire) /\ wire[1].type # "note"
  BY HeadTail DEF DispatchAnswer
<1>2. PICK h \in Subs : AnswerEffect(h) BY AnswerHandled
<1>3. /\ Len(wire) \in Nat /\ DOMAIN wire = 1 .. Len(wire)
      /\ \A i \in DOMAIN wire' : /\ i + 1 \in DOMAIN wire /\ i \in Nat /\ wire'[i] = wire[i + 1]
                                 /\ NoteAt(x, i)' <=> NoteAt(x, i + 1)
      /\ \A i \in DOMAIN wire : i = 1 \/ (/\ i - 1 \in DOMAIN wire' /\ wire'[i - 1] = wire[i]
                                          /\ NoteAt(x, i - 1)' <=> NoteAt(x, i)
                                          /\ OkAt(x, i - 1)' <=> OkAt(x, i))
  BY <1>1, TailWire
<1>4. /\ respWait' \subseteq respWait /\ lastOp' = lastOp
      /\ x \in respWait' => ~OkAt(x, 1)
      /\ Buf(x)' = Buf(x) /\ (Delivering(x)' <=> Delivering(x))
  BY <1>1, <1>2 DEF AnswerEffect, OkAt, Buf, Delivering, DispatchAnswer, sendVars
<1>a. dispatch.op = "idle" /\ (Asking(x) <=> x \in respWait) /\ (Asking(x)' <=> x \in respWait')
  BY <1>1 DEF DispatchAnswer, Idle, Asking
<1>l. Live(x)' => Live(x)
  <2>1. CASE run' = run /\ clientSubs' = clientSubs
    <3>1. Run1(x)' = Run1(x) BY <2>1 DEF Run1
    <3> QED BY <1>1, <1>4, <1>a, <2>1, <3>1 DEF Live, Waiting
  <2>2. ASSUME NEW k \in {1, 2}, h \in respWait, clientSubs' = clientSubs \cup {h},
               run' = [run EXCEPT ![<<h, k>>] = "forward"], k = 1 <=> Run1(h) = "none"
        PROVE  Live(x)' => Live(x)
    <3>1. Run1(x)' = IF x = h /\ k = 1 THEN "forward" ELSE Run1(x) BY <2>2, RunMoved
    <3>2. Run1(h) # "forward" BY <2>2 DEF RunInv
    <3>3. CASE x = h /\ k = 1
      <4>1. Run1(x) = "none" /\ x \in respWait BY <2>2, <3>3
      <4> QED BY <1>a, <4>1 DEF Live, Waiting
    <3>4. CASE x = h /\ k = 2
      <4>1. Run1(x)' \notin {"none", "forward"} BY <2>2, <3>1, <3>2, <3>4
      <4> QED BY <4>1 DEF Live, Waiting
    <3>5. CASE x # h
      <4>1. Run1(x)' = Run1(x) /\ (x \in clientSubs' <=> x \in clientSubs) BY <2>2, <3>1, <3>5
      <4> QED BY <1>1, <1>4, <1>a, <4>1 DEF Live, Waiting
    <3> QED BY <3>3, <3>4, <3>5
  <2> QED BY <1>2, <2>1, <2>2 DEF AnswerEffect
<1> SUFFICES ASSUME link = "up", Live(x)' PROVE InFlight(x)' /\ AnswerFirst(x)'
  BY <1>1 DEF Wire
<1>5. InFlight(x) /\ AnswerFirst(x) BY <1>1, <1>l DEF Wire
<1>6. Passed(x)' = Passed(x) BY <1>1, <1>4 DEF Passed, Taken
<1>7. InFlight(x)'
  <2>1. \A i \in DOMAIN wire' : NoteAt(x, i)' => Passed(x) < wire'[i].val /\ wire'[i].val <= sent[x]
    BY <1>3, <1>5 DEF InFlight
  <2>2. ASSUME NEW i \in DOMAIN wire', NEW j \in DOMAIN wire', i < j, NoteAt(x, i)', NoteAt(x, j)'
        PROVE  wire'[i].val < wire'[j].val
    <3>1. i + 1 < j + 1 BY <1>3, <2>2
    <3> QED BY <1>3, <1>5, <2>2, <3>1 DEF InFlight
  <2>3. ASSUME NEW v \in Passed(x) + 1 .. sent[x] PROVE \E i \in DOMAIN wire' : NoteAt(x, i)' /\ wire'[i].val = v
    <3>1. PICK i \in DOMAIN wire : NoteAt(x, i) /\ wire[i].val = v BY <1>5 DEF InFlight
    <3>2. i # 1 BY <1>1, <3>1 DEF NoteAt
    <3> QED BY <1>3, <3>1, <3>2
  <2> QED BY <1>1, <1>5, <1>6, <2>1, <2>2, <2>3 DEF InFlight
<1>8. AnswerFirst(x)'
  <2>1. ASSUME Asking(x)', server[x] = "active" PROVE \E i \in DOMAIN wire' : OkAt(x, i)'
    <3>1. PICK i \in DOMAIN wire : OkAt(x, i) BY <1>4, <1>5, <1>a, <2>1 DEF AnswerFirst
    <3>2. i # 1 BY <1>4, <1>a, <2>1, <3>1
    <3> QED BY <1>3, <3>1, <3>2
  <2>2. ASSUME Asking(x)', NEW i \in DOMAIN wire', NoteAt(x, i)' PROVE \E j \in 1 .. i - 1 : OkAt(x, j)'
    <3>1. i + 1 \in DOMAIN wire /\ NoteAt(x, i + 1) /\ i \in Nat BY <1>3, <2>2
    <3>2. PICK j \in 1 .. (i + 1) - 1 : OkAt(x, j) BY <1>4, <1>5, <1>a, <2>2, <3>1 DEF AnswerFirst
    <3>3. j # 1 BY <1>4, <1>a, <2>2, <3>2
    <3>4. j \in DOMAIN wire /\ j - 1 \in 1 .. i - 1 BY <1>3, <3>1, <3>3
    <3> QED BY <1>3, <3>2, <3>3, <3>4
  <2> QED BY <1>1, <1>5, <2>1, <2>2 DEF AnswerFirst
<1> QED BY <1>7, <1>8

\* A notification leaves the connection for deliver.
LEMMA DispatchNoteWire ==
  ASSUME TypeOK, RunInv, DispatchNote, NEW x \in Subs, Wire(x) PROVE Wire(x)'
<1>1. /\ UNCHANGED <<subscriber, respWait, lastOp, run, received, buffer, link, server, sent, clientSubs>>
      /\ wire # <<>> /\ wire' = Tail(wire) /\ wire[1].type = "note" /\ dispatch = Idle
      /\ dispatch' = IF wire[1].sub \in clientSubs THEN Deliver(wire[1].sub, wire[1].val) ELSE Idle
  BY HeadTail DEF DispatchNote, opVars, fwdVars, sendVars
<1>2. /\ Buf(x)' = Buf(x) /\ Run1(x)' = Run1(x) /\ (Asking(x)' <=> Asking(x)) /\ (Live(x)' <=> Live(x))
  <2>1. dispatch.op # "reconnected" /\ dispatch'.op # "reconnected" BY <1>1 DEF Idle, Deliver
  <2> QED BY <1>1, <2>1 DEF Buf, Run1, Asking, Live, Waiting
<1>3. /\ Len(wire) \in Nat /\ DOMAIN wire = 1 .. Len(wire) /\ 1 \in DOMAIN wire
      /\ \A i \in DOMAIN wire' : /\ i + 1 \in DOMAIN wire /\ i \in Nat /\ wire'[i] = wire[i + 1]
                                 /\ NoteAt(x, i)' <=> NoteAt(x, i + 1)
      /\ \A i \in DOMAIN wire : i = 1 \/ (/\ i - 1 \in DOMAIN wire' /\ wire'[i - 1] = wire[i]
                                          /\ NoteAt(x, i - 1)' <=> NoteAt(x, i)
                                          /\ OkAt(x, i - 1)' <=> OkAt(x, i))
  BY <1>1, TailWire
<1> SUFFICES ASSUME link = "up", Live(x) PROVE InFlight(x)' /\ AnswerFirst(x)'
  BY <1>1, <1>2 DEF Wire
<1>4. InFlight(x) /\ AnswerFirst(x) BY DEF Wire
<1>5. Passed(x) \in Nat /\ sent[x] \in Nat /\ Passed(x) = Taken(x) BY <1>1, Lengths DEF Passed, Delivering, Idle
<1>6. CASE NoteAt(x, 1)
  <2>1. wire[1].val = Passed(x) + 1 /\ Passed(x) + 1 <= sent[x] BY <1>1, <1>4, <1>6, NextValue
  <2>2. ~Asking(x) BY <1>3, <1>4, <1>6 DEF AnswerFirst
  <2>3. subscriber[x] # "idle" BY <1>4, <1>5, <2>1 DEF AnswerFirst, RunInv
  <2>4. Run1(x) = "forward" /\ x \in clientSubs BY <2>2, <2>3 DEF Live, Waiting
  <2>5. Passed(x)' = Passed(x) + 1
    <3>1. Delivering(x)' BY <1>1, <1>6, <2>4 DEF Delivering, Deliver, NoteAt
    <3>2. Taken(x)' = Taken(x) BY <1>1, <1>2 DEF Taken
    <3> QED BY <1>5, <3>1, <3>2 DEF Passed
  <2>6. ASSUME NEW i \in DOMAIN wire', NoteAt(x, i)' PROVE Passed(x) + 1 < wire'[i].val /\ wire'[i].val <= sent[x]
    <3>1. i + 1 \in DOMAIN wire /\ 1 < i + 1 /\ NoteAt(x, i + 1) /\ wire'[i] = wire[i + 1]
      <4>1. i >= 1
        <5>1. wire' \in Seq(Messages) BY <1>1, HeadTail
        <5> QED BY <5>1, LenProperties
      <4> QED BY <1>3, <2>6, <4>1
    <3> QED BY <1>3, <1>4, <1>6, <2>1, <3>1 DEF InFlight
  <2>7. ASSUME NEW i \in DOMAIN wire', NEW j \in DOMAIN wire', i < j, NoteAt(x, i)', NoteAt(x, j)'
        PROVE  wire'[i].val < wire'[j].val
    <3>1. i + 1 < j + 1 BY <1>3, <2>7
    <3> QED BY <1>3, <1>4, <2>7, <3>1 DEF InFlight
  <2>8. ASSUME NEW v \in (Passed(x) + 1) + 1 .. sent[x] PROVE \E i \in DOMAIN wire' : NoteAt(x, i)' /\ wire'[i].val = v
    <3>1. v \in Passed(x) + 1 .. sent[x] /\ v # Passed(x) + 1 BY <1>5
    <3>2. PICK i \in DOMAIN wire : NoteAt(x, i) /\ wire[i].val = v BY <1>4, <3>1 DEF InFlight
    <3>3. i # 1 BY <2>1, <3>1, <3>2
    <3> QED BY <1>3, <3>2, <3>3
  <2>9. InFlight(x)' BY <1>1, <2>1, <2>5, <2>6, <2>7, <2>8 DEF InFlight
  <2>10. AnswerFirst(x)' BY <1>1, <1>2, <1>4, <2>2 DEF AnswerFirst
  <2> QED BY <2>9, <2>10
<1>7. CASE ~NoteAt(x, 1)
  <2>1. Passed(x)' = Passed(x)
    <3>1. ~Delivering(x)' BY <1>1, <1>7 DEF Delivering, Deliver, Idle, NoteAt
    <3>2. Taken(x)' = Taken(x) BY <1>1, <1>2 DEF Taken
    <3> QED BY <1>5, <3>1, <3>2 DEF Passed
  <2>2. \A i \in DOMAIN wire' : NoteAt(x, i)' => Passed(x) < wire'[i].val /\ wire'[i].val <= sent[x]
    BY <1>3, <1>4 DEF InFlight
  <2>3. ASSUME NEW i \in DOMAIN wire', NEW j \in DOMAIN wire', i < j, NoteAt(x, i)', NoteAt(x, j)'
        PROVE  wire'[i].val < wire'[j].val
    <3>1. i + 1 < j + 1 BY <1>3, <2>3
    <3> QED BY <1>3, <1>4, <2>3, <3>1 DEF InFlight
  <2>4. ASSUME NEW v \in Passed(x) + 1 .. sent[x] PROVE \E i \in DOMAIN wire' : NoteAt(x, i)' /\ wire'[i].val = v
    <3>1. PICK i \in DOMAIN wire : NoteAt(x, i) /\ wire[i].val = v BY <1>4 DEF InFlight
    <3> QED BY <1>3, <1>7, <3>1
  <2>5. InFlight(x)' BY <1>1, <1>4, <2>1, <2>2, <2>3, <2>4 DEF InFlight
  <2>n. ~OkAt(x, 1) BY <1>1 DEF OkAt
  <2>6. ASSUME Asking(x), server[x] = "active" PROVE \E i \in DOMAIN wire' : OkAt(x, i)'
    <3>1. PICK i \in DOMAIN wire : OkAt(x, i) BY <1>4, <2>6 DEF AnswerFirst
    <3> QED BY <1>3, <2>n, <3>1
  <2>7. ASSUME Asking(x), NEW i \in DOMAIN wire', NoteAt(x, i)' PROVE \E j \in 1 .. i - 1 : OkAt(x, j)'
    <3>1. i + 1 \in DOMAIN wire /\ NoteAt(x, i + 1) /\ i \in Nat BY <1>3, <2>7
    <3>2. PICK j \in 1 .. (i + 1) - 1 : OkAt(x, j) BY <1>4, <2>7, <3>1 DEF AnswerFirst
    <3>3. j # 1 BY <2>n, <3>2
    <3>4. j \in DOMAIN wire /\ j - 1 \in 1 .. i - 1 BY <1>3, <3>1, <3>3
    <3> QED BY <1>3, <3>2, <3>3, <3>4
  <2>8. AnswerFirst(x)' BY <1>1, <1>2, <1>4, <2>6, <2>7 DEF AnswerFirst
  <2> QED BY <2>5, <2>8
<1> QED BY <1>6, <1>7

\* Values reach the user in order and what is in flight follows on them,
\* whatever happens.
LEMMA ValueStepInv ==
  ASSUME TypeOK, EndInv, RunInv, DispatchInv, ForwardInv, WireInv, [Next]_vars PROVE ForwardInv' /\ WireInv'
<1> SUFFICES ASSUME NEW x \in Subs PROVE Forwarded(x)' /\ Wire(x)'
  BY DEF ForwardInv, WireInv
<1>1. Forwarded(x) /\ Wire(x) BY DEF ForwardInv, WireInv
<1>2. CASE Still(x) BY <1>1, <1>2, StillForwarded, StillWire
<1>3. ASSUME NEW g \in Runs, RunStep(g) \/ ForwardSend(g) PROVE Forwarded(x)' /\ Wire(x)'
  BY <1>1, <1>2, <1>3, RunStill, StopsBoth, TakesBoth, SendForwarded, SendWire
<1>4. ASSUME NEW op \in Ops, WriteStep(op) PROVE Forwarded(x)' /\ Wire(x)'
  BY <1>1, <1>2, <1>4, WriteStill, ReconnectBoth DEF WriteStep
<1>5. ASSUME NEW s \in Subs, ServerAnswer(s) \/ ServerNotify(s) PROVE Forwarded(x)' /\ Wire(x)'
  <2>1. UNCHANGED <<received, buffer, run, dispatch>> BY <1>5 DEF ServerAnswer, ServerNotify, fwdVars
  <2>2. Forwarded(x)' BY <1>1, <2>1 DEF Forwarded, Delivering, Taken, Buf, Run1
  <2> QED BY <1>1, <1>5, <2>2, ServerAnswerWire, ServerNotifyWire
<1>6. CASE DispatchAnswer
  <2>1. UNCHANGED <<received, buffer>> /\ ~Delivering(x)' BY <1>6 DEF DispatchAnswer, Delivering, Idle
  <2>2. Forwarded(x)' BY <1>1, <2>1 DEF Forwarded, Buf
  <2> QED BY <1>1, <1>6, <2>2, DispatchAnswerWire
<1>7. CASE DispatchNote BY <1>1, <1>7, NoteForwarded, DispatchNoteWire
<1>8. ASSUME NEW e \in {"lost", "quit"}, DispatchClose(e) PROVE Forwarded(x)' /\ Wire(x)'
  <2>1. UNCHANGED <<received, buffer>> /\ ~Delivering(x)' /\ link' = "down"
    BY <1>8 DEF DispatchClose, fwdVars, Delivering, Closing
  <2> QED BY <1>1, <2>1 DEF Forwarded, Buf, Wire
<1>9. CASE \/ DispatchReqSent \/ (\E e \in {"lost", "reconnected"} : DispatchClosed(e))
           \/ \E s \in Subs : DispatchSkip(s)
  BY <1>2, <1>9, DispatchStill
<1>10. CASE DispatchStep BY <1>6, <1>7, <1>9, <1>10 DEF DispatchStep
<1>11. ASSUME NEW s \in Subs, SubscribeStep(s) PROVE Forwarded(x)' /\ Wire(x)' BY <1>2, <1>11, SubscribeStill
<1>12. CASE UNCHANGED vars \/ \E s \in Subs : \E u \in Unsubscribers[s] : UnsubscribeStep(s, u)
  BY <1>2, <1>12, UnsubscribeStill
<1> QED BY <1>3, <1>4, <1>5, <1>8, <1>10, <1>11, <1>12 DEF Next

-----------------------------------------------------------------------------
(* The theorems.                                                           *)

\* The invariant is inductive.
LEMMA StepInv == Inv /\ [Next]_vars => Inv'
  BY TypeStep, EndStepInv, RunStepInv, DispatchStepInv, ValueStepInv DEF Inv

\* Inv holds in every reachable state of every instance.
THEOREM Invariance == Spec => []Inv
  BY InitInv, StepInv, PTL DEF Spec

\* The variables keep their types, and the forwarding buffer its limit
\* (subscription.go:350-357).
THEOREM TypeCorrect == Spec => []TypeOK
<1>1. Inv => TypeOK BY DEF Inv
<1> QED BY Invariance, <1>1, PTL

\* sub.err is sent to once and before Unsubscribe closes it, and nothing panics
\* unless a request was answered twice (subscription.go:260-269, 298, 308-315,
\* handler.go:424), however many goroutines call Unsubscribe and however often
\* the client connects again.
THEOREM ErrChanSafeHolds == Spec => []ErrChanSafe
<1>1. Inv => ErrChanSafe
  <2> SUFFICES ASSUME Inv PROVE ErrChanSafe
    OBVIOUS
  <2>1. EndInv BY DEF Inv
  <2>2. ASSUME NEW g \in Runs
        PROVE  /\ g[1] \in errClosed => run[g] \notin {"request", "write", "answer", "report", "finish"}
               /\ run[g] = "report" => errBuf[g[1]] = <<>>
               /\ run[g] \in {"report", "finish"} => g[1] \notin unsubDone
    <3>1. PICK s \in Subs, k \in {1, 2} : g = <<s, k>> /\ g[1] = s BY RunOf
    <3>2. run[g] = IF k = 1 THEN Run1(s) ELSE Run2(s) BY <3>1, RunAt
    <3>3. /\ Run1(s) \in Ended => Run2(s) \notin Ended
          /\ s \in unsubDone => Run1(s) = "done" \/ Run2(s) = "done"
          /\ errBuf[s] # <<>> => Run1(s) \in {"finish", "done"} \/ Run2(s) \in {"finish", "done"}
          /\ s \in errClosed => s \in unsubDone
      BY <2>1 DEF EndInv
    <3> QED BY <3>1, <3>2, <3>3 DEF Ended
  <2>3. crashed => \E s \in Subs : AnsweredTwice(s) BY <2>1 DEF EndInv
  <2> QED BY <2>2, <2>3 DEF ErrChanSafe
<1> QED BY Invariance, <1>1, PTL

\* A step that lets a call of Unsubscribe return ends the subscription, and no
\* other step changes what has ended.
LEMMA EndedStep ==
  ASSUME TypeOK, [Next]_vars
  PROVE  \/ \A x \in Subs : Unsubscribed(x)' <=> Unsubscribed(x)
         \/ /\ received' = received
            /\ \E s \in Subs : /\ Unsubscribed(s)'
                               /\ \A x \in Subs \ {s} : Unsubscribed(x)' <=> Unsubscribed(x)
<1>1. ASSUME NEW s \in Subs, NEW u \in Unsubscribers[s], UnsubscribeAgain(s, u) \/ UnsubscribeReturn(s, u)
      PROVE  /\ received' = received /\ Unsubscribed(s)'
             /\ \A x \in Subs \ {s} : Unsubscribed(x)' <=> Unsubscribed(x)
  <2>1. received' = received /\ upc' = [upc EXCEPT ![<<s, u>>] = "done"]
    BY <1>1 DEF UnsubscribeAgain, UnsubscribeReturn, fwdVars
  <2>2. upc'[<<s, u>>] = "done" BY <2>1, UserOf DEF TypeOK
  <2>3. \A x \in Subs \ {s} : \A v \in Unsubscribers[x] : upc'[<<x, v>>] = upc[<<x, v>>]
    BY <2>1, UserOf DEF TypeOK
  <2> QED BY <2>1, <2>2, <2>3 DEF Unsubscribed
<1>2. ASSUME NEW s \in Subs, NEW u \in Unsubscribers[s],
             Unsubscribe(s, u) \/ \E k \in {1, 2} : ForwardUnsubscribe(<<s, k>>, u)
      PROVE  \A x \in Subs : Unsubscribed(x)' <=> Unsubscribed(x)
  <2>1. /\ upc[<<s, u>>] \in {"idle", "quit"}
        /\ \E l \in {"quit", "once", "wait"} : upc' = [upc EXCEPT ![<<s, u>>] = l]
    BY <1>2 DEF Unsubscribe, ForwardUnsubscribe
  <2>2. PICK l \in {"quit", "once", "wait"} : upc' = [upc EXCEPT ![<<s, u>>] = l] BY <2>1
  <2>3. ASSUME NEW x \in Subs, NEW v \in Unsubscribers[x]
        PROVE  upc'[<<x, v>>] = "done" <=> upc[<<x, v>>] = "done"
    <3>1. <<x, v>> \in Users /\ <<x, v>> \in DOMAIN upc BY UserOf DEF TypeOK
    <3>2. CASE <<x, v>> = <<s, u>>
      <4>1. upc'[<<x, v>>] = l BY <2>2, <3>1, <3>2
      <4>2. upc[<<x, v>>] \in {"idle", "quit"} BY <2>1, <3>2
      <4> QED BY <4>1, <4>2
    <3>3. CASE <<x, v>> # <<s, u>>
      <4>1. upc'[<<x, v>>] = upc[<<x, v>>] BY <2>2, <3>1, <3>3
      <4> QED BY <4>1
    <3> QED BY <3>2, <3>3
  <2> QED BY <2>3 DEF Unsubscribed
<1>3. ASSUME NEW g \in Runs, NEW u \in Unsubscribers[g[1]], ForwardUnsubscribe(g, u)
      PROVE  \A x \in Subs : Unsubscribed(x)' <=> Unsubscribed(x)
  <2>1. PICK s \in Subs, k \in {1, 2} : g = <<s, k>> /\ g[1] = s BY RunOf
  <2> QED BY <1>2, <1>3, <2>1
<1>4. CASE UNCHANGED upc BY <1>4 DEF Unsubscribed
<1>5. \/ UNCHANGED upc
      \/ \E s \in Subs : \E u \in Unsubscribers[s] : UnsubscribeStep(s, u)
      \/ \E g \in Runs : \E u \in Unsubscribers[g[1]] : ForwardUnsubscribe(g, u)
  <2>1. \A s \in Subs : SubscribeStep(s) \/ ServerAnswer(s) \/ ServerNotify(s) => UNCHANGED upc
    BY DEF SubscribeStep, Subscribe, SubscribeReturn, SubscribeCtx, SubscribeTimeout, ServerAnswer, ServerNotify,
           unsubVars
  <2>2. \A op \in Ops : WriteStep(op) => UNCHANGED upc
    BY DEF WriteStep, WriteOk, WriteFail, DialFail, Reconnect, unsubVars
  <2>3. DispatchStep \/ (\E e \in {"lost", "quit"} : DispatchClose(e)) => UNCHANGED upc
    BY DEF DispatchStep, DispatchAnswer, DispatchNote, DispatchReqSent, DispatchClose, DispatchClosed, DispatchSkip,
           unsubVars
  <2>4. \A g \in Runs : RunStep(g) \/ ForwardSend(g) =>
          UNCHANGED upc \/ \E u \in Unsubscribers[g[1]] : ForwardUnsubscribe(g, u)
    BY DEF RunStep, ForwardIn, ForwardSend, ForwardClose, CloseForwardDone, RequestUnsubscribe, RequestTimeout,
           RequestReturn, ReportError, CloseUnsubDone, unsubVars
  <2> QED BY <2>1, <2>2, <2>3, <2>4 DEF Next, vars, unsubVars
<1> QED BY <1>1, <1>2, <1>3, <1>4, <1>5 DEF UnsubscribeStep

\* Only the first forwarding goroutine gives the user's channel its next value.
LEMMA ReceivedStep ==
  ASSUME TypeOK, [Next]_vars PROVE received' = received \/ \E s \in Subs : ForwardSend(<<s, 1>>)
<1>1. \A s \in Subs : SubscribeStep(s) \/ ServerAnswer(s) \/ ServerNotify(s) => UNCHANGED received
  BY DEF SubscribeStep, Subscribe, SubscribeReturn, SubscribeCtx, SubscribeTimeout, ServerAnswer, ServerNotify, fwdVars
<1>2. \A op \in Ops : WriteStep(op) => UNCHANGED received
  BY DEF WriteStep, WriteOk, WriteFail, DialFail, Reconnect, fwdVars
<1>3. DispatchStep \/ (\E e \in {"lost", "quit"} : DispatchClose(e)) => UNCHANGED received
  BY DEF DispatchStep, DispatchAnswer, DispatchNote, DispatchReqSent, DispatchClose, DispatchClosed, DispatchSkip,
         fwdVars
<1>4. \A g \in Runs : RunStep(g) => UNCHANGED received
  BY DEF RunStep, ForwardIn, ForwardClose, ForwardUnsubscribe, CloseForwardDone, RequestUnsubscribe, RequestTimeout,
         RequestReturn, ReportError, CloseUnsubDone
<1>5. \A s \in Subs : \A u \in Unsubscribers[s] : UnsubscribeStep(s, u) => UNCHANGED received
  BY DEF UnsubscribeStep, Unsubscribe, UnsubscribeAgain, UnsubscribeReturn, fwdVars
<1>6. ASSUME NEW g \in Runs, ForwardSend(g) PROVE received' = received \/ \E s \in Subs : ForwardSend(<<s, 1>>)
  <2>1. PICK s \in Subs, k \in {1, 2} : g = <<s, k>> /\ g[2] = k BY RunOf
  <2>2. CASE k = 1 BY <1>6, <2>1, <2>2
  <2>3. CASE k = 2 BY <1>6, <2>1, <2>3 DEF ForwardSend
  <2> QED BY <2>2, <2>3
<1>7. UNCHANGED vars => UNCHANGED received BY DEF vars, fwdVars
<1> QED BY <1>1, <1>2, <1>3, <1>4, <1>5, <1>6, <1>7 DEF Next

\* Every step gives a channel its next value, ends a subscription, or neither.
LEMMA PromiseStep == ASSUME Inv, [Next]_vars PROVE [Promise!Next]_(Promise!vars)
<1>0. TypeOK /\ EndInv /\ RunInv /\ ForwardInv BY DEF Inv
<1> DEFINE ended == {s \in Subs : Unsubscribed(s)}
<1>1. ASSUME NEW s \in Subs, ForwardSend(<<s, 1>>) PROVE Promise!Next
  <2>1. ended' = ended
    <3>1. upc' = upc BY <1>1 DEF ForwardSend, unsubVars
    <3> QED BY <3>1 DEF Unsubscribed
  <2>2. s \notin ended
    <3>1. Run1(s) = "forward" BY <1>1 DEF ForwardSend, Run1
    <3>2. Run2(s) = "none" BY <1>0, <3>1 DEF RunInv
    <3>3. s \notin unsubDone BY <1>0, <3>1, <3>2 DEF EndInv
    <3>4. ASSUME Unsubscribed(s) PROVE FALSE BY <1>0, <3>3, <3>4 DEF EndInv, Unsubscribed
    <3> QED BY <3>4
  <2>3. received' = [received EXCEPT ![s] = Append(received[s], Len(received[s]) + 1)]
    BY <1>0, <1>1, SendForwarded
  <2>4. Promise!Value(s) BY <2>1, <2>2, <2>3 DEF Promise!Value
  <2> QED BY <2>4 DEF Promise!Next
<1>2. CASE received' = received /\ \A x \in Subs : Unsubscribed(x)' <=> Unsubscribed(x)
  <2>1. ended' = ended BY <1>2
  <2> QED BY <1>2, <2>1 DEF Promise!vars
<1>3. ASSUME received' = received, NEW s \in Subs, Unsubscribed(s)',
             \A x \in Subs \ {s} : Unsubscribed(x)' <=> Unsubscribed(x)
      PROVE  Promise!Next
  <2>1. ended' = ended \cup {s} BY <1>3
  <2>2. Promise!Unsubscribed(s) BY <1>3, <2>1 DEF Promise!Unsubscribed
  <2> QED BY <2>2 DEF Promise!Next
<1> QED BY <1>0, <1>1, <1>2, <1>3, EndedStep, ReceivedStep

\* ClientSub implements SubscriptionSpec: on every subscription's channel come the
\* server's values from the first, in order and without gaps, and nothing after a
\* call of Unsubscribe has returned (subscription.go:219-365, handler.go:404-437,
\* 461-470), from the goroutine that the first answer starts, for any number of
\* subscriptions, of calls of Unsubscribe and of new connections.
THEOREM Refinement == Spec => KeepsPromise
<1>1. Init => Promise!Init
  <2> SUFFICES ASSUME Init PROVE Promise!Init
    OBVIOUS
  <2>1. \A s \in Subs : ~Unsubscribed(s) BY UserOf DEF Init, Unsubscribed
  <2> QED BY <2>1 DEF Init, Promise!Init
<1>2. Inv /\ [Next]_vars => [Promise!Next]_(Promise!vars) BY PromiseStep
<1> QED BY <1>1, <1>2, Invariance, PTL DEF Spec, KeepsPromise, Promise!Spec

=============================================================================
