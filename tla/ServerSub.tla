----------------------------- MODULE ServerSub -----------------------------
(***************************************************************************)
(* Server-side subscriptions (rpc/subscription.go, rpc/handler.go) on one  *)
(* connection: a call goroutine per subscribe request, the service's       *)
(* goroutine that calls Notify, call goroutines for unsubscribe requests,  *)
(* and handler.close.  Notifier.mu and handler.subLock are held for one    *)
(* action.  Each subscribe request is for a subscription of its own; the   *)
(* values passed to Notify are numbered 1, 2, ..., and 0 stands for the    *)
(* answer to the subscribe request.                                        *)
(***************************************************************************)
EXTENDS Integers, Sequences, SequencesExt

CONSTANTS
  Subs,      \* subscribe requests and the subscriptions they create
  Limited,   \* those in a batch whose answers exceed batchResponseMaxSize
  MaxNotes,  \* bound: Notify calls per subscription
  Unfit      \* answers (0) and values that json.Marshal refuses: pairs <<s, v>>

ASSUME ServerSubAssumption == Limited \subseteq Subs /\ MaxNotes \in Nat /\ Unfit \subseteq Subs \X Nat

VARIABLES
  pc,          \* the call goroutine of each subscribe request
  created,     \* subscriptions made by CreateSubscription
  refused,     \* subscribe methods that returned an error
  activated,   \* Notifier.activated
  buffer,      \* Notifier.buffer
  notified,    \* Notify calls so far
  serverSubs,  \* handler.serverSubs
  errBuf, errClosed, \* Subscription.err: has a value, is closed
  unsub,       \* the unsubscribe request of each subscription
  wire,        \* what has been written to the connection
  broken,      \* writing fails
  closing      \* handler.close

procVars == <<pc, created, refused>>
noteVars == <<activated, buffer, notified>>
tableVars == <<serverSubs, errBuf, errClosed, unsub>>
vars == <<procVars, noteVars, tableVars, wire, broken, closing>>

Note(s, v) == [type |-> "note", sub |-> s, val |-> v]
Id(s)      == [type |-> "id", sub |-> s, val |-> 0]
Refusal(s) == [type |-> "error", sub |-> s, val |-> 0]

TypeOK ==
  /\ pc \in [Subs -> {"idle", "method", "early", "add", "respond", "activate", "done"}]
  /\ created \subseteq Subs /\ refused \subseteq Subs /\ activated \subseteq Subs
  /\ buffer \in [Subs -> Seq(1 .. MaxNotes)] /\ notified \in [Subs -> 0 .. MaxNotes]
  /\ serverSubs \subseteq Subs /\ errBuf \subseteq Subs /\ errClosed \subseteq Subs
  /\ unsub \in [Subs -> {"none", "call", "found", "notFound"}]
  /\ wire \in Seq([type : {"note", "id", "error"}, sub : Subs, val : 0 .. MaxNotes])
  /\ broken \in BOOLEAN
  /\ closing \in {"open", "waitCalls", "closed"}

Init ==
  /\ pc = [s \in Subs |-> "idle"] /\ created = {} /\ refused = {} /\ activated = {}
  /\ buffer = [s \in Subs |-> <<>>] /\ notified = [s \in Subs |-> 0]
  /\ serverSubs = {} /\ errBuf = {} /\ errClosed = {} /\ unsub = [s \in Subs |-> "none"]
  /\ wire = <<>> /\ broken = FALSE /\ closing = "open"

Goto(s, l) == pc' = [pc EXCEPT ![s] = l]

Marshals(m) == <<m.sub, m.val>> \notin Unfit

\* writeJSON for each of the messages up to the first error.  A message that does
\* not marshal is refused and leaves the encoder as it was; any other error stays,
\* in json.Encoder or in websocket.Conn, and every later write returns it.  No
\* error closes the connection.
WriteAll(ms) ==
  IF broken THEN UNCHANGED <<wire, broken>>
  ELSE \E k \in 0 .. Len(ms) :
         /\ \A i \in 1 .. k : Marshals(ms[i])
         /\ wire' = wire \o SubSeq(ms, 1, k)
         /\ broken' = (k < Len(ms) /\ Marshals(ms[k + 1]))

-----------------------------------------------------------------------------
(* The call goroutine of a subscribe request.                              *)

\* handleMsg or handleBatch starts it.
StartCallProc(s) ==
  /\ pc[s] = "idle" /\ closing = "open"
  /\ Goto(s, "method")
  /\ UNCHANGED <<created, refused, noteVars, tableVars, wire, broken, closing>>

CreateSubscription(s) ==
  /\ pc[s] = "method" /\ s \notin created
  /\ created' = created \cup {s}
  /\ UNCHANGED <<pc, refused, noteVars, tableVars, wire, broken, closing>>

\* Mutant: the answer is written before the subscription is added.
MethodReturn_AnswerFirst(s) ==
  /\ pc[s] = "method" /\ s \in created
  /\ Goto(s, "early")
  /\ UNCHANGED <<created, refused, noteVars, tableVars, wire, broken, closing>>

\* The subscribe method returns its subscription or an error.
MethodReturn(s) ==
  /\ pc[s] = "method"
  /\ \/ s \in created /\ refused' = refused
     \/ refused' = refused \cup {s}
  /\ Goto(s, IF s \in Limited THEN "early" ELSE "add")
  /\ UNCHANGED <<created, noteVars, tableVars, wire, broken, closing>>

\* The answer of the subscribe call, written by whoever writes it; the error that
\* writeJSON returns is dropped.  It does not marshal if an error's ErrorData does
\* not, that of another call in the batch included.
WriteAnswer(s) == WriteAll(<<IF s \in refused THEN Refusal(s) ELSE Id(s)>>)

\* A batch that grew too large is answered at once by respondWithError.
RespondEarly(s) ==
  /\ pc[s] = "early"
  /\ WriteAnswer(s) /\ Goto(s, "add")
  /\ UNCHANGED <<created, refused, noteVars, tableVars, closing>>

\* addSubscriptions; takeSubscription makes it too late to create one.
AddSubscriptions(s) ==
  /\ pc[s] = "add"
  /\ serverSubs' = serverSubs \cup ({s} \cap created)
  /\ Goto(s, "respond")
  /\ UNCHANGED <<created, refused, noteVars, errBuf, errClosed, unsub, wire, broken, closing>>

\* callBuffer.write or writeJSON, unless it was written already.
Respond(s) ==
  /\ pc[s] = "respond"
  /\ IF s \in Limited THEN UNCHANGED <<wire, broken>> ELSE WriteAnswer(s)
  /\ Goto(s, "activate")
  /\ UNCHANGED <<created, refused, noteVars, tableVars, closing>>

\* Mutant: a buffered value that does not marshal is skipped and not the end.
Activate_Skip(s) ==
  LET ms == SelectSeq([i \in DOMAIN buffer[s] |-> Note(s, buffer[s][i])], Marshals) IN
  /\ pc[s] = "activate"
  /\ WriteAll(ms)
  /\ activated' = IF wire' = wire \o ms THEN activated \cup {s} ELSE activated
  /\ Goto(s, "done")
  /\ UNCHANGED <<created, refused, buffer, notified, tableVars, closing>>

\* activate: sends the buffer, and gives up for good at the first error.
Activate(s) ==
  LET ms == [i \in DOMAIN buffer[s] |-> Note(s, buffer[s][i])] IN
  /\ pc[s] = "activate"
  /\ WriteAll(ms)
  /\ activated' = IF wire' = wire \o ms THEN activated \cup {s} ELSE activated
  /\ Goto(s, "done")
  /\ UNCHANGED <<created, refused, buffer, notified, tableVars, closing>>

-----------------------------------------------------------------------------
(* The service.                                                            *)

\* Mutant: notifications are sent although the notifier is not active.
Notify_Direct(s) ==
  /\ s \in created /\ notified[s] < MaxNotes
  /\ notified' = [notified EXCEPT ![s] = @ + 1]
  /\ WriteAll(<<Note(s, notified[s] + 1)>>)
  /\ UNCHANGED <<procVars, activated, buffer, tableVars, closing>>

\* Mutant: a value is buffered before it is there.
Notify_Empty(s) ==
  /\ s \in created \ activated /\ notified[s] < MaxNotes
  /\ notified' = [notified EXCEPT ![s] = @ + 1]
  /\ buffer' = [buffer EXCEPT ![s] = Append(@, notified[s])]
  /\ UNCHANGED <<procVars, activated, tableVars, wire, broken, closing>>

\* Notify sends at once and returns the error or, before activation, keeps the
\* value and returns none.
Notify(s) ==
  /\ s \in created /\ notified[s] < MaxNotes
  /\ notified' = [notified EXCEPT ![s] = @ + 1]
  /\ IF s \in activated
     THEN /\ WriteAll(<<Note(s, notified[s] + 1)>>)
          /\ UNCHANGED buffer
     ELSE /\ buffer' = [buffer EXCEPT ![s] = Append(@, notified[s] + 1)]
          /\ UNCHANGED <<wire, broken>>
  /\ UNCHANGED <<procVars, activated, tableVars, closing>>

-----------------------------------------------------------------------------
(* Unsubscribing and closing.                                              *)

\* The client has the subscription's id and sends an unsubscribe request.
ClientUnsubscribe(s) ==
  /\ unsub[s] = "none" /\ closing = "open" /\ Contains(wire, Id(s))
  /\ unsub' = [unsub EXCEPT ![s] = "call"]
  /\ UNCHANGED <<procVars, noteVars, serverSubs, errBuf, errClosed, wire, broken, closing>>

\* Mutant: the subscription stays in the table.
Unsubscribe_Keep(s) ==
  /\ unsub[s] = "call"
  /\ unsub' = [unsub EXCEPT ![s] = IF s \in serverSubs THEN "found" ELSE "notFound"]
  /\ errClosed' = errClosed \cup ({s} \cap serverSubs)
  /\ UNCHANGED <<procVars, noteVars, serverSubs, errBuf, wire, broken, closing>>

\* handler.unsubscribe.
Unsubscribe(s) ==
  /\ unsub[s] = "call"
  /\ unsub' = [unsub EXCEPT ![s] = IF s \in serverSubs THEN "found" ELSE "notFound"]
  /\ errClosed' = errClosed \cup ({s} \cap serverSubs)
  /\ serverSubs' = serverSubs \ {s}
  /\ UNCHANGED <<procVars, noteVars, errBuf, wire, broken, closing>>

\* handler.close is called; it waits for the call goroutines.
Close ==
  /\ closing = "open" /\ closing' = "waitCalls"
  /\ UNCHANGED <<procVars, noteVars, tableVars, wire, broken>>

\* Mutant: handler.close does not wait.
Closed_NoWait ==
  /\ closing = "waitCalls" /\ closing' = "closed"
  /\ errBuf' = errBuf \cup serverSubs /\ errClosed' = errClosed \cup serverSubs
  /\ serverSubs' = {}
  /\ UNCHANGED <<procVars, noteVars, unsub, wire, broken>>

\* callWG.Wait returns; cancelServerSubscriptions.
Closed ==
  /\ closing = "waitCalls" /\ \A s \in Subs : pc[s] \in {"idle", "done"} /\ unsub[s] # "call"
  /\ closing' = "closed"
  /\ errBuf' = errBuf \cup serverSubs /\ errClosed' = errClosed \cup serverSubs
  /\ serverSubs' = {}
  /\ UNCHANGED <<procVars, noteVars, unsub, wire, broken>>

\* clientConn.close closes the codec after the handler.
CodecClose ==
  /\ closing = "closed" /\ ~broken
  /\ broken' = TRUE
  /\ UNCHANGED <<procVars, noteVars, tableVars, wire, closing>>

-----------------------------------------------------------------------------

ServerStep ==
  \/ \E s \in Subs : MethodReturn(s) \/ RespondEarly(s) \/ AddSubscriptions(s) \/ Respond(s)
                     \/ Activate(s) \/ Unsubscribe(s)
  \/ Closed \/ CodecClose

Next ==
  \/ ServerStep
  \/ \E s \in Subs : StartCallProc(s) \/ CreateSubscription(s) \/ Notify(s) \/ ClientUnsubscribe(s)
  \/ Close

Spec == Init /\ [][Next]_vars

\* The server's goroutines run, subscribe methods return included.
FairSpec == Spec /\ WF_vars(ServerStep)

-----------------------------------------------------------------------------
(* Properties.                                                             *)

\* No notification overtakes the answer to the subscribe request, which carries
\* the id, though the service may call Notify from the moment the subscription
\* exists (subscription.go:157-159).  The one exception is an answer that does not
\* marshal and so is never written: the subscription is activated all the same
\* (handler.go:254-258, 315-322).
IdFirst ==
  \A i \in DOMAIN wire : wire[i].type = "note" =>
     \/ \E j \in 1 .. i - 1 : wire[j].type \in {"id", "error"} /\ wire[j].sub = wire[i].sub
     \/ <<wire[i].sub, 0>> \in Unfit

NoteOf(s, i) == wire[i].type = "note" /\ wire[i].sub = s

\* The service was told that value v of s is lost: v does not marshal, and its
\* Notify call did not buffer it but returned the error of writing it.
ToldLost(s, v) == <<s, v>> \in Unfit /\ ~Contains(buffer[s], v)

\* Notifications of a subscription are written in the order of the Notify calls,
\* each at most once, and none passes over a value in silence, across activation
\* and values that do not marshal: each comes after all that were passed to Notify
\* before it, except those of which the service was told that they are lost.
NotesInOrder ==
  \A s \in Subs : \A i \in DOMAIN wire : NoteOf(s, i) =>
     /\ \A v \in 1 .. wire[i].val - 1 :
          ToldLost(s, v) \/ \E j \in 1 .. i - 1 : NoteOf(s, j) /\ wire[j].val = v
     /\ \A j \in 1 .. i - 1 : NoteOf(s, j) => wire[j].val < wire[i].val

\* Subscription.err of a subscription in the table is open and empty, so that
\* unsubscribe and cancelServerSubscriptions neither block nor panic.
SubErrSafe == \A s \in serverSubs : s \notin errClosed /\ s \notin errBuf

\* When handler.close is done every subscription ever created on the connection
\* has its err channel closed, which is what tells the service to stop.
AllReleased == closing = "closed" => serverSubs = {} /\ created \subseteq errClosed

\* "Subscriptions are deleted when the user sends an unsubscribe request"
\* (doc.go:97): once the request has been handled the subscription is not there
\* and is not added any more.  In a batch that exceeds batchResponseMaxSize the
\* id is out before addSubscriptions, and an unsubscribe request may miss it.
UnsubscribeDeletes ==
  \A s \in Subs \ Limited : unsub[s] \in {"found", "notFound"} => s \notin serverSubs

=============================================================================
