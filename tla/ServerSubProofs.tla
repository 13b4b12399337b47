-------------------------- MODULE ServerSubProofs --------------------------
(***************************************************************************)
(* Proofs about ServerSub, for any number of subscriptions, in batches     *)
(* that grow too large or not, any number of notifications, and any of     *)
(* them and of the answers unfit to be marshalled.                         *)
(***************************************************************************)
EXTENDS ServerSub, SequenceTheorems, TLAPS

Msgs  == [type : {"note", "id", "error"}, sub : Subs, val : 0 .. MaxNotes]
Added == {"respond", "activate", "done"}   \* addSubscriptions has run

AnswerOf(s, i) == wire[i].type \in {"id", "error"} /\ wire[i].sub = s

\* Notifiers are activated last, when the answer has been written unless writing
\* fails or the answer does not marshal, and the answer is written after addSubscriptions unless the batch has
\* grown too large.
AnswerInv ==
  \A s \in Subs :
     /\ s \in activated => pc[s] = "done"
     /\ pc[s] \in {"activate", "done"} => broken \/ <<s, 0>> \in Unfit \/ \E i \in DOMAIN wire : AnswerOf(s, i)
     /\ pc[s] \in {"add", "respond"} /\ s \in Limited =>
          broken \/ <<s, 0>> \in Unfit \/ \E i \in DOMAIN wire : AnswerOf(s, i)
     /\ pc[s] = "early" => s \in Limited
     /\ Contains(wire, Id(s)) /\ s \notin Limited => pc[s] \in {"activate", "done"}
     /\ unsub[s] # "none" => Contains(wire, Id(s))

\* Before activation every value is in the buffer, and none on the wire until it
\* has been tried; after it, as long as writing works, every value is on the wire
\* or the service knows that it is lost.
Notes(s) ==
  /\ s \notin activated => buffer[s] = [i \in 1 .. notified[s] |-> i]
  /\ \A i \in 1 .. Len(buffer[s]) : buffer[s][i] <= notified[s]
  /\ \A i \in DOMAIN wire : NoteOf(s, i) => wire[i].val <= notified[s]
  /\ ~broken /\ s \notin activated /\ pc[s] # "done" => \A i \in DOMAIN wire : ~NoteOf(s, i)
  /\ ~broken /\ s \in activated =>
       \A v \in 1 .. notified[s] :
          ToldLost(s, v) \/ \E i \in DOMAIN wire : NoteOf(s, i) /\ wire[i].val = v

NoteInv == \A s \in Subs : Notes(s)

\* A subscription is in the table, or has been taken out of it with its channel
\* closed, from addSubscriptions on and not before.
TableInv ==
  /\ \A s \in Subs :
       /\ s \in serverSubs \cup errClosed \cup errBuf => pc[s] \in Added
       /\ s \in created => pc[s] # "idle"
       /\ s \in created /\ pc[s] \in Added => s \in serverSubs \cup errClosed
  /\ closing = "closed" => serverSubs = {} /\ \A s \in Subs : pc[s] \in {"idle", "done"}

Inv ==
  /\ TypeOK /\ AnswerInv /\ NoteInv /\ TableInv
  /\ IdFirst /\ NotesInOrder /\ SubErrSafe /\ UnsubscribeDeletes

-----------------------------------------------------------------------------
(* What writing does.                                                      *)

\* The first k of the messages ms have been written.
Grows(ms, k) ==
  /\ ~broken' => k = Len(ms) \/ ~Marshals(ms[k + 1])
  /\ Len(wire') = Len(wire) + k
  /\ \A i \in 1 .. Len(wire) : wire'[i] = wire[i]
  /\ \A i \in 1 .. k : wire'[Len(wire) + i] = ms[i]

\* A prefix of the messages is written: all of them or up to one that does not
\* marshal if writing works afterwards, and none if it did not work before.
LEMMA WriteAllPrefix ==
  ASSUME TypeOK, NEW ms \in Seq(Msgs), WriteAll(ms)
  PROVE  /\ wire' \in Seq(Msgs) /\ broken' \in BOOLEAN
         /\ broken => broken' /\ wire' = wire
         /\ \E k \in 0 .. Len(ms) : Grows(ms, k)
<1> wire \in Seq(Msgs) BY DEF TypeOK, Msgs
<1>1. CASE broken
  <2>1. wire' = wire /\ broken' = broken BY <1>1 DEF WriteAll
  <2>2. Grows(ms, 0) BY <1>1, <2>1 DEF Grows
  <2>3. 0 \in 0 .. Len(ms) BY LenProperties
  <2>4. broken' \in BOOLEAN BY <2>1 DEF TypeOK
  <2> QED BY <1>1, <2>1, <2>2, <2>3, <2>4
<1>2. ASSUME ~broken, NEW k \in 0 .. Len(ms), wire' = wire \o SubSeq(ms, 1, k),
             broken' = (k < Len(ms) /\ Marshals(ms[k + 1]))
      PROVE  wire' \in Seq(Msgs) /\ broken' \in BOOLEAN /\ \E n \in 0 .. Len(ms) : Grows(ms, n)
  <2> Len(ms) \in Nat BY LenProperties
  <2>1. \A i \in 1 .. k : ms[i] \in Msgs BY ElementOfSeq
  <2>2. /\ SubSeq(ms, 1, k) \in Seq(Msgs) /\ Len(SubSeq(ms, 1, k)) = k
        /\ \A i \in 1 .. k : SubSeq(ms, 1, k)[i] = ms[i]
    BY <2>1, SubSeqProperties
  <2>3. ~broken' => k = Len(ms) \/ ~Marshals(ms[k + 1])
    <3>1. CASE k < Len(ms) BY <1>2, <3>1
    <3>2. CASE k = Len(ms) BY <3>2
    <3> QED BY <3>1, <3>2
  <2>4. Grows(ms, k) /\ wire' \in Seq(Msgs) BY <1>2, <2>2, <2>3, ConcatProperties DEF Grows
  <2>5. broken' \in BOOLEAN BY <1>2
  <2> QED BY <2>4, <2>5
<1> QED BY <1>1, <1>2 DEF WriteAll

\* Writing the answer of s appends at most one message, an answer of s, and just
\* that if writing works and the answer marshals.
LEMMA AnswerWritten ==
  ASSUME TypeOK, NEW s \in Subs, WriteAnswer(s)
  PROVE  /\ wire' \in Seq(Msgs) /\ broken' \in BOOLEAN
         /\ broken => broken' /\ wire' = wire
         /\ Len(wire') = Len(wire)
              \/ (/\ Len(wire') = Len(wire) + 1
                  /\ wire'[Len(wire) + 1].type \in {"id", "error"} /\ wire'[Len(wire) + 1].sub = s)
         /\ ~broken' => Len(wire') = Len(wire) + 1 \/ <<s, 0>> \in Unfit
         /\ \A i \in 1 .. Len(wire) : wire'[i] = wire[i]
<1> DEFINE m == IF s \in refused THEN Refusal(s) ELSE Id(s)
<1>1. /\ m \in Msgs /\ m.type \in {"id", "error"} /\ m.sub = s
      /\ Marshals(m) \/ <<s, 0>> \in Unfit
  BY ServerSubAssumption DEF Msgs, Refusal, Id, Marshals
<1> HIDE DEF m
<1>2. <<m>> \in Seq(Msgs) /\ Len(<<m>>) = 1 /\ <<m>>[1] = m BY <1>1
<1>3. WriteAll(<<m>>) BY DEF WriteAnswer, m
<1>4. PICK k \in 0 .. Len(<<m>>) : Grows(<<m>>, k) BY <1>2, <1>3, WriteAllPrefix
<1>5. /\ wire' \in Seq(Msgs) /\ broken' \in BOOLEAN
      /\ broken => broken' /\ wire' = wire
  BY <1>2, <1>3, WriteAllPrefix
<1>6. Len(wire) \in Nat BY DEF TypeOK
<1>7. k \in {0, 1} BY <1>2
<1>8. CASE k = 0
  <2>1. ~broken' => <<s, 0>> \in Unfit
    <3>1. ~broken' => ~Marshals(<<m>>[1]) BY <1>2, <1>4, <1>8 DEF Grows
    <3> QED BY <1>1, <1>2, <3>1
  <2> QED BY <1>2, <1>4, <1>5, <1>6, <1>8, <2>1 DEF Grows
<1>9. CASE k = 1
  <2>1. wire'[Len(wire) + 1] = m BY <1>2, <1>4, <1>9 DEF Grows
  <2>2. Len(wire') = Len(wire) + 1 BY <1>4, <1>9 DEF Grows
  <2> QED BY <1>1, <1>2, <1>4, <1>5, <1>6, <1>9, <2>1, <2>2 DEF Grows
<1> QED BY <1>7, <1>8, <1>9

-----------------------------------------------------------------------------
(* Each part of the invariant is preserved.                                *)

\* A connection without subscriptions and with nothing written.
LEMMA InitInv == Init => Inv
<1> SUFFICES ASSUME Init PROVE Inv
  OBVIOUS
<1> USE ServerSubAssumption DEF Init
<1>1. TypeOK
  <2>1. <<>> \in Seq(1 .. MaxNotes) /\ <<>> \in Seq(Msgs) BY EmptySeq
  <2>2. buffer \in [Subs -> Seq(1 .. MaxNotes)] /\ notified \in [Subs -> 0 .. MaxNotes] BY <2>1
  <2>3. wire \in Seq([type : {"note", "id", "error"}, sub : Subs, val : 0 .. MaxNotes]) BY <2>1 DEF Msgs
  <2> QED BY <2>2, <2>3 DEF TypeOK
<1>2. AnswerInv BY DEF AnswerInv, Contains
<1>3. NoteInv BY DEF NoteInv, Notes
<1>4. TableInv /\ SubErrSafe /\ UnsubscribeDeletes BY DEF TableInv, SubErrSafe, UnsubscribeDeletes, Added
<1>5. IdFirst /\ NotesInOrder BY DEF IdFirst, NotesInOrder
<1> QED BY <1>1, <1>2, <1>3, <1>4, <1>5 DEF Inv

\* The actions that write nothing.
LEMMA QuietType ==
  ASSUME TypeOK,
         \/ \E s \in Subs : \/ StartCallProc(s) \/ CreateSubscription(s) \/ MethodReturn(s)
                           \/ AddSubscriptions(s) \/ ClientUnsubscribe(s) \/ Unsubscribe(s)
         \/ Close \/ Closed \/ CodecClose
  PROVE  TypeOK'
  BY DEF TypeOK, StartCallProc, CreateSubscription, MethodReturn, AddSubscriptions, ClientUnsubscribe,
         Unsubscribe, Close, Closed, CodecClose, Goto, procVars, noteVars, tableVars

\* The buffer of a notifier that is not active takes values up to the bound.
LEMMA NotifyType == ASSUME TypeOK, NEW s \in Subs, Notify(s) PROVE TypeOK'
<1> USE ServerSubAssumption DEF TypeOK, procVars, tableVars
<1>1. notified[s] + 1 \in 1 .. MaxNotes BY DEF Notify
<1>2. notified' \in [Subs -> 0 .. MaxNotes] BY <1>1 DEF Notify
<1>3. CASE s \in activated
  <2>1. <<Note(s, notified[s] + 1)>> \in Seq(Msgs) BY <1>1 DEF Note, Msgs
  <2>2. wire' \in Seq(Msgs) /\ broken' \in BOOLEAN
    BY <1>3, <2>1, WriteAllPrefix DEF Notify
  <2> QED BY <1>2, <1>3, <2>2 DEF Notify, Msgs
<1>4. CASE s \notin activated
  <2>1. Append(buffer[s], notified[s] + 1) \in Seq(1 .. MaxNotes) BY <1>1, AppendProperties
  <2> QED BY <1>2, <1>4, <2>1 DEF Notify
<1> QED BY <1>3, <1>4

\* What activate sends is well-typed.
LEMMA BufferNotes ==
  ASSUME TypeOK, NEW s \in Subs
  PROVE  LET ms == [i \in DOMAIN buffer[s] |-> Note(s, buffer[s][i])]
         IN /\ ms \in Seq(Msgs) /\ Len(ms) = Len(buffer[s])
            /\ \A i \in 1 .. Len(buffer[s]) : ms[i] = Note(s, buffer[s][i])
<1> DEFINE ms == [i \in DOMAIN buffer[s] |-> Note(s, buffer[s][i])]
<1>1. buffer[s] \in Seq(1 .. MaxNotes) BY DEF TypeOK
<1>2. Len(buffer[s]) \in Nat /\ DOMAIN buffer[s] = 1 .. Len(buffer[s]) BY <1>1, LenProperties
<1>3. \A i \in 1 .. Len(buffer[s]) : Note(s, buffer[s][i]) \in Msgs
  BY <1>1, ServerSubAssumption DEF Note, Msgs
<1>4. ms \in Seq(Msgs) /\ Len(ms) = Len(buffer[s])
  BY <1>2, <1>3
<1> QED BY <1>2, <1>4

\* activate writes the buffered notifications.
LEMMA ActivateType == ASSUME TypeOK, NEW s \in Subs, Activate(s) PROVE TypeOK'
<1>1. wire' \in Seq(Msgs) /\ broken' \in BOOLEAN
  BY BufferNotes, WriteAllPrefix DEF Activate
<1> QED BY <1>1 DEF TypeOK, Activate, Goto, tableVars, Msgs

\* The answer is a message, whenever it is written.
LEMMA RespondType == ASSUME TypeOK, NEW s \in Subs, RespondEarly(s) \/ Respond(s) PROVE TypeOK'
<1>1. wire' \in Seq(Msgs) /\ broken' \in BOOLEAN
  BY AnswerWritten DEF RespondEarly, Respond, TypeOK, Msgs
<1> QED BY <1>1 DEF TypeOK, RespondEarly, Respond, Goto, noteVars, tableVars, Msgs

\* Every action keeps the types.
LEMMA TypeStep == ASSUME TypeOK, [Next]_vars PROVE TypeOK'
<1>1. CASE UNCHANGED vars BY <1>1 DEF TypeOK, vars, procVars, noteVars, tableVars
<1> QED
  BY <1>1, QuietType, NotifyType, ActivateType, RespondType DEF Next, ServerStep

\* handler.close waits for the call goroutines, which add what they have created.
LEMMA TableStep ==
  ASSUME TypeOK, TableInv, SubErrSafe, [Next]_vars PROVE TableInv' /\ SubErrSafe'
<1> USE DEF TypeOK, TableInv, SubErrSafe, Added, Goto, procVars, noteVars, tableVars
<1>1. ASSUME NEW s \in Subs, StartCallProc(s) PROVE TableInv' /\ SubErrSafe'
  BY <1>1 DEF StartCallProc
<1>2. ASSUME NEW s \in Subs, CreateSubscription(s) PROVE TableInv' /\ SubErrSafe'
  BY <1>2 DEF CreateSubscription
<1>3. ASSUME NEW s \in Subs, MethodReturn(s) PROVE TableInv' /\ SubErrSafe'
  BY <1>3 DEF MethodReturn
<1>4. ASSUME NEW s \in Subs, RespondEarly(s) PROVE TableInv' /\ SubErrSafe'
  BY <1>4 DEF RespondEarly
<1>5. ASSUME NEW s \in Subs, AddSubscriptions(s) PROVE TableInv' /\ SubErrSafe'
  BY <1>5 DEF AddSubscriptions
<1>6. ASSUME NEW s \in Subs, Respond(s) PROVE TableInv' /\ SubErrSafe'
  BY <1>6 DEF Respond
<1>7. ASSUME NEW s \in Subs, Activate(s) PROVE TableInv' /\ SubErrSafe'
  BY <1>7 DEF Activate
<1>8. ASSUME NEW s \in Subs, Unsubscribe(s) PROVE TableInv' /\ SubErrSafe'
  BY <1>8 DEF Unsubscribe
<1>9. CASE Close BY <1>9 DEF Close
<1>10. CASE Closed BY <1>10 DEF Closed
<1>11. CASE UNCHANGED <<procVars, serverSubs, errBuf, errClosed, closing>> BY <1>11
<1> QED
  BY <1>1, <1>2, <1>3, <1>4, <1>5, <1>6, <1>7, <1>8, <1>9, <1>10, <1>11
  DEF Next, ServerStep, Notify, ClientUnsubscribe, CodecClose, vars

\* What is on the wire stays there, and no step repairs a broken connection.
LEMMA WireGrows ==
  ASSUME TypeOK, [Next]_vars
  PROVE  /\ Len(wire) \in Nat /\ Len(wire') \in Nat /\ Len(wire') >= Len(wire)
         /\ DOMAIN wire = 1 .. Len(wire) /\ DOMAIN wire' = 1 .. Len(wire')
         /\ \A i \in 1 .. Len(wire) : wire'[i] = wire[i]
         /\ broken => broken' /\ wire' = wire
<1> wire \in Seq(Msgs) /\ wire' \in Seq(Msgs) BY TypeStep DEF TypeOK, Msgs
<1>1. Len(wire) \in Nat /\ Len(wire') \in Nat BY LenProperties
<1>2. DOMAIN wire = 1 .. Len(wire) /\ DOMAIN wire' = 1 .. Len(wire') BY LenProperties
<1>3. ASSUME NEW s \in Subs, Activate(s) \/ Notify(s)
      PROVE  /\ Len(wire') >= Len(wire) /\ \A i \in 1 .. Len(wire) : wire'[i] = wire[i]
             /\ broken => broken' /\ wire' = wire
  <2>1. CASE Activate(s) BY <1>1, <2>1, BufferNotes, WriteAllPrefix DEF Activate, Grows
  <2>2. CASE Notify(s) /\ s \in activated
    <3>1. <<Note(s, notified[s] + 1)>> \in Seq(Msgs) BY <2>2, ServerSubAssumption DEF Note, Msgs, Notify, TypeOK
    <3>2. WriteAll(<<Note(s, notified[s] + 1)>>) BY <2>2 DEF Notify
    <3> DEFINE ms == <<Note(s, notified[s] + 1)>>
    <3> HIDE DEF ms
    <3>3. ms \in Seq(Msgs) /\ WriteAll(ms) BY <3>1, <3>2 DEF ms
    <3> QED BY <1>1, <3>3, WriteAllPrefix DEF Grows
  <2>3. CASE Notify(s) /\ s \notin activated BY <1>1, <2>3 DEF Notify
  <2> QED BY <1>3, <2>1, <2>2, <2>3
<1>4. ASSUME NEW s \in Subs, RespondEarly(s) \/ Respond(s)
      PROVE  /\ Len(wire') >= Len(wire) /\ \A i \in 1 .. Len(wire) : wire'[i] = wire[i]
             /\ broken => broken' /\ wire' = wire
  <2>1. CASE WriteAnswer(s)
    <3>1. /\ Len(wire') = Len(wire) \/ Len(wire') = Len(wire) + 1
          /\ \A i \in 1 .. Len(wire) : wire'[i] = wire[i]
          /\ broken => broken' /\ wire' = wire
      BY <2>1, AnswerWritten
    <3> QED BY <1>1, <3>1
  <2>2. CASE wire' = wire /\ broken' = broken BY <1>1, <2>2
  <2> QED BY <1>4, <2>1, <2>2 DEF RespondEarly, Respond
<1>5. CASE wire' = wire /\ (broken => broken') BY <1>1, <1>2, <1>5
<1> QED
  BY <1>1, <1>2, <1>3, <1>4, <1>5
  DEF Next, ServerStep, StartCallProc, CreateSubscription, MethodReturn, AddSubscriptions, ClientUnsubscribe,
      Unsubscribe, Close, Closed, CodecClose, vars, procVars, noteVars, tableVars

\* The messages of an active notifier are written at once, of another not at all.
LEMMA NotifyWrites ==
  ASSUME TypeOK, NEW s \in Subs, Notify(s)
  PROVE  /\ s \notin activated => wire' = wire /\ broken' = broken
         /\ Len(wire') = Len(wire) \/
              (/\ Len(wire') = Len(wire) + 1 /\ s \in activated
               /\ wire'[Len(wire) + 1] = Note(s, notified[s] + 1))
         /\ ~broken' /\ s \in activated => Len(wire') = Len(wire) + 1 \/ <<s, notified[s] + 1>> \in Unfit
         /\ \A i \in 1 .. Len(wire) : wire'[i] = wire[i]
<1>1. CASE s \notin activated BY <1>1 DEF Notify
<1>2. CASE s \in activated
  <2> DEFINE m == Note(s, notified[s] + 1)
  <2>1. m \in Msgs /\ (Marshals(m) \/ <<s, notified[s] + 1>> \in Unfit)
    BY ServerSubAssumption DEF Note, Msgs, Notify, TypeOK, Marshals
  <2>2. WriteAll(<<m>>) BY <1>2 DEF Notify
  <2> HIDE DEF m
  <2>3. <<m>> \in Seq(Msgs) /\ Len(<<m>>) = 1 /\ <<m>>[1] = m BY <2>1
  <2>4. PICK k \in 0 .. Len(<<m>>) : Grows(<<m>>, k) BY <2>2, <2>3, WriteAllPrefix
  <2>5. k \in {0, 1} /\ Len(wire) \in Nat BY <2>3 DEF TypeOK
  <2>6. CASE k = 0
    <3>1. ~broken' => ~Marshals(<<m>>[1]) BY <2>3, <2>4, <2>6 DEF Grows
    <3>2. ~broken' => <<s, notified[s] + 1>> \in Unfit BY <2>1, <2>3, <3>1
    <3> QED BY <1>2, <2>3, <2>4, <2>5, <2>6, <3>2 DEF Grows
  <2>7. CASE k = 1
    <3>1. wire'[Len(wire) + 1] = m BY <2>3, <2>4, <2>7 DEF Grows
    <3> QED BY <1>2, <2>3, <2>4, <2>5, <2>7, <3>1 DEF Grows, m
  <2> QED BY <2>5, <2>6, <2>7
<1> QED BY <1>1, <1>2

\* Activation appends values 1 to k, all that there are if it succeeds.
LEMMA ActivateWrites ==
  ASSUME TypeOK, NoteInv, NEW s \in Subs, s \notin activated, Activate(s)
  PROVE  \E k \in 0 .. notified[s] :
            /\ Len(wire') = Len(wire) + k
            /\ s \in activated' => k = notified[s]
            /\ \A i \in 1 .. Len(wire) : wire'[i] = wire[i]
            /\ \A i \in 1 .. k : wire'[Len(wire) + i] = Note(s, i)
<1> DEFINE ms == [i \in DOMAIN buffer[s] |-> Note(s, buffer[s][i])]
<1>1. WriteAll(ms) BY DEF Activate
<1>2. /\ ms \in Seq(Msgs) /\ Len(ms) = Len(buffer[s])
      /\ \A i \in 1 .. Len(buffer[s]) : ms[i] = Note(s, buffer[s][i])
  BY BufferNotes
<1>3. notified[s] \in Nat /\ buffer[s] = [i \in 1 .. notified[s] |-> i]
  BY ServerSubAssumption DEF NoteInv, Notes, TypeOK
<1>4. Len(buffer[s]) = notified[s] /\ \A i \in 1 .. notified[s] : buffer[s][i] = i BY <1>3
<1> HIDE DEF ms
<1>5. PICK k \in 0 .. Len(ms) : Grows(ms, k) BY <1>1, <1>2, WriteAllPrefix
<1>6. k \in 0 .. notified[s] BY <1>2, <1>4
<1>7. \A i \in 1 .. k : ms[i] = Note(s, i)
  <2> TAKE i \in 1 .. k
  <2>1. i \in 1 .. notified[s] BY <1>3, <1>6
  <2> QED BY <1>2, <1>4, <2>1
<1>9. s \in activated' => k = notified[s]
  <2>1. s \in activated' => wire' = wire \o ms BY DEF Activate, ms
  <2>2. wire \in Seq(Msgs) /\ Len(wire) \in Nat BY LenProperties DEF TypeOK, Msgs
  <2>3. Len(wire \o ms) = Len(wire) + notified[s] BY <1>2, <1>4, <2>2, ConcatProperties
  <2>4. Len(wire') = Len(wire) + k BY <1>5 DEF Grows
  <2> QED BY <1>3, <1>6, <2>1, <2>2, <2>3, <2>4
<1>8. /\ Len(wire') = Len(wire) + k
      /\ s \in activated' => k = notified[s]
      /\ \A i \in 1 .. Len(wire) : wire'[i] = wire[i]
      /\ \A i \in 1 .. k : wire'[Len(wire) + i] = Note(s, i)
  BY <1>2, <1>4, <1>5, <1>7, <1>9 DEF Grows
<1> QED BY <1>6, <1>8

\* Steps that add no answer to the wire.
LEMMA NoAnswer ==
  ASSUME TypeOK, NoteInv, [Next]_vars, NEW s \in Subs,
         Notify(s) \/ (Activate(s) /\ s \notin activated)
  PROVE  \A i \in 1 .. Len(wire') : i \in 1 .. Len(wire) \/ (NoteOf(s, i))'
<1>1. Len(wire) \in Nat /\ Len(wire') \in Nat BY WireGrows
<1>2. CASE Notify(s)
  <2>1. \/ Len(wire') = Len(wire)
        \/ Len(wire') = Len(wire) + 1 /\ wire'[Len(wire) + 1] = Note(s, notified[s] + 1)
    BY <1>2, NotifyWrites
  <2> QED BY <1>1, <2>1 DEF NoteOf, Note
<1>3. CASE Activate(s) /\ s \notin activated
  <2>1. PICK k \in 0 .. notified[s] :
            /\ Len(wire') = Len(wire) + k
            /\ \A i \in 1 .. k : wire'[Len(wire) + i] = Note(s, i)
    BY <1>3, ActivateWrites
  <2>2. ASSUME NEW i \in 1 .. Len(wire'), i \notin 1 .. Len(wire) PROVE (NoteOf(s, i))'
    <3>1. i - Len(wire) \in 1 .. k /\ Len(wire) + (i - Len(wire)) = i BY <1>1, <2>1, <2>2
    <3>2. wire'[i] = Note(s, i - Len(wire)) BY <2>1, <3>1
    <3> QED BY <3>2 DEF NoteOf, Note
  <2> QED BY <2>2
<1> QED BY <1>2, <1>3

\* What the new messages on the wire mean for answers and ids.
LEMMA NewAnswer ==
  ASSUME TypeOK, [Next]_vars, NEW s \in Subs,
         \A i \in 1 .. Len(wire') : i \in 1 .. Len(wire) \/ (wire'[i].sub = s)
  PROVE  /\ \A x \in Subs \ {s} : Contains(wire', Id(x)) <=> Contains(wire, Id(x))
         /\ Contains(wire, Id(s)) => Contains(wire', Id(s))
         /\ (\A i \in 1 .. Len(wire') : i \in 1 .. Len(wire) \/ (NoteOf(s, i))') =>
              (Contains(wire', Id(s)) <=> Contains(wire, Id(s)))
         /\ \A x \in Subs : (\E i \in DOMAIN wire : AnswerOf(x, i)) => \E i \in DOMAIN wire' : (AnswerOf(x, i))'
<1>1. /\ Len(wire) \in Nat /\ Len(wire') \in Nat /\ Len(wire') >= Len(wire)
      /\ DOMAIN wire = 1 .. Len(wire) /\ DOMAIN wire' = 1 .. Len(wire')
      /\ \A i \in 1 .. Len(wire) : wire'[i] = wire[i] /\ i \in 1 .. Len(wire')
  BY WireGrows
<1>2. \A x \in Subs : Id(x).sub = x /\ Id(x).type = "id" BY DEF Id
<1>3. \A x \in Subs : Contains(wire, Id(x)) => Contains(wire', Id(x))
  BY <1>1 DEF Contains
<1>4. \A x \in Subs \ {s} : Contains(wire', Id(x)) => Contains(wire, Id(x))
  BY <1>1, <1>2 DEF Contains
<1>5. ASSUME \A i \in 1 .. Len(wire') : i \in 1 .. Len(wire) \/ (NoteOf(s, i))', Contains(wire', Id(s))
      PROVE  Contains(wire, Id(s))
  BY <1>1, <1>2, <1>5 DEF Contains, NoteOf
<1>6. \A x \in Subs : (\E i \in DOMAIN wire : AnswerOf(x, i)) => \E i \in DOMAIN wire' : (AnswerOf(x, i))'
  BY <1>1 DEF AnswerOf
<1> QED BY <1>3, <1>4, <1>5, <1>6

\* If writing works and the answer marshals it is on the wire, and nothing of
\* another subscription.
LEMMA AnswerAppended ==
  ASSUME TypeOK, NEW s \in Subs, WriteAnswer(s)
  PROVE  /\ broken' \/ <<s, 0>> \in Unfit \/ \E i \in DOMAIN wire' : (AnswerOf(s, i))'
         /\ \A i \in 1 .. Len(wire') : i \in 1 .. Len(wire) \/ (wire'[i].sub = s)
<1>1. /\ Len(wire') = Len(wire)
              \/ (/\ Len(wire') = Len(wire) + 1
                  /\ wire'[Len(wire) + 1].type \in {"id", "error"} /\ wire'[Len(wire) + 1].sub = s)
      /\ ~broken' => Len(wire') = Len(wire) + 1 \/ <<s, 0>> \in Unfit
  BY AnswerWritten
<1>2. wire \in Seq(Msgs) /\ wire' \in Seq(Msgs) BY AnswerWritten DEF TypeOK, Msgs
<1>3. Len(wire) \in Nat /\ Len(wire') \in Nat /\ DOMAIN wire' = 1 .. Len(wire') BY <1>2, LenProperties
<1>4. PICK n \in Nat : n = Len(wire) + 1 BY <1>3
<1>5. ASSUME ~broken', <<s, 0>> \notin Unfit PROVE n \in DOMAIN wire' /\ (AnswerOf(s, n))'
  <2>0. Len(wire') = Len(wire) + 1 BY <1>1, <1>5
  <2>1. wire'[n].type \in {"id", "error"} /\ wire'[n].sub = s
    <3>1. Len(wire') # Len(wire) BY <1>3, <2>0
    <3> QED BY <1>1, <1>4, <3>1
  <2>2. n \in 1 .. Len(wire') BY <1>3, <1>4, <2>0
  <2> QED BY <1>3, <2>1, <2>2 DEF AnswerOf
<1>6. ASSUME NEW i \in 1 .. Len(wire'), i \notin 1 .. Len(wire) PROVE wire'[i].sub = s
  <2>1. Len(wire') = Len(wire) \/ (Len(wire') = Len(wire) + 1 /\ wire'[Len(wire) + 1].sub = s) BY <1>1
  <2>2. i \in Nat /\ i > Len(wire) /\ i <= Len(wire') BY <1>3, <1>6
  <2>3. i = Len(wire) + 1 /\ Len(wire') # Len(wire)
    <3>1. CASE Len(wire') = Len(wire) BY <1>3, <2>2, <3>1
    <3>2. CASE Len(wire') = Len(wire) + 1 BY <1>3, <2>2, <3>2
    <3> QED BY <2>1, <3>1, <3>2
  <2> QED BY <2>1, <2>3
<1> QED BY <1>5, <1>6

\* Answers are written where the call goroutine says.
LEMMA AnswerStep == ASSUME TypeOK, AnswerInv, NoteInv, [Next]_vars PROVE AnswerInv'
<1> USE DEF AnswerInv, Goto, procVars, noteVars, tableVars
<1>w. /\ Len(wire) \in Nat /\ Len(wire') \in Nat /\ Len(wire') >= Len(wire)
      /\ DOMAIN wire = 1 .. Len(wire) /\ DOMAIN wire' = 1 .. Len(wire')
      /\ \A i \in 1 .. Len(wire) : wire'[i] = wire[i]
      /\ broken => broken' /\ wire' = wire
  BY WireGrows
<1>p. /\ pc \in [Subs -> {"idle", "method", "early", "add", "respond", "activate", "done"}]
      /\ unsub \in [Subs -> {"none", "call", "found", "notFound"}]
  BY DEF TypeOK
<1>q. wire' = wire => /\ \A x \in Subs : Contains(wire', Id(x)) <=> Contains(wire, Id(x))
                      /\ \A x \in Subs, i \in DOMAIN wire : AnswerOf(x, i) => (AnswerOf(x, i))'
  BY DEF AnswerOf
<1>1. ASSUME NEW s \in Subs, StartCallProc(s) PROVE AnswerInv'
  BY <1>1, <1>p, <1>q DEF StartCallProc
<1>2. ASSUME NEW s \in Subs, CreateSubscription(s) PROVE AnswerInv'
  BY <1>2, <1>p, <1>q DEF CreateSubscription
<1>3. ASSUME NEW s \in Subs, MethodReturn(s) PROVE AnswerInv'
  BY <1>3, <1>p, <1>q DEF MethodReturn
<1>4. ASSUME NEW s \in Subs, AddSubscriptions(s) PROVE AnswerInv'
  BY <1>4, <1>p, <1>q DEF AddSubscriptions
<1>5. ASSUME NEW s \in Subs, ClientUnsubscribe(s) PROVE AnswerInv'
  BY <1>5, <1>p, <1>q DEF ClientUnsubscribe
<1>6. ASSUME NEW s \in Subs, Unsubscribe(s) PROVE AnswerInv'
  BY <1>6, <1>p, <1>q DEF Unsubscribe
<1>7. ASSUME Close \/ Closed \/ CodecClose \/ UNCHANGED vars PROVE AnswerInv'
  <2>1. UNCHANGED <<pc, activated, unsub, wire>> /\ (broken => broken')
    BY <1>w, <1>7 DEF Close, Closed, CodecClose, vars
  <2>2. \A x \in Subs : (\E i \in DOMAIN wire : AnswerOf(x, i)) => \E i \in DOMAIN wire' : (AnswerOf(x, i))'
    BY <1>q, <2>1
  <2> QED BY <1>q, <2>1, <2>2
<1>8. ASSUME NEW s \in Subs, WriteAnswer(s), UNCHANGED <<activated, unsub>>,
             \/ pc[s] = "early" /\ Goto(s, "add")
             \/ pc[s] = "respond" /\ s \notin Limited /\ Goto(s, "activate")
      PROVE  AnswerInv'
  <2>2. broken' \/ <<s, 0>> \in Unfit \/ \E i \in DOMAIN wire' : (AnswerOf(s, i))' BY <1>8, AnswerAppended
  <2>3. \A i \in 1 .. Len(wire') : i \in 1 .. Len(wire) \/ (wire'[i].sub = s) BY <1>8, AnswerAppended
  <2> QED BY <1>w, <1>p, <1>8, <2>2, <2>3, NewAnswer
<1>9. ASSUME NEW s \in Subs, RespondEarly(s) PROVE AnswerInv'
  BY <1>8, <1>9 DEF RespondEarly
<1>10. ASSUME NEW s \in Subs, Respond(s) PROVE AnswerInv'
  <2>1. CASE s \in Limited
    <3>1. /\ wire' = wire /\ broken' = broken /\ activated' = activated /\ unsub' = unsub
          /\ pc[s] = "respond" /\ pc' = [pc EXCEPT ![s] = "activate"]
      BY <1>10, <2>1 DEF Respond
    <3>2. \A x \in Subs : (\E i \in DOMAIN wire : AnswerOf(x, i)) => \E i \in DOMAIN wire' : (AnswerOf(x, i))'
      BY <1>q, <3>1
    <3> QED BY <1>p, <1>q, <2>1, <3>1, <3>2
  <2>2. CASE s \notin Limited BY <1>8, <1>10, <2>2 DEF Respond
  <2> QED BY <2>1, <2>2
<1>11. ASSUME NEW s \in Subs, Notify(s) \/ Activate(s) PROVE AnswerInv'
  <2>1. s \notin activated \/ ~Activate(s) BY DEF Activate
  <2>2. \A i \in 1 .. Len(wire') : i \in 1 .. Len(wire) \/ (NoteOf(s, i))'
    BY <1>11, <2>1, NoAnswer
  <2>3. \A i \in 1 .. Len(wire') : i \in 1 .. Len(wire) \/ (wire'[i].sub = s)
    BY <2>2 DEF NoteOf
  <2>4. /\ \A x \in Subs : Contains(wire', Id(x)) <=> Contains(wire, Id(x))
        /\ \A x \in Subs : (\E i \in DOMAIN wire : AnswerOf(x, i)) => \E i \in DOMAIN wire' : (AnswerOf(x, i))'
    BY <2>2, <2>3, NewAnswer
  <2>5. CASE Notify(s) BY <1>w, <1>p, <2>4, <2>5 DEF Notify
  <2>6. CASE Activate(s) BY <1>w, <1>p, <2>4, <2>6 DEF Activate
  <2> QED BY <1>11, <2>5, <2>6
<1> QED
  BY <1>1, <1>2, <1>3, <1>4, <1>5, <1>6, <1>7, <1>9, <1>10, <1>11 DEF Next, ServerStep

\* A notification that a step adds to the wire is one of a subscription that is
\* active or being activated.
LEMMA NewNote ==
  ASSUME TypeOK, AnswerInv, NoteInv, [Next]_vars,
         NEW i \in 1 .. Len(wire'), i > Len(wire), wire'[i].type = "note"
  PROVE  ~broken /\ wire'[i].sub \in Subs
         /\ LET s == wire'[i].sub IN \/ Notify(s) /\ s \in activated
                                     \/ Activate(s) /\ s \notin activated
<1>w. Len(wire) \in Nat /\ Len(wire') \in Nat /\ (broken => wire' = wire) BY WireGrows
<1>0. ~broken /\ wire' # wire BY <1>w
<1>1. ASSUME NEW s \in Subs, WriteAnswer(s) PROVE FALSE
  <2>1. \/ Len(wire') = Len(wire)
        \/ Len(wire') = Len(wire) + 1 /\ wire'[Len(wire) + 1].type \in {"id", "error"}
    BY <1>1, AnswerWritten
  <2>2. CASE Len(wire') = Len(wire) BY <1>w, <2>2
  <2>3. CASE Len(wire') = Len(wire) + 1
    <3>1. i = Len(wire) + 1 BY <1>w, <2>3
    <3> QED BY <1>w, <2>1, <2>3, <3>1
  <2> QED BY <2>1, <2>2, <2>3
<1>2. ASSUME NEW s \in Subs, Notify(s) \/ Activate(s)
      PROVE  wire'[i].sub = s /\ (Activate(s) => s \notin activated) /\ (Notify(s) => s \in activated)
  <2>1. Activate(s) => s \notin activated BY DEF Activate, AnswerInv
  <2>2. Notify(s) => s \in activated BY <1>0, NotifyWrites
  <2>3. (NoteOf(s, i))' BY <1>2, <1>w, <2>1, NoAnswer
  <2> QED BY <2>1, <2>2, <2>3 DEF NoteOf
<1>3. \E s \in Subs : Notify(s) \/ Activate(s) \/ WriteAnswer(s)
  BY <1>0
  DEF Next, ServerStep, StartCallProc, CreateSubscription, MethodReturn, AddSubscriptions, ClientUnsubscribe,
      RespondEarly, Respond, Unsubscribe, Close, Closed, CodecClose, vars, procVars, noteVars, tableVars
<1> QED BY <1>0, <1>1, <1>2, <1>3

\* The notifier is active, or becomes so, only when the answer is on the wire.
LEMMA IdFirstStep ==
  ASSUME TypeOK, AnswerInv, NoteInv, IdFirst, [Next]_vars PROVE IdFirst'
<1>w. /\ Len(wire) \in Nat /\ Len(wire') \in Nat /\ Len(wire') >= Len(wire)
      /\ DOMAIN wire = 1 .. Len(wire) /\ DOMAIN wire' = 1 .. Len(wire')
      /\ \A i \in 1 .. Len(wire) : wire'[i] = wire[i]
  BY WireGrows
<1> SUFFICES ASSUME NEW i \in 1 .. Len(wire'), wire'[i].type = "note"
             PROVE  \/ \E j \in 1 .. i - 1 : wire'[j].type \in {"id", "error"} /\ wire'[j].sub = wire'[i].sub
                    \/ <<wire'[i].sub, 0>> \in Unfit
  BY <1>w DEF IdFirst
<1>1. CASE i \in 1 .. Len(wire)
  <2>1. wire'[i] = wire[i] BY <1>w, <1>1
  <2>2. CASE <<wire[i].sub, 0>> \in Unfit BY <2>1, <2>2
  <2>3. CASE <<wire[i].sub, 0>> \notin Unfit
    <3>1. PICK j \in 1 .. i - 1 : wire[j].type \in {"id", "error"} /\ wire[j].sub = wire[i].sub
      BY <1>w, <1>1, <2>1, <2>3 DEF IdFirst
    <3>2. wire'[j] = wire[j] BY <1>w, <1>1
    <3> QED BY <2>1, <3>1, <3>2
  <2> QED BY <2>2, <2>3
<1>2. CASE i > Len(wire)
  <2>1. ~broken /\ wire'[i].sub \in Subs /\ (pc[wire'[i].sub] = "activate" \/ wire'[i].sub \in activated)
    BY <1>2, NewNote DEF Activate
  <2>2. CASE <<wire'[i].sub, 0>> \in Unfit BY <2>2
  <2>3. CASE <<wire'[i].sub, 0>> \notin Unfit
    <3>1. PICK j \in DOMAIN wire : AnswerOf(wire'[i].sub, j) BY <2>1, <2>3 DEF AnswerInv
    <3>2. j \in 1 .. i - 1 /\ wire'[j] = wire[j] BY <1>w, <1>2
    <3> QED BY <3>1, <3>2 DEF AnswerOf
  <2> QED BY <2>2, <2>3
<1> QED BY <1>w, <1>1, <1>2

\* Values that are lost stay lost: what a step adds to the buffer of a subscription
\* is newer than anything on the wire.
LEMMA LostStays ==
  ASSUME TypeOK, [Next]_vars, NEW s \in Subs, NEW v \in Nat, v <= notified[s], ToldLost(s, v)
  PROVE  ToldLost(s, v)'
<1>n. notified[s] \in Nat BY ServerSubAssumption DEF TypeOK
<1>b. buffer[s] \in Seq(1 .. MaxNotes) BY DEF TypeOK
<1>1. CASE buffer'[s] = buffer[s] BY <1>1 DEF ToldLost
<1>2. CASE buffer'[s] = Append(buffer[s], notified[s] + 1)
  <2>1. PICK n \in Nat : Len(buffer[s]) = n BY <1>b, LenProperties
  <2>2. /\ Len(Append(buffer[s], notified[s] + 1)) = n + 1
        /\ \A i \in 1 .. n : Append(buffer[s], notified[s] + 1)[i] = buffer[s][i]
        /\ Append(buffer[s], notified[s] + 1)[n + 1] = notified[s] + 1
    BY <1>b, <2>1
  <2>3. \A i \in 1 .. n : buffer[s][i] # v BY <2>1 DEF ToldLost, Contains
  <2>4. \A i \in 1 .. n + 1 : Append(buffer[s], notified[s] + 1)[i] # v BY <1>n, <2>1, <2>2, <2>3
  <2> QED BY <1>2, <2>2, <2>4 DEF ToldLost, Contains
<1>3. ASSUME NEW x \in Subs, Notify(x) PROVE buffer'[s] = buffer[s] \/ buffer'[s] = Append(buffer[s], notified[s] + 1)
  BY <1>3 DEF Notify, TypeOK
<1>4. buffer' = buffer \/ \E x \in Subs : Notify(x)
  BY DEF Next, ServerStep, StartCallProc, CreateSubscription, MethodReturn, AddSubscriptions, ClientUnsubscribe,
         RespondEarly, Respond, Activate, Unsubscribe, Close, Closed, CodecClose, vars, noteVars
<1> QED BY <1>1, <1>2, <1>3, <1>4

\* An active notifier writes the value after the last one; activation starts at 1
\* with nothing on the wire.
LEMMA OrderStep ==
  ASSUME TypeOK, AnswerInv, NoteInv, NotesInOrder, [Next]_vars PROVE NotesInOrder'
<1>w. /\ Len(wire) \in Nat /\ Len(wire') \in Nat /\ Len(wire') >= Len(wire)
      /\ DOMAIN wire = 1 .. Len(wire) /\ DOMAIN wire' = 1 .. Len(wire')
      /\ \A i \in 1 .. Len(wire) : wire'[i] = wire[i]
  BY WireGrows
<1>o. \A x \in Subs, i \in 1 .. Len(wire) : (NoteOf(x, i))' <=> NoteOf(x, i) BY <1>w DEF NoteOf
<1>v. \A j \in 1 .. Len(wire) : wire[j].val \in Nat
  <2>1. \A j \in 1 .. Len(wire) : wire[j] \in Msgs BY ElementOfSeq DEF TypeOK, Msgs
  <2> QED BY <2>1, ServerSubAssumption DEF Msgs
<1> SUFFICES ASSUME NEW s \in Subs, NEW i \in 1 .. Len(wire'), (NoteOf(s, i))'
             PROVE  /\ \A v \in 1 .. wire'[i].val - 1 :
                         ToldLost(s, v)' \/ \E j \in 1 .. i - 1 : (NoteOf(s, j))' /\ wire'[j].val = v
                    /\ \A j \in 1 .. i - 1 : (NoteOf(s, j))' => wire'[j].val < wire'[i].val
  BY <1>w DEF NotesInOrder
<1>n. notified[s] \in Nat BY ServerSubAssumption DEF TypeOK
<1>1. CASE i \in 1 .. Len(wire)
  <2>1. NoteOf(s, i) /\ wire'[i] = wire[i] BY <1>w, <1>o, <1>1
  <2>2. /\ \A v \in 1 .. wire[i].val - 1 :
             ToldLost(s, v) \/ \E j \in 1 .. i - 1 : NoteOf(s, j) /\ wire[j].val = v
        /\ \A j \in 1 .. i - 1 : NoteOf(s, j) => wire[j].val < wire[i].val
    BY <1>w, <1>1, <2>1 DEF NotesInOrder
  <2>3. \A j \in 1 .. i - 1 : j \in 1 .. Len(wire) /\ wire'[j] = wire[j] BY <1>w, <1>1
  <2>4. wire[i].val <= notified[s] BY <1>w, <1>1, <2>1 DEF NoteInv, Notes
  <2>5. ASSUME NEW v \in 1 .. wire[i].val - 1, ToldLost(s, v) PROVE ToldLost(s, v)'
    <3>1. v \in Nat /\ v <= notified[s] BY <1>n, <1>v, <1>1, <2>4
    <3> QED BY <2>5, <3>1, LostStays
  <2>6. ASSUME NEW v \in 1 .. wire[i].val - 1, NEW j \in 1 .. i - 1, NoteOf(s, j), wire[j].val = v
        PROVE  (NoteOf(s, j))' /\ wire'[j].val = v
    BY <1>o, <2>3, <2>6
  <2>7. \A j \in 1 .. i - 1 : (NoteOf(s, j))' => wire'[j].val < wire'[i].val BY <1>o, <2>1, <2>2, <2>3
  <2>8. \A v \in 1 .. wire[i].val - 1 :
           ToldLost(s, v)' \/ \E j \in 1 .. i - 1 : (NoteOf(s, j))' /\ wire'[j].val = v
    BY <2>2, <2>5, <2>6
  <2> QED BY <2>1, <2>7, <2>8
<1>2. CASE i > Len(wire)
  <2>1. /\ ~broken /\ wire'[i].sub = s
        /\ (Notify(s) /\ s \in activated) \/ (Activate(s) /\ s \notin activated)
    BY <1>2, NewNote DEF NoteOf
  <2>2. CASE Notify(s) /\ s \in activated
    <3>1. Len(wire') = Len(wire) \/ (Len(wire') = Len(wire) + 1 /\ wire'[Len(wire) + 1] = Note(s, notified[s] + 1))
      BY <2>2, NotifyWrites
    <3>2. i = Len(wire) + 1 /\ wire'[Len(wire) + 1] = Note(s, notified[s] + 1)
      <4>1. CASE Len(wire') = Len(wire) BY <1>w, <1>2, <4>1
      <4>2. CASE Len(wire') = Len(wire) + 1 /\ wire'[Len(wire) + 1] = Note(s, notified[s] + 1)
        <5>1. i = Len(wire) + 1 BY <1>w, <1>2, <4>2
        <5> QED BY <4>2, <5>1
      <4> QED BY <3>1, <4>1, <4>2
    <3>3. wire'[i].val = notified[s] + 1
      <4>1. wire'[i] = Note(s, notified[s] + 1) BY <3>2
      <4> QED BY <4>1 DEF Note
    <3>4. /\ \A j \in 1 .. Len(wire) : NoteOf(s, j) => wire[j].val <= notified[s]
          /\ \A v \in 1 .. notified[s] :
               ToldLost(s, v) \/ \E j \in 1 .. Len(wire) : NoteOf(s, j) /\ wire[j].val = v
      BY <1>w, <2>1, <2>2 DEF NoteInv, Notes
    <3>5. \A j \in 1 .. i - 1 : j \in 1 .. Len(wire) /\ wire'[j] = wire[j] BY <1>w, <3>2
    <3>6. \A j \in 1 .. Len(wire) : j \in 1 .. i - 1 BY <1>w, <3>2
    <3>8. \A j \in 1 .. i - 1 : (NoteOf(s, j))' => wire'[j].val < wire'[i].val
      BY <1>o, <1>n, <1>v, <3>3, <3>4, <3>5
    <3>9. ASSUME NEW v \in 1 .. wire'[i].val - 1
          PROVE  ToldLost(s, v)' \/ \E j \in 1 .. i - 1 : (NoteOf(s, j))' /\ wire'[j].val = v
      <4>1. v \in 1 .. notified[s] /\ v \in Nat /\ v <= notified[s] BY <1>n, <3>3
      <4>2. CASE ToldLost(s, v) BY <4>1, <4>2, LostStays
      <4>3. CASE \E j \in 1 .. Len(wire) : NoteOf(s, j) /\ wire[j].val = v
        <5>1. PICK j \in 1 .. Len(wire) : NoteOf(s, j) /\ wire[j].val = v BY <4>3
        <5>2. j \in 1 .. i - 1 /\ (NoteOf(s, j))' /\ wire'[j].val = v BY <1>w, <1>o, <3>6, <5>1
        <5> QED BY <5>2
      <4> QED BY <3>4, <4>1, <4>2, <4>3
    <3> QED BY <3>8, <3>9
  <2>3. CASE Activate(s) /\ s \notin activated
    <3>1. PICK k \in 0 .. notified[s] :
              Len(wire') = Len(wire) + k /\ \A a \in 1 .. k : wire'[Len(wire) + a] = Note(s, a)
      BY <2>3, ActivateWrites
    <3>2. ASSUME NEW a \in 1 .. k
          PROVE  wire'[Len(wire) + a].val = a /\ wire'[Len(wire) + a].type = "note" /\ wire'[Len(wire) + a].sub = s
      <4>1. wire'[Len(wire) + a] = Note(s, a) BY <3>1
      <4> QED BY <4>1 DEF Note
    <3>3. \A j \in 1 .. Len(wire) : ~NoteOf(s, j)
      <4>1. pc[s] # "done" BY <2>3 DEF Activate
      <4> QED BY <1>w, <2>1, <2>3, <4>1 DEF NoteInv, Notes
    <3>4. PICK a \in 1 .. k : i = Len(wire) + a
      <4>1. i - Len(wire) \in 1 .. k /\ i = Len(wire) + (i - Len(wire)) BY <1>w, <1>2, <1>n, <3>1
      <4> QED BY <4>1
    <3>5. ASSUME NEW j \in 1 .. i - 1, (NoteOf(s, j))' PROVE wire'[j].val < wire'[i].val
      <4>1. j \notin 1 .. Len(wire) BY <1>o, <3>3, <3>5
      <4>2. j - Len(wire) \in 1 .. a - 1 /\ j = Len(wire) + (j - Len(wire)) BY <1>w, <3>4, <4>1
      <4>3. j - Len(wire) \in 1 .. k BY <1>n, <4>2
      <4>4. wire'[j].val = j - Len(wire) BY <3>2, <4>2, <4>3
      <4>5. wire'[i].val = a BY <3>2, <3>4
      <4> QED BY <1>w, <4>2, <4>4, <4>5
    <3>6. wire'[i].val = a BY <3>2, <3>4
    <3>7. ASSUME NEW v \in 1 .. wire'[i].val - 1
          PROVE  \E j \in 1 .. i - 1 : (NoteOf(s, j))' /\ wire'[j].val = v
      <4>1. v \in 1 .. k /\ Len(wire) + v \in 1 .. i - 1 BY <1>w, <1>n, <3>4, <3>6
      <4>2. wire'[Len(wire) + v].val = v /\ wire'[Len(wire) + v].type = "note" /\ wire'[Len(wire) + v].sub = s
        BY <3>2, <4>1
      <4>4. PICK j \in 1 .. i - 1 : j = Len(wire) + v BY <4>1
      <4>5. wire'[j].val = v /\ wire'[j].type = "note" /\ wire'[j].sub = s BY <4>2, <4>4
      <4>6. (NoteOf(s, j))' BY <4>5 DEF NoteOf
      <4> QED BY <4>5, <4>6
    <3> QED BY <3>5, <3>7
  <2> QED BY <2>1, <2>2, <2>3
<1> QED BY <1>w, <1>1, <1>2

\* What a buffer holds grows by the next value.
LEMMA BufferGrows ==
  ASSUME NEW n \in Nat, NEW b, b = [i \in 1 .. n |-> i]
  PROVE  Append(b, n + 1) = [i \in 1 .. n + 1 |-> i]
<1>1. b \in Seq(Nat) /\ Len(b) = n BY IsASeq
<1>2. Append(b, n + 1) \in Seq(Nat) /\ Len(Append(b, n + 1)) = n + 1 BY <1>1, AppendProperties
<1>3. \A i \in 1 .. n + 1 : Append(b, n + 1)[i] = i
  BY <1>1, AppendProperties
<1> QED BY <1>2, <1>3

\* A subscription of which a step adds no notification, and whose notifier it
\* leaves alone.
LEMMA SameNotes ==
  ASSUME TypeOK, [Next]_vars, NEW x \in Subs, Notes(x),
         x \in activated' <=> x \in activated, buffer'[x] = buffer[x], notified'[x] = notified[x],
         pc'[x] = "done" \/ pc[x] # "done",
         \A i \in 1 .. Len(wire') : i > Len(wire) => ~(NoteOf(x, i))'
  PROVE  Notes(x)'
<1>w. /\ Len(wire) \in Nat /\ Len(wire') \in Nat /\ Len(wire') >= Len(wire)
      /\ DOMAIN wire = 1 .. Len(wire) /\ DOMAIN wire' = 1 .. Len(wire')
      /\ \A i \in 1 .. Len(wire) : wire'[i] = wire[i]
      /\ broken => broken'
  BY WireGrows
<1>o. \A i \in 1 .. Len(wire) : /\ (NoteOf(x, i))' <=> NoteOf(x, i)
                                /\ i \in 1 .. Len(wire') /\ wire'[i] = wire[i]
  BY <1>w DEF NoteOf
<1>n. \A i \in 1 .. Len(wire') : (NoteOf(x, i))' => i \in 1 .. Len(wire) BY <1>w
<1>t. \A v : ToldLost(x, v)' <=> ToldLost(x, v) BY DEF ToldLost
<1>1. /\ x \notin activated => buffer[x] = [i \in 1 .. notified[x] |-> i]
      /\ \A i \in 1 .. Len(buffer[x]) : buffer[x][i] <= notified[x]
      /\ \A i \in 1 .. Len(wire) : NoteOf(x, i) => wire[i].val <= notified[x]
      /\ ~broken /\ x \notin activated /\ pc[x] # "done" => \A i \in 1 .. Len(wire) : ~NoteOf(x, i)
      /\ ~broken /\ x \in activated =>
           \A v \in 1 .. notified[x] :
              ToldLost(x, v) \/ \E i \in 1 .. Len(wire) : NoteOf(x, i) /\ wire[i].val = v
  BY <1>w DEF Notes
<1>2. ~broken' /\ x \notin activated /\ pc'[x] # "done" => \A i \in DOMAIN wire' : ~(NoteOf(x, i))'
  BY <1>w, <1>o, <1>n, <1>1
<1>3. \A i \in DOMAIN wire' : (NoteOf(x, i))' => wire'[i].val <= notified[x]
  BY <1>w, <1>o, <1>n, <1>1
<1>4. ASSUME ~broken', x \in activated, NEW v \in 1 .. notified[x]
      PROVE  ToldLost(x, v)' \/ \E i \in DOMAIN wire' : (NoteOf(x, i))' /\ wire'[i].val = v
  BY <1>w, <1>o, <1>t, <1>1, <1>4
<1> QED BY <1>1, <1>2, <1>3, <1>4 DEF Notes

\* The subscription that Notify is called for.
LEMMA NotifyNotes ==
  ASSUME TypeOK, [Next]_vars, NEW s \in Subs, Notes(s), Notify(s) PROVE Notes(s)'
<1>w. /\ Len(wire) \in Nat /\ Len(wire') \in Nat /\ Len(wire') >= Len(wire)
      /\ DOMAIN wire = 1 .. Len(wire) /\ DOMAIN wire' = 1 .. Len(wire')
      /\ \A i \in 1 .. Len(wire) : wire'[i] = wire[i]
      /\ broken => broken'
  BY WireGrows
<1>n. notified[s] \in Nat /\ notified'[s] = notified[s] + 1 /\ activated' = activated /\ pc' = pc
  BY ServerSubAssumption DEF TypeOK, Notify, procVars
<1>v. \A j \in 1 .. Len(wire) : wire[j].val \in Nat
  <2>1. \A j \in 1 .. Len(wire) : wire[j] \in Msgs BY ElementOfSeq DEF TypeOK, Msgs
  <2> QED BY <2>1, ServerSubAssumption DEF Msgs
<1>b. buffer[s] \in Seq(1 .. MaxNotes) BY DEF TypeOK
<1>p. /\ \A i \in 1 .. Len(buffer[s]) : buffer[s][i] <= notified[s]
      /\ \A i \in 1 .. Len(wire) : NoteOf(s, i) => wire[i].val <= notified[s]
  BY <1>w DEF Notes
<1>1. CASE s \notin activated
  <2>1. buffer'[s] = Append(buffer[s], notified[s] + 1) /\ wire' = wire /\ broken' = broken
    BY <1>1 DEF Notify, TypeOK
  <2>2. buffer'[s] = [i \in 1 .. notified[s] + 1 |-> i] BY <1>1, <1>n, <2>1, BufferGrows DEF Notes
  <2>3. ~broken /\ pc[s] # "done" => \A i \in DOMAIN wire' : ~(NoteOf(s, i))' BY <1>1, <2>1 DEF Notes, NoteOf
  <2>4. \A i \in 1 .. Len(wire') : (NoteOf(s, i))' => wire'[i].val <= notified[s] + 1
    BY <1>n, <1>v, <1>p, <2>1 DEF NoteOf
  <2>5. \A i \in 1 .. Len(buffer'[s]) : buffer'[s][i] <= notified[s] + 1
    <3>1. Len(buffer'[s]) = notified[s] + 1 BY <1>n, <2>2
    <3>2. \A i \in 1 .. notified[s] + 1 : buffer'[s][i] = i BY <1>n, <2>2
    <3> QED BY <1>n, <3>1, <3>2
  <2> QED BY <1>w, <1>1, <1>n, <2>1, <2>2, <2>3, <2>4, <2>5 DEF Notes
<1>2. CASE s \in activated
  <2>b. buffer' = buffer BY <1>2 DEF Notify
  <2>1. \/ Len(wire') = Len(wire)
        \/ Len(wire') = Len(wire) + 1 /\ wire'[Len(wire) + 1] = Note(s, notified[s] + 1)
    BY NotifyWrites
  <2>2. \A i \in 1 .. Len(buffer'[s]) : buffer'[s][i] <= notified'[s]
    <3>1. \A i \in 1 .. Len(buffer[s]) : buffer[s][i] \in 1 .. MaxNotes BY <1>b, ElementOfSeq
    <3> QED BY <1>n, <1>p, <2>b, <3>1, ServerSubAssumption
  <2>3. ASSUME NEW i \in 1 .. Len(wire'), (NoteOf(s, i))' PROVE wire'[i].val <= notified[s] + 1
    <3>1. CASE i \in 1 .. Len(wire)
      <4>1. wire'[i] = wire[i] /\ NoteOf(s, i) BY <1>w, <2>3, <3>1 DEF NoteOf
      <4> QED BY <1>n, <1>v, <1>p, <3>1, <4>1
    <3>2. CASE i \notin 1 .. Len(wire)
      <4>1. Len(wire') # Len(wire) BY <1>w, <3>2
      <4>0. Len(wire') = Len(wire) + 1 BY <2>1, <4>1
      <4>2. i = Len(wire) + 1 BY <1>w, <3>2, <4>0
      <4>3. wire'[i] = Note(s, notified[s] + 1) BY <2>1, <4>1, <4>2
      <4>4. wire'[i].val = notified[s] + 1 BY <4>3 DEF Note
      <4> QED BY <1>n, <4>4
    <3> QED BY <3>1, <3>2
  <2>4. ASSUME ~broken', NEW v \in 1 .. notified[s] + 1
        PROVE  ToldLost(s, v)' \/ \E i \in 1 .. Len(wire') : (NoteOf(s, i))' /\ wire'[i].val = v
    <3>1. CASE v \in 1 .. notified[s]
      <4>1. CASE ToldLost(s, v) BY <2>b, <4>1 DEF ToldLost
      <4>2. CASE ~ToldLost(s, v)
        <5>1. PICK i \in 1 .. Len(wire) : NoteOf(s, i) /\ wire[i].val = v
          BY <1>w, <1>2, <2>4, <3>1, <4>2 DEF Notes
        <5>2. i \in 1 .. Len(wire') /\ wire'[i] = wire[i] BY <1>w
        <5> QED BY <5>1, <5>2 DEF NoteOf
      <4> QED BY <4>1, <4>2
    <3>2. CASE v = notified[s] + 1 /\ <<s, notified[s] + 1>> \in Unfit
      <4>1. \A i \in 1 .. Len(buffer[s]) : buffer[s][i] # v
        <5>1. \A i \in 1 .. Len(buffer[s]) : buffer[s][i] \in 1 .. MaxNotes BY <1>b, ElementOfSeq
        <5> QED BY <1>n, <1>p, <3>2, <5>1, ServerSubAssumption
      <4> QED BY <2>b, <3>2, <4>1 DEF ToldLost, Contains
    <3>3. CASE v = notified[s] + 1 /\ <<s, notified[s] + 1>> \notin Unfit
      <4>1. Len(wire') = Len(wire) + 1 BY <1>2, <2>4, <3>3, NotifyWrites
      <4>2. PICK i \in 1 .. Len(wire') : i = Len(wire) + 1 BY <1>w, <4>1
      <4>3. wire'[i] = Note(s, notified[s] + 1)
        <5>1. Len(wire) \in Nat BY <1>w
        <5>2. Len(wire') # Len(wire) BY <4>1, <5>1
        <5> QED BY <2>1, <4>2, <5>2
      <4>4. wire'[i].val = v /\ (NoteOf(s, i))' BY <3>3, <4>3 DEF Note, NoteOf
      <4> QED BY <4>4
    <3>4. v \in 1 .. notified[s] \/ v = notified[s] + 1 BY <1>n
    <3> QED BY <3>1, <3>2, <3>3, <3>4
  <2>5. \A i \in DOMAIN wire' : (NoteOf(s, i))' => wire'[i].val <= notified'[s] BY <1>w, <1>n, <2>3
  <2>6. ~broken' => \A v \in 1 .. notified'[s] :
                       ToldLost(s, v)' \/ \E i \in DOMAIN wire' : (NoteOf(s, i))' /\ wire'[i].val = v
    BY <1>w, <1>n, <2>4
  <2>7. s \in activated' BY <1>n, <1>2
  <2> QED BY <2>2, <2>5, <2>6, <2>7 DEF Notes
<1> QED BY <1>1, <1>2

\* The subscription that is activated.
LEMMA ActivateNotes ==
  ASSUME TypeOK, NoteInv, [Next]_vars, NEW s \in Subs, s \notin activated, Activate(s) PROVE Notes(s)'
<1>w. /\ Len(wire) \in Nat /\ Len(wire') \in Nat /\ Len(wire') >= Len(wire)
      /\ DOMAIN wire = 1 .. Len(wire) /\ DOMAIN wire' = 1 .. Len(wire')
      /\ \A i \in 1 .. Len(wire) : wire'[i] = wire[i]
      /\ broken => broken'
  BY WireGrows
<1>n. /\ notified[s] \in Nat /\ notified' = notified /\ buffer' = buffer /\ pc'[s] = "done"
  BY ServerSubAssumption DEF TypeOK, Activate, Goto
<1>1. /\ buffer[s] = [i \in 1 .. notified[s] |-> i]
      /\ \A i \in 1 .. Len(buffer[s]) : buffer[s][i] <= notified[s]
      /\ \A i \in 1 .. Len(wire) : NoteOf(s, i) => wire[i].val <= notified[s]
  BY <1>w DEF NoteInv, Notes
<1>2. PICK k \in 0 .. notified[s] :
          /\ Len(wire') = Len(wire) + k
          /\ s \in activated' => k = notified[s]
          /\ \A i \in 1 .. k : wire'[Len(wire) + i] = Note(s, i)
  BY ActivateWrites
<1>3. ASSUME NEW i \in 1 .. Len(wire'), (NoteOf(s, i))' PROVE wire'[i].val <= notified[s]
  <2>1. CASE i \in 1 .. Len(wire)
    <3>1. wire'[i] = wire[i] /\ NoteOf(s, i) BY <1>w, <1>3, <2>1 DEF NoteOf
    <3> QED BY <1>1, <2>1, <3>1
  <2>2. CASE i \notin 1 .. Len(wire)
    <3>1. i - Len(wire) \in 1 .. k /\ Len(wire) + (i - Len(wire)) = i BY <1>w, <1>n, <1>2, <2>2
    <3>2. wire'[i] = Note(s, i - Len(wire)) BY <1>2, <3>1
    <3>3. wire'[i].val = i - Len(wire) BY <3>2 DEF Note
    <3> QED BY <1>w, <1>n, <3>1, <3>3
  <2> QED BY <2>1, <2>2
<1>4. ASSUME s \in activated', NEW v \in 1 .. notified[s]
      PROVE  \E i \in 1 .. Len(wire') : (NoteOf(s, i))' /\ wire'[i].val = v
  <2>1. v \in 1 .. k BY <1>2, <1>4
  <2>2. PICK i \in 1 .. Len(wire') : i = Len(wire) + v BY <1>w, <1>n, <1>2, <2>1
  <2>3. wire'[i] = Note(s, v) BY <1>2, <2>1, <2>2
  <2>4. wire'[i].val = v /\ (NoteOf(s, i))' BY <2>3 DEF Note, NoteOf
  <2> QED BY <2>4
<1>5. \A i \in DOMAIN wire' : (NoteOf(s, i))' => wire'[i].val <= notified'[s] BY <1>w, <1>n, <1>3
<1>6. s \in activated' => \A v \in 1 .. notified'[s] :
                             \E i \in DOMAIN wire' : (NoteOf(s, i))' /\ wire'[i].val = v
  BY <1>w, <1>n, <1>4
<1> QED BY <1>n, <1>1, <1>5, <1>6 DEF Notes

\* Only Notify and activate touch the values of a subscription, each as above.
LEMMA NoteStep ==
  ASSUME TypeOK, AnswerInv, NoteInv, [Next]_vars PROVE NoteInv'
<1>1. ASSUME NEW i \in 1 .. Len(wire'), i > Len(wire), wire'[i].type = "note",
             NEW x \in Subs, wire'[i].sub = x
      PROVE  Notify(x) \/ Activate(x)
  BY <1>1, NewNote
<1> SUFFICES ASSUME NEW x \in Subs PROVE Notes(x)'
  BY DEF NoteInv
<1>2. Notes(x) BY DEF NoteInv
<1>3. CASE Notify(x) BY <1>2, <1>3, NotifyNotes
<1>4. CASE Activate(x)
  <2>1. x \notin activated BY <1>4 DEF AnswerInv, Activate
  <2> QED BY <1>4, <2>1, ActivateNotes
<1>5. CASE ~Notify(x) /\ ~Activate(x)
  <2>1. \A i \in 1 .. Len(wire') : i > Len(wire) => ~(NoteOf(x, i))' BY <1>1, <1>5 DEF NoteOf
  <2>3. pc'[x] = "done" \/ pc[x] # "done"
    <3>1. ASSUME NEW s \in Subs, pc[s] # "done", pc' = [pc EXCEPT ![s] = pc'[s]] PROVE pc'[x] = pc[x] \/ pc[x] # "done"
      BY <3>1 DEF TypeOK
    <3> QED
      BY DEF Next, ServerStep, StartCallProc, CreateSubscription, MethodReturn, AddSubscriptions, ClientUnsubscribe,
             RespondEarly, Respond, Activate, Notify, Unsubscribe, Close, Closed, CodecClose, Goto, TypeOK, vars, procVars
  <2>2. (x \in activated' <=> x \in activated) /\ buffer'[x] = buffer[x] /\ notified'[x] = notified[x]
    <3>1. ASSUME NEW s \in Subs \ {x}, Notify(s) \/ Activate(s)
          PROVE  (x \in activated' <=> x \in activated) /\ buffer'[x] = buffer[x] /\ notified'[x] = notified[x]
      BY <3>1 DEF Notify, Activate, TypeOK
    <3> QED
      BY <1>5, <3>1
      DEF Next, ServerStep, StartCallProc, CreateSubscription, MethodReturn, AddSubscriptions, ClientUnsubscribe,
          RespondEarly, Respond, Unsubscribe, Close, Closed, CodecClose, vars, noteVars
  <2> QED BY <1>2, <2>1, <2>2, <2>3, SameNotes
<1> QED BY <1>3, <1>4, <1>5

\* Outside batches that have grown too large the id is on the wire only after
\* addSubscriptions, so that an unsubscribe request finds what it is for.
LEMMA UnsubscribeStep ==
  ASSUME TypeOK, AnswerInv, UnsubscribeDeletes, [Next]_vars PROVE UnsubscribeDeletes'
<1> USE DEF UnsubscribeDeletes, TypeOK
<1>1. ASSUME NEW s \in Subs, AddSubscriptions(s) PROVE UnsubscribeDeletes'
  <2>1. s \notin Limited => unsub[s] = "none" BY <1>1 DEF AddSubscriptions, AnswerInv
  <2> QED BY <1>1, <2>1 DEF AddSubscriptions
<1>2. ASSUME NEW s \in Subs, Unsubscribe(s) PROVE UnsubscribeDeletes' BY <1>2 DEF Unsubscribe
<1>3. ASSUME NEW s \in Subs, ClientUnsubscribe(s) PROVE UnsubscribeDeletes' BY <1>3 DEF ClientUnsubscribe
<1>4. CASE Closed BY <1>4 DEF Closed
<1>5. CASE UNCHANGED <<unsub, serverSubs>> BY <1>5
<1> QED
  BY <1>1, <1>2, <1>3, <1>4, <1>5
  DEF Next, ServerStep, StartCallProc, CreateSubscription, MethodReturn, RespondEarly, Respond, Activate, Notify,
      Close, CodecClose, vars, tableVars

-----------------------------------------------------------------------------
(* The theorems.                                                           *)

\* The invariant is inductive.
LEMMA StepInv == Inv /\ [Next]_vars => Inv'
  BY TypeStep, AnswerStep, NoteStep, TableStep, IdFirstStep, OrderStep, UnsubscribeStep DEF Inv

\* Inv holds in every reachable state of every instance.
THEOREM Invariance == Spec => []Inv
  BY InitInv, StepInv, PTL DEF Spec

\* The variables keep their types; no notification beyond the bound is buffered.
THEOREM TypeCorrect == Spec => []TypeOK
<1>1. Inv => TypeOK BY DEF Inv
<1> QED BY Invariance, <1>1, PTL

\* Notify buffers until the answer with the id has been written
\* (subscription.go:132-146, handler.go:254-258, 312-320), however many subscriptions are
\* being made and wherever writing fails, unless the answer itself does not marshal.
THEOREM IdFirstHolds == Spec => []IdFirst
<1>1. Inv => IdFirst BY DEF Inv
<1> QED BY Invariance, <1>1, PTL

\* The values of a subscription reach the connection in the order of the Notify
\* calls and without silent gaps (subscription.go:132-170), also when activation flushes
\* the buffer while the service goes on notifying, and also past values that do not
\* marshal: one that is missing is one whose Notify call returned the error.
THEOREM NotesInOrderHolds == Spec => []NotesInOrder
<1>1. Inv => NotesInOrder BY DEF Inv
<1> QED BY Invariance, <1>1, PTL

\* handler.unsubscribe and cancelServerSubscriptions neither close an err channel
\* twice nor send on a closed or full one (handler.go:381-390, 596-608).
THEOREM SubErrSafeHolds == Spec => []SubErrSafe
<1>1. Inv => SubErrSafe BY DEF Inv
<1> QED BY Invariance, <1>1, PTL

\* handler.close releases every subscription that any call goroutine has created
\* (handler.go:325-330, 369-390).
THEOREM AllReleasedHolds == Spec => []AllReleased
<1>1. Inv => AllReleased BY DEF Inv, TableInv, AllReleased, TypeOK, Added
<1> QED BY Invariance, <1>1, PTL

\* An unsubscribe request that has been handled leaves nothing behind
\* (handler.go:596-608), apart from the batches of UnsubscribeDeletes' exception.
THEOREM UnsubscribeDeletesHolds == Spec => []UnsubscribeDeletes
<1>1. Inv => UnsubscribeDeletes BY DEF Inv
<1> QED BY Invariance, <1>1, PTL

=============================================================================
