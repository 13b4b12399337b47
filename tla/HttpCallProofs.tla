--------------------------- MODULE HttpCallProofs ---------------------------
(***************************************************************************)
(* Proofs about HttpCall and the modules it is made of: for every set of   *)
(* requests, every limit and with or without a timeout, each call gets at  *)
(* most one answer, none is missing while there is time, nothing is        *)
(* written after ServeHTTP has returned, and a caller gets the outcomes of *)
(* its own calls.                                                          *)
(***************************************************************************)
EXTENDS HttpCall, FiniteSetTheorems, SequenceTheorems, TLAPS

\* The messages that the answers of a response are for.
MsgsOf(r) == {r[i].msg : i \in DOMAIN r}
Distinct(r) == \A i, j \in DOMAIN r : r[i].msg = r[j].msg => i = j

\* Messages of the request that may have an answer: calls, malformed messages, and
\* a notification on its own, for which the timer answers.
Answerable ==
  {m \in DOMAIN req.msgs : Kind(m) \in {"call", "invalid"} \/ (~req.batch /\ Kind(m) = "note")}

\* The answers have been started and nobody has written them.
Pending == ~wrote /\ (pc \notin {"start", "done"} \/ timer # "off")

\* How far ServeHTTP is and how far the call goroutine: it is started by the one
\* and waited for; a request that a Go client can make is never unreadable.
StageInv ==
  /\ conn \in {"check", "run", "read", "handle"} => pc = "start" /\ sent = <<>>
  /\ conn = "returned" => pc \in {"start", "done"}
  /\ conn \in {"run", "read"} /\ web.known => web.size <= BodyLimit
  /\ pc = "start" /\ sent # <<>> => ~GoRequest
  /\ pc = "start" => calls = <<>> /\ resp = <<>> /\ ~wrote /\ timer = "off"

\* What calls holds at each place of the call goroutine.
CallsInv ==
  /\ \A i, j \in DOMAIN calls : i < j => calls[i] < calls[j]
  /\ pc = "method" => calls # <<>>
  /\ pc = "tooLarge" => req.batch
  /\ pc \in {"stop", "write"} /\ ~wrote => calls = <<>> \/ (req.batch /\ cancelled)
  /\ ~req.batch /\ pc \in {"stop", "write", "done"} => calls = <<>>
  /\ ~req.batch /\ timer # "off" => Kind(1) # "response"
  /\ timer = "over" => wrote

\* As long as nobody has written the answers they are those of different calls,
\* which are no longer in calls, and every call has one or is still there.
PendingInv ==
  /\ Pending => sent = <<>>
  /\ Pending => Distinct(resp) /\ MsgsOf(resp) \cap Range(calls) = {}
  /\ Pending => Expected \subseteq MsgsOf(resp) \cup Range(calls)
  /\ MsgsOf(resp) \subseteq Expected
  /\ Pending /\ pc = "done" => ~req.batch /\ resp = <<>>

\* What has been written: one response, to different messages that may be answered,
\* or an error for the request as a whole, with the answer of every expected call
\* unless the loop stopped early because its context had ended.
SentInv ==
  /\ Len(sent) <= 1
  /\ \A k \in DOMAIN sent : Distinct(sent[k]) /\ MsgsOf(sent[k]) \subseteq Answerable \cup {0}
  /\ sent # <<>> => wrote \/ pc \in {"start", "done"}
  /\ (wrote \/ pc = "done") /\ WithinLimit =>
       \A m \in Expected : Answered(m) \/ (pc = "done" /\ cancelled /\ m \in Range(calls))

\* What the Go client knows of it.
ClientInv ==
  /\ cl # "none" => GoRequest
  /\ cl \in {"deliver", "wait"} => sent # <<>> /\ body = sent[1]
  /\ cl = "wait" => Kind(1) # "note"
  /\ cl = "returned" /\ err = "nil" =>
       /\ sent # <<>>
       /\ \A m \in DOMAIN elems :
            IF elems[m] = "missing"
            THEN ~WithinLimit \/ (pc = "done" /\ cancelled /\ m \in Range(calls))
            ELSE Answer(m, elems[m]) \in Range(sent[1])

\* The server's part, and all of it.
ServerInv == HttpTypeOK /\ StageInv /\ CallsInv /\ PendingInv /\ SentInv
Inv == ServerInv /\ CallTypeOK /\ ClientInv

-----------------------------------------------------------------------------
(* Requests, sequences of positions and of answers.                        *)

\* A request has positions from 1 on, and just the one if it is no batch.
LEMMA ReqType ==
  ASSUME req \in Requests
  PROVE  /\ req.msgs \in Seq(Kinds) /\ req.batch \in BOOLEAN
         /\ DOMAIN req.msgs = 1..Len(req.msgs) /\ Len(req.msgs) \in Nat
         /\ ~req.batch => DOMAIN req.msgs = {1}
<1>1. /\ req.msgs \in Seq(Kinds) /\ req.batch \in BOOLEAN /\ (req.batch \/ Len(req.msgs) = 1)
  BY CallProcAssumption
<1>2. DOMAIN req.msgs = 1..Len(req.msgs) /\ Len(req.msgs) \in Nat BY <1>1
<1>3. ASSUME ~req.batch PROVE DOMAIN req.msgs = {1}
  <2>1. DOMAIN req.msgs = 1..1 BY <1>1, <1>2, <1>3
  <2> QED BY <2>1
<1> QED BY <1>1, <1>2, <1>3

\* InOrder lists a set of positions, each of them once.
LEMMA InOrderProp ==
  ASSUME req \in Requests, NEW S, S \subseteq DOMAIN req.msgs, NEW s \in InOrder(S)
  PROVE  /\ s \in Seq(S) /\ DOMAIN s = 1..Len(s) /\ Len(s) \in Nat /\ Range(s) = S
         /\ \A i, j \in DOMAIN s : i < j => s[i] < s[j]
         /\ \A i, j \in DOMAIN s : s[i] = s[j] => i = j
<1>1. IsFiniteSet(S)
  <2>1. IsFiniteSet(1..Len(req.msgs)) BY ReqType, FS_Interval
  <2> QED BY <2>1, ReqType, FS_Subset
<1>2. Cardinality(S) \in Nat BY <1>1, FS_CardinalityType
<1>3. s \in [1..Cardinality(S) -> S] /\ Range(s) = S /\ \A i, j \in DOMAIN s : i < j => s[i] < s[j]
  BY DEF InOrder
<1>4. s \in Seq(S) /\ DOMAIN s = 1..Len(s) /\ Len(s) \in Nat BY <1>2, <1>3
<1>5. ASSUME NEW i \in DOMAIN s, NEW j \in DOMAIN s, s[i] = s[j] PROVE i = j
  <2>1. i \in Nat /\ j \in Nat /\ s[i] \in Nat /\ s[j] \in Nat
    <3>1. S \subseteq Nat BY ReqType
    <3>2. i \in 1..Len(s) /\ j \in 1..Len(s) BY <1>4
    <3>3. s[i] \in S /\ s[j] \in S BY <1>4, <3>2
    <3> QED BY <1>4, <3>1, <3>2, <3>3
  <2>2. ~(s[i] < s[j]) /\ ~(s[j] < s[i]) BY <1>5, <2>1
  <2>3. ~(i < j) /\ ~(j < i) BY <1>3, <2>2
  <2> QED BY <2>1, <2>3
<1> QED BY <1>3, <1>4, <1>5

\* The head of calls, and what is left of it.
LEMMA CallsTail ==
  ASSUME HttpTypeOK, CallsInv, calls # <<>>
  PROVE  /\ Head(calls) \in DOMAIN req.msgs /\ Kind(Head(calls)) # "response"
         /\ Tail(calls) \in Seq({m \in DOMAIN req.msgs : Kind(m) # "response"})
         /\ \A i, j \in DOMAIN Tail(calls) : i < j => Tail(calls)[i] < Tail(calls)[j]
         /\ Range(calls) = Range(Tail(calls)) \cup {Head(calls)}
         /\ Head(calls) \notin Range(Tail(calls))
<1> DEFINE P == {m \in DOMAIN req.msgs : Kind(m) # "response"}
<1>1. calls \in Seq(P) /\ calls # <<>> /\ P \subseteq Nat
  BY ReqType DEF HttpTypeOK, TypeOK
<1>2. \A i, j \in DOMAIN calls : i < j => calls[i] < calls[j] BY DEF CallsInv
<1> HIDE DEF P
<1>3. /\ Head(calls) \in P /\ Tail(calls) \in Seq(P) /\ Head(calls) = calls[1]
      /\ Len(calls) \in Nat /\ Len(calls) > 0 /\ Len(Tail(calls)) = Len(calls) - 1
      /\ DOMAIN calls = 1..Len(calls) /\ DOMAIN Tail(calls) = 1..(Len(calls) - 1)
      /\ \A i \in 1..(Len(calls) - 1) : Tail(calls)[i] = calls[i + 1]
  BY <1>1
<1>4. \A i, j \in DOMAIN Tail(calls) : i < j => Tail(calls)[i] < Tail(calls)[j]
  BY <1>2, <1>3
<1>5. Range(calls) = Range(Tail(calls)) \cup {Head(calls)}
  <2>1. ASSUME NEW i \in DOMAIN calls PROVE calls[i] \in Range(Tail(calls)) \cup {Head(calls)}
    <3>1. CASE i = 1 BY <1>3, <3>1
    <3>2. CASE i # 1
      <4>1. i - 1 \in DOMAIN Tail(calls) /\ Tail(calls)[i - 1] = calls[i] BY <1>3, <3>2
      <4> QED BY <4>1 DEF Range
    <3> QED BY <3>1, <3>2
  <2>2. ASSUME NEW i \in DOMAIN Tail(calls) PROVE Tail(calls)[i] \in Range(calls)
    <3>1. i + 1 \in DOMAIN calls /\ Tail(calls)[i] = calls[i + 1] BY <1>3
    <3> QED BY <3>1 DEF Range
  <2>3. 1 \in DOMAIN calls BY <1>3
  <2> QED BY <1>3, <2>1, <2>2, <2>3 DEF Range
<1>6. ASSUME NEW i \in DOMAIN Tail(calls), Tail(calls)[i] = Head(calls) PROVE FALSE
  <2>1. i \in 1..(Len(calls) - 1) /\ calls[i + 1] = calls[1] /\ i + 1 \in DOMAIN calls /\ 1 \in DOMAIN calls /\ 1 < i + 1
    BY <1>3, <1>6
  <2>2. calls[1] < calls[i + 1] BY <1>2, <2>1
  <2>3. calls[1] \in Nat BY <1>1, <1>3
  <2> QED BY <2>1, <2>2, <2>3
<1> QED BY <1>3, <1>4, <1>5, <1>6 DEF Range, P

\* One answer more.
LEMMA AppendProp ==
  ASSUME NEW r \in Seq(Answers), NEW m \in Nat, NEW w \in {"result", "error", "timeout", "tooLarge"}
  PROVE  LET q == Append(r, Answer(m, w))
         IN  /\ q \in Seq(Answers) /\ q # <<>> /\ MsgsOf(q) = MsgsOf(r) \cup {m}
             /\ Distinct(r) /\ m \notin MsgsOf(r) => Distinct(q)
<1> DEFINE a == Answer(m, w)
           q == Append(r, a)
<1>1. a \in Answers /\ a.msg = m BY DEF Answer, Answers
<1> HIDE DEF a
<1>2. /\ q \in Seq(Answers) /\ q # <<>> /\ DOMAIN r = 1..Len(r) /\ Len(r) \in Nat
      /\ DOMAIN q = 1..(Len(r) + 1) /\ q[Len(r) + 1] = a /\ \A i \in DOMAIN r : q[i] = r[i]
  BY <1>1
<1> HIDE DEF q
<1>3. \A i \in DOMAIN q : i \in DOMAIN r \/ i = Len(r) + 1 BY <1>2
<1>4. Len(r) + 1 \in DOMAIN q /\ DOMAIN r \subseteq DOMAIN q BY <1>2
<1>5. MsgsOf(q) = MsgsOf(r) \cup {m}
  <2>1. ASSUME NEW i \in DOMAIN q PROVE q[i].msg \in MsgsOf(r) \cup {m}
    BY <1>1, <1>2, <1>3 DEF MsgsOf
  <2>2. m \in MsgsOf(q) BY <1>1, <1>2, <1>4 DEF MsgsOf
  <2>3. ASSUME NEW i \in DOMAIN r PROVE r[i].msg \in MsgsOf(q)
    <3>1. q[i] = r[i] /\ i \in DOMAIN q BY <1>2, <1>4
    <3> QED BY <3>1 DEF MsgsOf
  <2> QED BY <2>1, <2>2, <2>3 DEF MsgsOf
<1>6. ASSUME Distinct(r), m \notin MsgsOf(r), NEW i \in DOMAIN q, NEW j \in DOMAIN q, q[i].msg = q[j].msg
      PROVE  i = j
  <2>1. CASE i \in DOMAIN r /\ j \in DOMAIN r BY <1>2, <1>6, <2>1 DEF Distinct
  <2>2. CASE i \in DOMAIN r /\ j = Len(r) + 1
    <3>1. r[i].msg = m BY <1>1, <1>2, <1>6, <2>2
    <3> QED BY <1>6, <2>2, <3>1 DEF MsgsOf
  <2>3. CASE j \in DOMAIN r /\ i = Len(r) + 1
    <3>1. r[j].msg = m BY <1>1, <1>2, <1>6, <2>3
    <3> QED BY <1>6, <2>3, <3>1 DEF MsgsOf
  <2>4. CASE i = Len(r) + 1 /\ j = Len(r) + 1 BY <2>4
  <2> QED BY <1>3, <2>1, <2>2, <2>3, <2>4
<1>7. q = Append(r, Answer(m, w)) BY DEF q, a
<1> QED BY <1>2, <1>5, <1>6, <1>7 DEF Distinct

\* respondWithError adds an error for each call that is left.
LEMMA RespondProp ==
  ASSUME HttpTypeOK, CallsInv, NEW w \in {"timeout", "tooLarge"}, respondWithError(w)
  PROVE  /\ resp' \in Seq(Answers) /\ doWrite(resp')
         /\ MsgsOf(resp') = MsgsOf(resp) \cup {m \in Range(calls) : Kind(m) # "note"}
         /\ Distinct(resp) /\ MsgsOf(resp) \cap Range(calls) = {} => Distinct(resp')
<1> DEFINE S == {m \in Range(calls) : Kind(m) # "note"}
<1>1. S \subseteq DOMAIN req.msgs /\ req \in Requests /\ resp \in Seq(Answers)
  <2>1. Range(calls) \subseteq DOMAIN req.msgs BY DEF HttpTypeOK, TypeOK, Range
  <2> QED BY <2>1 DEF HttpTypeOK, TypeOK
<1>2. PICK left \in InOrder(S) : /\ resp' = resp \o [i \in DOMAIN left |-> Answer(left[i], w)]
                                 /\ doWrite(resp')
  BY DEF respondWithError
<1>3. S \subseteq Nat BY <1>1, ReqType
<1>4. S \subseteq Range(calls) OBVIOUS
<1> HIDE DEF S
<1>5. /\ left \in Seq(S) /\ DOMAIN left = 1..Len(left) /\ Len(left) \in Nat /\ Range(left) = S
      /\ \A i, j \in DOMAIN left : left[i] = left[j] => i = j
  BY <1>1, InOrderProp
<1> DEFINE e == [i \in DOMAIN left |-> Answer(left[i], w)]
           n == Len(resp)
           q == resp \o e
<1>6. /\ e \in Seq(Answers) /\ Len(e) = Len(left) /\ DOMAIN e = 1..Len(left)
      /\ \A i \in 1..Len(left) : e[i].msg = left[i]
  <2>1. \A i \in 1..Len(left) : Answer(left[i], w) \in Answers /\ Answer(left[i], w).msg = left[i]
    <3>1. \A i \in 1..Len(left) : left[i] \in S BY <1>5, ElementOfSeq
    <3>2. \A i \in 1..Len(left) : left[i] \in Nat BY <1>3, <3>1
    <3> QED BY <3>2 DEF Answer, Answers
  <2>2. e \in [1..Len(left) -> Answers] BY <1>5, <2>1
  <2> QED BY <1>5, <2>1, <2>2
<1> HIDE DEF e
<1>7. /\ q \in Seq(Answers) /\ n \in Nat /\ DOMAIN resp = 1..n /\ DOMAIN q = 1..(n + Len(left))
      /\ \A i \in 1..n : q[i] = resp[i]
      /\ \A i \in 1..Len(left) : q[n + i] = e[i]
  <2>1. /\ q \in Seq(Answers) /\ Len(q) = n + Len(left)
        /\ \A i \in 1..(n + Len(left)) : q[i] = IF i <= n THEN resp[i] ELSE e[i - n]
    <3>1. resp \in Seq(Answers) /\ e \in Seq(Answers) /\ Len(e) = Len(left) BY <1>1, <1>6
    <3>2. /\ q \in Seq(Answers) /\ Len(q) = Len(resp) + Len(e)
          /\ \A i \in 1..(Len(resp) + Len(e)) : q[i] = IF i <= Len(resp) THEN resp[i] ELSE e[i - Len(resp)]
      BY <3>1, ConcatProperties
    <3> HIDE DEF q
    <3> QED BY <3>1, <3>2
  <2>2. n \in Nat /\ DOMAIN resp = 1..n /\ DOMAIN q = 1..(n + Len(left)) BY <1>1, <2>1
  <2> HIDE DEF q, n
  <2>3. ASSUME NEW i \in 1..n PROVE q[i] = resp[i] BY <1>5, <2>1, <2>2
  <2>4. ASSUME NEW i \in 1..Len(left) PROVE q[n + i] = e[i]
    <3>1. n + i \in 1..(n + Len(left)) /\ ~(n + i <= n) /\ (n + i) - n = i BY <1>5, <2>2
    <3> QED BY <2>1, <3>1
  <2> QED BY <2>1, <2>2, <2>3, <2>4
<1> HIDE DEF q, n
<1>8. \A i \in DOMAIN q : i \in 1..n \/ (i - n \in 1..Len(left) /\ i = n + (i - n))
  BY <1>5, <1>7
<1>9. \A i \in 1..Len(left) : n + i \in DOMAIN q /\ q[n + i].msg = left[i]
  BY <1>5, <1>6, <1>7
<1>10. MsgsOf(q) = MsgsOf(resp) \cup S
  <2>1. ASSUME NEW i \in DOMAIN q PROVE q[i].msg \in MsgsOf(resp) \cup S
    <3>1. CASE i \in 1..n BY <1>7, <3>1 DEF MsgsOf
    <3>2. CASE i - n \in 1..Len(left) /\ i = n + (i - n)
      <4>1. q[i].msg = left[i - n] BY <1>9, <3>2
      <4>2. left[i - n] \in Range(left) BY <1>5, <3>2 DEF Range
      <4> QED BY <1>5, <4>1, <4>2
    <3> QED BY <1>8, <3>1, <3>2
  <2>2. ASSUME NEW i \in 1..n PROVE resp[i].msg \in MsgsOf(q)
    <3>1. i \in DOMAIN q /\ q[i] = resp[i] BY <1>5, <1>7
    <3> QED BY <3>1 DEF MsgsOf
  <2>3. ASSUME NEW m \in S PROVE m \in MsgsOf(q)
    <3>1. PICK i \in 1..Len(left) : left[i] = m BY <1>5 DEF Range
    <3> QED BY <1>9, <3>1 DEF MsgsOf
  <2> QED BY <1>7, <2>1, <2>2, <2>3 DEF MsgsOf
<1>11. ASSUME Distinct(resp), MsgsOf(resp) \cap Range(calls) = {},
              NEW i \in DOMAIN q, NEW j \in DOMAIN q, q[i].msg = q[j].msg
       PROVE  i = j
  <2>1. ASSUME NEW x \in 1..n, NEW y \in 1..Len(left), q[x].msg = q[n + y].msg PROVE FALSE
    <3>1. resp[x].msg = left[y] /\ x \in DOMAIN resp BY <1>7, <1>9, <2>1
    <3>2. left[y] \in Range(calls) BY <1>4, <1>5 DEF Range
    <3> QED BY <1>11, <3>1, <3>2 DEF MsgsOf
  <2>2. CASE i \in 1..n /\ j \in 1..n BY <1>7, <1>11, <2>2 DEF Distinct
  <2>3. CASE i - n \in 1..Len(left) /\ i = n + (i - n) /\ j - n \in 1..Len(left) /\ j = n + (j - n)
    <3>1. left[i - n] = left[j - n] BY <1>9, <1>11, <2>3
    <3>2. i - n = j - n BY <1>5, <2>3, <3>1
    <3> QED BY <2>3, <3>2
  <2> QED BY <1>8, <1>11, <2>1, <2>2, <2>3
<1>12. resp' = q BY <1>2 DEF q, e
<1> QED BY <1>2, <1>7, <1>10, <1>11, <1>12 DEF Distinct, S

\* A response that holds what SentInv says of one.
Response(r) == r \in Seq(Answers) /\ Distinct(r) /\ MsgsOf(r) \subseteq Answerable \cup {0}

\* The first response is the only one.
LEMMA FirstResponse ==
  ASSUME NEW r, Response(r), req' = req, sent' = <<r>>
  PROVE  /\ sent' \in Seq(Seq(Answers)) /\ Len(sent') <= 1 /\ sent' # <<>>
         /\ \A k \in DOMAIN sent' : Distinct(sent'[k]) /\ MsgsOf(sent'[k]) \subseteq Answerable' \cup {0}
         /\ \A m \in MsgsOf(r) : Answered(m)'
<1>1. Answerable' = Answerable BY DEF Answerable, Kind
<1>2. Len(sent') = 1 /\ DOMAIN sent' = {1} /\ sent'[1] = r /\ sent' \in Seq(Seq(Answers)) BY DEF Response
<1>3. ASSUME NEW m \in MsgsOf(r) PROVE Answered(m)'
  <2>1. PICK i \in DOMAIN r : r[i].msg = m BY DEF MsgsOf
  <2> QED BY <1>2, <2>1 DEF Answered
<1> QED BY <1>1, <1>2, <1>3 DEF Response

\* doWrite writes once.
LEMMA doWriteProp ==
  ASSUME HttpTypeOK, SentInv, NEW r, Response(r) \/ wrote, doWrite(r), req' = req, ~wrote => sent = <<>>
  PROVE  /\ wrote' = TRUE /\ sent' \in Seq(Seq(Answers)) /\ Len(sent') <= 1
         /\ \A k \in DOMAIN sent' : Distinct(sent'[k]) /\ MsgsOf(sent'[k]) \subseteq Answerable' \cup {0}
         /\ sent # <<>> => sent' = sent
         /\ wrote => sent' = sent
         /\ ~wrote => \A m \in MsgsOf(r) : Answered(m)'
<1>1. wrote' = TRUE /\ sent' = IF ~wrote /\ r # <<>> THEN Append(sent, r) ELSE sent BY DEF doWrite
<1>2. wrote \in BOOLEAN /\ sent \in Seq(Seq(Answers)) BY DEF HttpTypeOK, TypeOK
<1>3. CASE wrote
  <2>1. sent' = sent /\ Answerable' = Answerable BY <1>1, <1>3 DEF Answerable, Kind
  <2> QED BY <1>1, <1>2, <1>3, <2>1 DEF SentInv
<1>4. CASE ~wrote /\ r # <<>>
  <2>1. sent = <<>> /\ Response(r) /\ sent' = <<r>> BY <1>1, <1>4
  <2> QED BY <1>1, <1>4, <2>1, FirstResponse
<1>5. CASE ~wrote /\ r = <<>>
  <2>1. sent' = <<>> /\ sent = <<>> BY <1>1, <1>5
  <2>2. MsgsOf(r) = {} BY <1>5 DEF MsgsOf
  <2> QED BY <1>1, <1>2, <1>5, <2>1, <2>2
<1> QED BY <1>2, <1>3, <1>4, <1>5

\* Answerable messages: those that are expected, at least.
LEMMA ExpectedAnswerable == Expected \subseteq Answerable
  BY DEF Expected, Answerable

-----------------------------------------------------------------------------
(* Steps of the server.                                                    *)

\* What no step of the server takes back.
Keeps ==
  /\ req' = req /\ web' = web
  /\ sent # <<>> => sent' = sent
  /\ cancelled => cancelled'
  /\ pc = "done" => pc' = "done" /\ calls' = calls

\* A step that leaves the answers alone.
LEMMA QuietStep ==
  ASSUME PendingInv, SentInv, UNCHANGED <<req, calls, resp, wrote, sent>>,
         Pending' => Pending, cancelled => cancelled',
         (pc' = "done") <=> (pc = "done"), (pc' = "start") <=> (pc = "start")
  PROVE  PendingInv' /\ SentInv'
<1>1. /\ Expected' = Expected /\ Answerable' = Answerable /\ WithinLimit' = WithinLimit
      /\ \A m : Answered(m)' = Answered(m)
  BY DEF Expected, Answerable, WithinLimit, Answered, Kind
<1>2. PendingInv' BY <1>1 DEF PendingInv
<1>3. SentInv' BY <1>1 DEF SentInv
<1> QED BY <1>2, <1>3

\* validateRequest may refuse the request before it is read.
LEMMA ServeHTTPStep == ASSUME ServerInv, ServeHTTP PROVE ServerInv' /\ Keeps
<1> USE DEF ServerInv
<1>1. /\ UNCHANGED vars /\ web' = web /\ conn = "check"
      /\ status' = IF HealthCheck THEN 200 ELSE validateRequest
      /\ conn' = IF status' = 0 THEN "run" ELSE "returned"
  BY DEF ServeHTTP
<1>2. UNCHANGED <<req, pc, calls, resp, wrote, bytes, timer, cancelled, sent>> BY <1>1 DEF vars
<1>3. web \in WebRequests /\ BodyLimit \in Nat BY HttpAssumption DEF HttpTypeOK
<1>4. status' \in {0, 200, 405, 413, 415} BY <1>1 DEF validateRequest
<1>5. status' = 0 /\ web.known => web.size <= BodyLimit
  <2>1. web.size \in Nat BY <1>3 DEF WebRequests
  <2> QED BY <1>1, <1>3, <2>1 DEF validateRequest, ContentLength
<1>6. HttpTypeOK' BY <1>1, <1>2, <1>4 DEF HttpTypeOK, TypeOK, Kind
<1>7. StageInv' BY <1>1, <1>2, <1>5 DEF StageInv, GoRequest, Kind
<1>8. CallsInv' BY <1>2 DEF CallsInv, Kind
<1>9. PendingInv' /\ SentInv' BY <1>2, QuietStep DEF Pending
<1> QED BY <1>1, <1>2, <1>6, <1>7, <1>8, <1>9 DEF Keeps

\* The other steps of ServeHTTP that write nothing, and the peer's leaving.
LEMMA QuietHttpStep ==
  ASSUME ServerInv, serveSingleRequest \/ ReadOk \/ HandlerClose \/ PeerGone
  PROVE  ServerInv' /\ Keeps
<1> USE DEF ServerInv
<1>1. /\ UNCHANGED <<req, pc, calls, resp, wrote, bytes, timer, sent, web, status>>
      /\ (cancelled' = cancelled \/ cancelled' = TRUE)
      /\ \/ conn' = conn
         \/ conn = "run" /\ conn' \in {"read", "returned"}
         \/ conn = "read" /\ conn' = "handle"
         \/ conn = "close" /\ pc \in {"start", "done"} /\ conn' = "returned"
  BY DEF serveSingleRequest, ReadOk, HandlerClose, PeerGone, vars, httpVars
<1>2. HttpTypeOK'
  <2>1. cancelled' \in BOOLEAN BY <1>1 DEF HttpTypeOK, TypeOK
  <2>2. conn' \in {"check", "run", "read", "handle", "close", "returned"} BY <1>1 DEF HttpTypeOK
  <2> QED BY <1>1, <2>1, <2>2 DEF HttpTypeOK, TypeOK, Kind
<1>3. StageInv' BY <1>1 DEF StageInv, GoRequest, Kind
<1>4. CallsInv' BY <1>1 DEF CallsInv, Kind
<1>5. PendingInv' /\ SentInv' BY <1>1, QuietStep DEF Pending
<1> QED BY <1>1, <1>2, <1>3, <1>4, <1>5 DEF Keeps

\* Steps of the loop and of the timer that give no answer.
LEMMA QuietCallStep ==
  ASSUME ServerInv, UNCHANGED httpVars, NextCall \/ StopTimer \/ TimerFires
  PROVE  ServerInv' /\ Keeps
<1> USE DEF ServerInv
<1>1. /\ UNCHANGED <<req, calls, resp, wrote, bytes, sent, web, conn, status>>
      /\ (cancelled' = cancelled \/ cancelled' = TRUE)
      /\ \/ /\ pc = "loop" /\ timer' = timer /\ cancelled' = cancelled
            /\ pc' = IF calls = <<>> \/ (req.batch /\ cancelled) THEN "stop" ELSE "method"
         \/ pc = "stop" /\ pc' = "write" /\ timer' = IF timer = "armed" THEN "off" ELSE timer
         \/ pc' = pc /\ timer = "armed" /\ timer' = "fired"
  BY DEF NextCall, StopTimer, TimerFires, httpVars
<1>2. HttpTypeOK'
  <2>1. cancelled' \in BOOLEAN BY <1>1 DEF HttpTypeOK, TypeOK
  <2>2. /\ pc' \in {"start", "loop", "method", "tooLarge", "stop", "write", "done"}
        /\ timer' \in {"off", "armed", "fired", "over"}
    BY <1>1 DEF HttpTypeOK, TypeOK
  <2> QED BY <1>1, <2>1, <2>2 DEF HttpTypeOK, TypeOK, Kind
<1>3. StageInv' BY <1>1 DEF StageInv, GoRequest, Kind
<1>4. CallsInv' BY <1>1 DEF CallsInv, Kind
<1>5. PendingInv' /\ SentInv' BY <1>1, QuietStep DEF Pending
<1> QED BY <1>1, <1>2, <1>3, <1>4, <1>5 DEF Keeps

\* An error for the request as a whole is a response.
LEMMA WholeResponse ==
  ASSUME NEW m \in Answerable \cup {0}, req \in Requests
  PROVE  Response(<<Answer(m, "error")>>)
<1>1. Answer(m, "error") \in Answers /\ Answer(m, "error").msg = m BY ReqType DEF Answer, Answers, Answerable
<1> QED BY <1>1 DEF Response, Distinct, MsgsOf

\* A body that cannot be read is answered as a whole.
LEMMA ReadErrorStep == ASSUME ServerInv, ReadError PROVE ServerInv' /\ Keeps
<1> USE DEF ServerInv
<1>1. /\ conn = "read" /\ conn' = "close" /\ (web.body # "json" \/ web.size > BodyLimit)
      /\ UNCHANGED <<req, pc, calls, resp, wrote, bytes, timer, cancelled, web, status>>
      /\ sent' = IF web.body = "empty" THEN sent ELSE Append(sent, <<Answer(0, "error")>>)
  BY DEF ReadError
<1>2. pc = "start" /\ sent = <<>> /\ timer = "off" BY <1>1 DEF StageInv
<1>3. /\ sent' \in Seq(Seq(Answers)) /\ Len(sent') <= 1
      /\ \A k \in DOMAIN sent' : Distinct(sent'[k]) /\ MsgsOf(sent'[k]) \subseteq Answerable' \cup {0}
  <2>1. CASE web.body = "empty" BY <1>1, <1>2, <2>1
  <2>2. CASE web.body # "empty"
    <3>1. sent' = <<<<Answer(0, "error")>>>> BY <1>1, <1>2, <2>2
    <3>2. Response(<<Answer(0, "error")>>) BY WholeResponse DEF HttpTypeOK, TypeOK
    <3> QED BY <1>1, <3>1, <3>2, FirstResponse
  <2> QED BY <2>1, <2>2
<1>4. ~GoRequest'
  <2>1. web.size \in Nat /\ BodyLimit \in Nat BY HttpAssumption DEF HttpTypeOK, WebRequests
  <2> QED BY <1>1, <2>1 DEF StageInv, GoRequest
<1>5. HttpTypeOK' BY <1>1, <1>3 DEF HttpTypeOK, TypeOK, Kind
<1>6. StageInv' BY <1>1, <1>2, <1>4 DEF StageInv
<1>7. CallsInv' BY <1>1 DEF CallsInv, Kind
<1>8. PendingInv' BY <1>1, <1>2 DEF PendingInv, Pending, Expected, Kind
<1>9. SentInv' BY <1>1, <1>2, <1>3 DEF SentInv, StageInv
<1> QED BY <1>1, <1>2, <1>5, <1>6, <1>7, <1>8, <1>9 DEF Keeps

\* So is an empty batch, or one with too many messages.
LEMMA RefuseBatchStep ==
  ASSUME ServerInv, conn = "handle", RefuseBatch, conn' = "close", UNCHANGED <<web, status>>
  PROVE  ServerInv' /\ Keeps
<1> USE DEF ServerInv
<1>1. /\ req.batch /\ pc' = "done" /\ UNCHANGED <<req, calls, resp, wrote, bytes, timer, cancelled>>
      /\ \E m \in Answerable \cup {0} : sent' = <<<<Answer(m, "error")>>>>
      /\ req.msgs = <<>> \/ ~WithinLimit
  <2>1. req \in Requests /\ ItemLimit \in Nat BY CallProcAssumption DEF HttpTypeOK, TypeOK
  <2>2. CASE req.msgs = <<>> /\ sent' = <<<<Answer(0, "error")>>>> BY <2>2 DEF RefuseBatch
  <2>3. ASSUME Len(req.msgs) > ItemLimit, ItemLimit # 0, NEW m \in 0..Len(req.msgs), FirstCall(m),
               sent' = <<<<Answer(m, "error")>>>>
        PROVE  ~WithinLimit /\ m \in Answerable \cup {0}
    <3>1. ~WithinLimit BY <2>1, <2>3, ReqType DEF WithinLimit
    <3>2. CASE m # 0
      <4>1. m \in DOMAIN req.msgs BY <2>1, <3>2, ReqType
      <4>2. Kind(m) = "call" BY <2>3, <3>2 DEF FirstCall
      <4> QED BY <3>1, <4>1, <4>2 DEF Answerable
    <3> QED BY <3>1, <3>2
  <2> QED BY <2>2, <2>3 DEF RefuseBatch
<1>2. PICK m \in Answerable \cup {0} : sent' = <<<<Answer(m, "error")>>>> BY <1>1
<1>3. pc = "start" /\ sent = <<>> /\ calls = <<>> /\ resp = <<>> /\ ~wrote /\ timer = "off" BY DEF StageInv
<1>4. Response(<<Answer(m, "error")>>) BY WholeResponse DEF HttpTypeOK, TypeOK
<1>5. /\ sent' \in Seq(Seq(Answers)) /\ Len(sent') <= 1 /\ sent' # <<>>
      /\ \A k \in DOMAIN sent' : Distinct(sent'[k]) /\ MsgsOf(sent'[k]) \subseteq Answerable' \cup {0}
  BY <1>1, <1>2, <1>4, FirstResponse
<1>6. HttpTypeOK' BY <1>1, <1>5 DEF HttpTypeOK, TypeOK, Kind
<1>7. StageInv' BY <1>1 DEF StageInv
<1>8. CallsInv' BY <1>1, <1>3 DEF CallsInv, Kind
<1>9. PendingInv' BY <1>1, <1>3 DEF PendingInv, Pending, Expected, Kind
<1>10. SentInv'
  <2>1. WithinLimit' => Expected' = {} BY <1>1 DEF WithinLimit, Expected
  <2> QED BY <1>1, <1>5, <2>1 DEF SentInv
<1> QED BY <1>1, <1>3, <1>6, <1>7, <1>8, <1>9, <1>10 DEF Keeps

\* At the start every message but the responses waits in calls.
LEMMA StartProcStep ==
  ASSUME ServerInv, conn = "handle", StartProc, conn' = "close", UNCHANGED <<web, status>>
  PROVE  ServerInv' /\ Keeps
<1> USE DEF ServerInv
<1> DEFINE S == {m \in DOMAIN req.msgs : Kind(m) # "response"}
<1>1. /\ calls' \in InOrder(S) /\ UNCHANGED <<req, resp, wrote, bytes, cancelled, sent>>
      /\ \/ calls' = <<>> /\ pc' = "done" /\ timer' = timer
         \/ calls' # <<>> /\ pc' = "loop" /\ timer' \in {"armed", "off"}
  BY DEF StartProc
<1>2. pc = "start" /\ sent = <<>> /\ resp = <<>> /\ ~wrote /\ timer = "off" BY DEF StageInv
<1>3. req \in Requests /\ S \subseteq DOMAIN req.msgs BY DEF HttpTypeOK, TypeOK
<1>4. Expected' = Expected /\ Expected \subseteq S BY <1>1 DEF Expected, Kind
<1>5. S' = S BY <1>1 DEF Kind
<1>6. ~req.batch /\ S # {} => Kind(1) # "response" BY <1>3, ReqType
<1>7. HttpTypeOK'
  <2>1. calls' \in Seq(S) BY <1>1, <1>3, InOrderProp
  <2> QED BY <1>1, <1>2, <1>5, <2>1 DEF HttpTypeOK, TypeOK
<1> HIDE DEF S
<1>8. /\ Range(calls') = S /\ \A i, j \in DOMAIN calls' : i < j => calls'[i] < calls'[j]
      /\ calls' \in Seq(S)
  BY <1>1, <1>3, InOrderProp
<1>9. calls' = <<>> <=> S = {}
  <2>1. CASE calls' = <<>> BY <1>8, <2>1 DEF Range
  <2>2. CASE calls' # <<>>
    <3>1. 1 \in DOMAIN calls' BY <1>8, <2>2
    <3> QED BY <1>8, <2>2, <3>1 DEF Range
  <2> QED BY <2>1, <2>2
<1>10. StageInv' BY <1>1 DEF StageInv
<1>11. CallsInv' BY <1>1, <1>2, <1>6, <1>8, <1>9 DEF CallsInv, Kind
<1>12. PendingInv'
  <2>1. MsgsOf(resp') = {} /\ Distinct(resp') BY <1>1, <1>2 DEF MsgsOf, Distinct
  <2>2. Pending' => pc' # "done" BY <1>1, <1>2 DEF Pending
  <2> QED BY <1>1, <1>2, <1>4, <1>8, <2>1, <2>2 DEF PendingInv
<1>13. SentInv'
  <2>1. pc' = "done" => Expected' = {} BY <1>1, <1>4, <1>9
  <2>2. DOMAIN sent' = {} /\ Len(sent') = 0 /\ sent' = <<>> BY <1>1, <1>2
  <2> QED BY <1>1, <1>2, <2>1, <2>2 DEF SentInv
<1> QED BY <1>1, <1>2, <1>7, <1>10, <1>11, <1>12, <1>13 DEF Keeps

\* The messages of calls are expected, unless they are notifications.
LEMMA CallsExpected ==
  ASSUME HttpTypeOK PROVE \A m \in Range(calls) : m \in DOMAIN req.msgs /\ (Kind(m) # "note" => m \in Expected)
<1>1. calls \in Seq({m \in DOMAIN req.msgs : Kind(m) # "response"}) /\ req \in Requests
  BY DEF HttpTypeOK, TypeOK
<1>2. \A m \in DOMAIN req.msgs : Kind(m) \in Kinds BY <1>1, ReqType DEF Kind
<1>3. \A m \in Range(calls) : m \in DOMAIN req.msgs /\ Kind(m) # "response" BY <1>1 DEF Range
<1> QED BY <1>2, <1>3 DEF Expected, Kinds

\* The answer of the call at the head joins the others as its call leaves calls.
LEMMA MethodReturnStep ==
  ASSUME ServerInv, UNCHANGED httpVars, MethodReturn PROVE ServerInv' /\ Keeps
<1> USE DEF ServerInv
<1> DEFINE h == Head(calls)
<1>1. PICK size \in Sizes, w \in {"result", "error"} :
        /\ resp' = IF Kind(h) = "note" THEN resp ELSE Append(resp, Answer(h, w))
        /\ bytes' = IF MaxSize # 0 /\ Kind(h) # "note" THEN bytes + size ELSE bytes
  BY DEF MethodReturn, pushResponse
<1>2. /\ pc = "method" /\ calls' = Tail(calls)
      /\ UNCHANGED <<req, wrote, timer, cancelled, sent, web, conn, status>>
      /\ \/ ~req.batch /\ pc' = "stop"
         \/ req.batch /\ pc' \in {"tooLarge", "loop"}
  BY DEF MethodReturn, pushResponse, httpVars
<1>3. calls # <<>> BY <1>2 DEF CallsInv
<1>4. /\ h \in DOMAIN req.msgs /\ Kind(h) # "response"
      /\ calls' \in Seq({m \in DOMAIN req.msgs : Kind(m) # "response"})
      /\ \A i, j \in DOMAIN calls' : i < j => calls'[i] < calls'[j]
      /\ Range(calls) = Range(calls') \cup {h} /\ h \notin Range(calls')
  BY <1>2, <1>3, CallsTail
<1>5. req \in Requests /\ resp \in Seq(Answers) /\ bytes \in Nat BY DEF HttpTypeOK, TypeOK
<1> HIDE DEF h
<1>6. /\ resp' \in Seq(Answers) /\ MsgsOf(resp') = MsgsOf(resp) \cup IF Kind(h) = "note" THEN {} ELSE {h}
      /\ Distinct(resp) /\ h \notin MsgsOf(resp) => Distinct(resp')
  <2>1. CASE Kind(h) = "note" BY <1>1, <1>5, <2>1
  <2>2. CASE Kind(h) # "note"
    <3>1. h \in Nat BY <1>4, <1>5, ReqType
    <3>2. resp' = Append(resp, Answer(h, w)) BY <1>1, <2>2
    <3>3. /\ Append(resp, Answer(h, w)) \in Seq(Answers)
          /\ MsgsOf(Append(resp, Answer(h, w))) = MsgsOf(resp) \cup {h}
          /\ Distinct(resp) /\ h \notin MsgsOf(resp) => Distinct(Append(resp, Answer(h, w)))
      BY <1>5, <3>1, AppendProp
    <3> QED BY <2>2, <3>2, <3>3
  <2> QED BY <2>1, <2>2
<1>7. bytes' \in Nat
  <2>1. size \in Nat BY CallProcAssumption
  <2> QED BY <1>1, <1>5, <2>1
<1>8. Expected' = Expected /\ Answerable' = Answerable /\ WithinLimit' = WithinLimit /\ \A m : Answered(m)' = Answered(m)
  BY <1>2 DEF Expected, Answerable, WithinLimit, Answered, Kind
<1>9. Kind(h) # "note" => h \in Expected BY <1>4, CallsExpected
<1>10. HttpTypeOK'
  <2>1. pc' \in {"start", "loop", "method", "tooLarge", "stop", "write", "done"} BY <1>2
  <2> QED BY <1>2, <1>4, <1>6, <1>7, <2>1 DEF HttpTypeOK, TypeOK, Kind
<1>11. StageInv' BY <1>2 DEF StageInv
<1>12. CallsInv'
  <2>1. ~req.batch => calls' = <<>>
    <3>1. SUFFICES ASSUME ~req.batch, calls' # <<>> PROVE FALSE
      OBVIOUS
    <3>2. DOMAIN req.msgs = {1} BY <1>5, <3>1, ReqType
    <3>3. h = 1 BY <1>4, <3>2
    <3>4. 1 \in DOMAIN calls' /\ calls'[1] \in DOMAIN req.msgs BY <1>4, <3>1
    <3> QED BY <1>4, <3>2, <3>3, <3>4 DEF Range
  <2> QED BY <1>2, <1>4, <2>1 DEF CallsInv, Kind
<1>13. PendingInv'
  <2>1. Pending' => Pending BY <1>2 DEF Pending
  <2>2. MsgsOf(resp') \subseteq Expected BY <1>6, <1>9 DEF PendingInv
  <2>3. ASSUME Pending
        PROVE  /\ Distinct(resp') /\ MsgsOf(resp') \cap Range(calls') = {}
               /\ Expected \subseteq MsgsOf(resp') \cup Range(calls')
    <3>1. /\ Distinct(resp) /\ MsgsOf(resp) \cap Range(calls) = {}
          /\ Expected \subseteq MsgsOf(resp) \cup Range(calls)
      BY <2>3 DEF PendingInv
    <3>2. h \notin MsgsOf(resp) BY <1>4, <3>1
    <3>3. Kind(h) = "note" => h \notin Expected BY DEF Expected
    <3> QED BY <1>4, <1>6, <3>1, <3>2, <3>3
  <2> QED BY <1>2, <1>8, <2>1, <2>2, <2>3 DEF PendingInv
<1>14. SentInv' BY <1>2, <1>8 DEF SentInv
<1> QED BY <1>2, <1>10, <1>11, <1>12, <1>13, <1>14 DEF Keeps

\* respondWithError, whoever calls it, answers what nobody has.
LEMMA RespondStep ==
  ASSUME ServerInv, NEW w \in {"timeout", "tooLarge"}, respondWithError(w), req' = req, calls' = calls,
         ~wrote => Pending
  PROVE  /\ resp' \in Seq(Answers) /\ MsgsOf(resp') \subseteq Expected
         /\ wrote' = TRUE /\ sent' \in Seq(Seq(Answers)) /\ Len(sent') <= 1
         /\ \A k \in DOMAIN sent' : Distinct(sent'[k]) /\ MsgsOf(sent'[k]) \subseteq Answerable' \cup {0}
         /\ sent # <<>> => sent' = sent
         /\ wrote => sent' = sent
         /\ ~wrote => \A m \in Expected : Answered(m)'
<1> USE DEF ServerInv
<1>1. /\ resp' \in Seq(Answers) /\ doWrite(resp')
      /\ MsgsOf(resp') = MsgsOf(resp) \cup {m \in Range(calls) : Kind(m) # "note"}
      /\ Distinct(resp) /\ MsgsOf(resp) \cap Range(calls) = {} => Distinct(resp')
  BY RespondProp
<1>2. MsgsOf(resp') \subseteq Expected BY <1>1, CallsExpected DEF PendingInv
<1>3. ASSUME ~wrote
      PROVE  sent = <<>> /\ Response(resp') /\ Expected \subseteq MsgsOf(resp')
  <2>1. /\ sent = <<>> /\ Distinct(resp) /\ MsgsOf(resp) \cap Range(calls) = {}
        /\ Expected \subseteq MsgsOf(resp) \cup Range(calls)
    BY <1>3 DEF PendingInv
  <2>2. Expected \subseteq MsgsOf(resp') BY <1>1, <2>1 DEF Expected
  <2>3. Response(resp') BY <1>1, <1>2, <2>1, ExpectedAnswerable DEF Response
  <2> QED BY <2>1, <2>2, <2>3
<1>4. wrote \in BOOLEAN BY DEF HttpTypeOK, TypeOK
<1>5. PICK r : r = resp' OBVIOUS
<1>6. /\ wrote' = TRUE /\ sent' \in Seq(Seq(Answers)) /\ Len(sent') <= 1
      /\ \A k \in DOMAIN sent' : Distinct(sent'[k]) /\ MsgsOf(sent'[k]) \subseteq Answerable' \cup {0}
      /\ sent # <<>> => sent' = sent
      /\ wrote => sent' = sent
      /\ ~wrote => \A m \in MsgsOf(r) : Answered(m)'
  <2>1. doWrite(r) /\ (Response(r) \/ wrote) /\ (~wrote => sent = <<>>) BY <1>1, <1>3, <1>4, <1>5
  <2> HIDE DEF ServerInv
  <2>2. HttpTypeOK /\ SentInv BY DEF ServerInv
  <2> QED BY <2>1, <2>2, doWriteProp
<1> QED BY <1>1, <1>2, <1>3, <1>5, <1>6

\* What is left to show of a step that has written.
LEMMA WrittenStep ==
  ASSUME ServerInv, req' = req, calls' = calls, wrote', Len(sent') <= 1, MsgsOf(resp') \subseteq Expected,
         \A k \in DOMAIN sent' : Distinct(sent'[k]) /\ MsgsOf(sent'[k]) \subseteq Answerable' \cup {0},
         wrote => sent' = sent, cancelled' = cancelled, (pc = "done") => (pc' = "done"),
         ~wrote => \A m \in Expected : Answered(m)' \/ (pc' = "done" /\ cancelled /\ m \in Range(calls))
  PROVE  PendingInv' /\ SentInv'
<1> USE DEF ServerInv
<1>1. Expected' = Expected /\ WithinLimit' = WithinLimit BY DEF Expected, WithinLimit, Kind
<1>2. ~Pending' BY DEF Pending
<1>3. PendingInv' BY <1>1, <1>2 DEF PendingInv
<1>4. ASSUME WithinLimit, NEW m \in Expected
      PROVE  Answered(m)' \/ (pc' = "done" /\ cancelled' /\ m \in Range(calls)')
  <2>1. CASE ~wrote BY <2>1
  <2>2. CASE wrote
    <3>1. Answered(m)' = Answered(m) BY <2>2 DEF Answered
    <3> QED BY <1>4, <2>2, <3>1 DEF SentInv
  <2> QED BY <2>1, <2>2
<1>5. SentInv' BY <1>1, <1>4 DEF SentInv
<1> QED BY <1>3, <1>5

\* When the responses are too large the calls that are left get an error each.
LEMMA TooLargeStep == ASSUME ServerInv, UNCHANGED httpVars, TooLarge PROVE ServerInv' /\ Keeps
<1> USE DEF ServerInv
<1>1. /\ pc = "tooLarge" /\ respondWithError("tooLarge") /\ pc' = "stop"
      /\ UNCHANGED <<req, calls, bytes, timer, cancelled, web, conn, status>>
  BY DEF TooLarge, httpVars
<1>2. /\ resp' \in Seq(Answers) /\ MsgsOf(resp') \subseteq Expected
      /\ wrote' = TRUE /\ sent' \in Seq(Seq(Answers)) /\ Len(sent') <= 1
      /\ \A k \in DOMAIN sent' : Distinct(sent'[k]) /\ MsgsOf(sent'[k]) \subseteq Answerable' \cup {0}
      /\ sent # <<>> => sent' = sent
      /\ wrote => sent' = sent
      /\ ~wrote => \A m \in Expected : Answered(m)'
  <2>1. ~wrote => Pending BY <1>1 DEF Pending
  <2> HIDE DEF ServerInv
  <2> QED BY <1>1, <2>1, RespondStep
<1>3. HttpTypeOK' BY <1>1, <1>2 DEF HttpTypeOK, TypeOK, Kind
<1>4. StageInv' BY <1>1, <1>2 DEF StageInv
<1>5. CallsInv' BY <1>1, <1>2 DEF CallsInv, Kind
<1>6. PendingInv' /\ SentInv'
  <2> HIDE DEF ServerInv
  <2> QED BY <1>1, <1>2, WrittenStep
<1> QED BY <1>1, <1>2, <1>3, <1>4, <1>5, <1>6 DEF Keeps

\* At the end of the loop the answers are written unless the timer has done so.
LEMMA WriteStep == ASSUME ServerInv, UNCHANGED httpVars, Write PROVE ServerInv' /\ Keeps
<1> USE DEF ServerInv
<1>1. /\ pc = "write" /\ pc' = "done"
      /\ IF req.batch \/ resp # <<>> THEN doWrite(resp) ELSE UNCHANGED <<wrote, sent>>
      /\ UNCHANGED <<req, calls, resp, bytes, timer, cancelled, web, conn, status>>
  BY DEF Write, httpVars
<1>2. wrote \in BOOLEAN /\ resp \in Seq(Answers) /\ (~wrote => Pending) BY <1>1 DEF HttpTypeOK, TypeOK, Pending
<1>3. Expected' = Expected /\ WithinLimit' = WithinLimit /\ Answerable' = Answerable
  BY <1>1 DEF Expected, WithinLimit, Answerable, Kind
<1>4. calls = <<>> => Range(calls) = {} BY DEF Range
<1>5. CASE req.batch \/ resp # <<>>
  <2>1. doWrite(resp) BY <1>1, <1>5
  <2>2. ~wrote => sent = <<>> /\ Response(resp) BY <1>2, ExpectedAnswerable DEF PendingInv, Response
  <2>3. /\ wrote' = TRUE /\ sent' \in Seq(Seq(Answers)) /\ Len(sent') <= 1
        /\ \A k \in DOMAIN sent' : Distinct(sent'[k]) /\ MsgsOf(sent'[k]) \subseteq Answerable' \cup {0}
        /\ sent # <<>> => sent' = sent
        /\ wrote => sent' = sent
        /\ ~wrote => \A m \in MsgsOf(resp) : Answered(m)'
    <3>1. HttpTypeOK /\ SentInv OBVIOUS
    <3> HIDE DEF ServerInv
    <3> QED BY <1>1, <1>2, <2>1, <2>2, <3>1, doWriteProp
  <2>4. ASSUME ~wrote, NEW m \in Expected PROVE Answered(m)' \/ (pc' = "done" /\ cancelled /\ m \in Range(calls))
    <3>1. m \in MsgsOf(resp) \cup Range(calls) BY <1>2, <2>4 DEF PendingInv
    <3>2. calls = <<>> \/ (req.batch /\ cancelled) BY <1>1, <2>4 DEF CallsInv
    <3> QED BY <1>1, <1>4, <2>3, <2>4, <3>1, <3>2
  <2>5. HttpTypeOK' BY <1>1, <2>3 DEF HttpTypeOK, TypeOK, Kind
  <2>6. StageInv' BY <1>1 DEF StageInv
  <2>7. CallsInv' BY <1>1, <2>3 DEF CallsInv, Kind
  <2>8. PendingInv' /\ SentInv'
    <3>1. MsgsOf(resp') \subseteq Expected BY <1>1 DEF PendingInv
    <3> HIDE DEF ServerInv
    <3> QED BY <1>1, <2>3, <2>4, <3>1, WrittenStep
  <2> QED BY <1>1, <2>3, <2>5, <2>6, <2>7, <2>8 DEF Keeps
<1>6. CASE ~req.batch /\ resp = <<>>
  <2>1. UNCHANGED <<wrote, sent>> /\ calls = <<>> BY <1>1, <1>6 DEF CallsInv
  <2>2. \A m : Answered(m)' = Answered(m) BY <2>1 DEF Answered
  <2>3. ASSUME WithinLimit, NEW m \in Expected PROVE Answered(m)
    <3>1. CASE wrote BY <1>1, <2>3, <3>1 DEF SentInv
    <3>2. CASE ~wrote
      <4>1. m \in MsgsOf(resp) \cup Range(calls) BY <1>2, <3>2 DEF PendingInv
      <4>2. MsgsOf(resp) = {} BY <1>6 DEF MsgsOf
      <4> QED BY <1>4, <2>1, <4>1, <4>2
    <3> QED BY <1>2, <3>1, <3>2
  <2>4. HttpTypeOK' BY <1>1, <2>1 DEF HttpTypeOK, TypeOK, Kind
  <2>5. StageInv' BY <1>1 DEF StageInv
  <2>6. CallsInv' BY <1>1, <2>1 DEF CallsInv, Kind
  <2>7. PendingInv'
    <3>1. Pending' => Pending BY <1>1, <2>1 DEF Pending
    <3> QED BY <1>1, <1>3, <1>6, <2>1, <3>1 DEF PendingInv
  <2>8. SentInv' BY <1>1, <1>3, <2>1, <2>2, <2>3 DEF SentInv
  <2> QED BY <1>1, <2>1, <2>4, <2>5, <2>6, <2>7, <2>8 DEF Keeps
<1> QED BY <1>5, <1>6

\* The timer answers for the calls that are left unless the loop has written.
LEMMA TimerRespondsStep == ASSUME ServerInv, TimerStep PROVE ServerInv' /\ Keeps
<1> USE DEF ServerInv
<1>1. /\ timer = "fired" /\ timer' = "over" /\ UNCHANGED <<req, pc, calls, bytes, cancelled, web, conn, status>>
      /\ IF req.batch THEN respondWithError("timeout")
         ELSE doWrite(<<Answer(1, "timeout")>>) /\ UNCHANGED resp
  BY DEF TimerStep, TimerResponds, httpVars
<1>2. wrote \in BOOLEAN /\ (~wrote => Pending) /\ pc # "start"
  BY <1>1 DEF HttpTypeOK, TypeOK, Pending, StageInv
<1>3. /\ resp' \in Seq(Answers) /\ MsgsOf(resp') \subseteq Expected
      /\ wrote' = TRUE /\ sent' \in Seq(Seq(Answers)) /\ Len(sent') <= 1
      /\ \A k \in DOMAIN sent' : Distinct(sent'[k]) /\ MsgsOf(sent'[k]) \subseteq Answerable' \cup {0}
      /\ sent # <<>> => sent' = sent
      /\ wrote => sent' = sent
      /\ ~wrote => \A m \in Expected : Answered(m)'
  <2>1. CASE req.batch
    <3>1. respondWithError("timeout") BY <1>1, <2>1
    <3> HIDE DEF ServerInv
    <3> QED BY <1>1, <1>2, <3>1, RespondStep
  <2>2. CASE ~req.batch
    <3>1. req \in Requests /\ DOMAIN req.msgs = {1} /\ Kind(1) \in Kinds \ {"response"}
      BY <1>1, <2>2, ReqType DEF HttpTypeOK, TypeOK, CallsInv, Kind
    <3>2. 1 \in Answerable BY <2>2, <3>1 DEF Answerable, Kinds
    <3>3. Expected \subseteq {1} BY <3>1 DEF Expected
    <3> DEFINE r == <<Answer(1, "timeout")>>
    <3>4. Response(r) /\ 1 \in MsgsOf(r)
      <4>1. Answer(1, "timeout") \in Answers /\ Answer(1, "timeout").msg = 1 BY DEF Answer, Answers
      <4> QED BY <3>2, <4>1 DEF Response, Distinct, MsgsOf
    <3>5. doWrite(r) /\ resp' = resp BY <1>1, <2>2
    <3> HIDE DEF r
    <3>6. ~wrote => sent = <<>> BY <1>2 DEF PendingInv
    <3>7. /\ wrote' = TRUE /\ sent' \in Seq(Seq(Answers)) /\ Len(sent') <= 1
          /\ \A k \in DOMAIN sent' : Distinct(sent'[k]) /\ MsgsOf(sent'[k]) \subseteq Answerable' \cup {0}
          /\ sent # <<>> => sent' = sent
          /\ wrote => sent' = sent
          /\ ~wrote => \A m \in MsgsOf(r) : Answered(m)'
      <4>1. HttpTypeOK /\ SentInv OBVIOUS
      <4> HIDE DEF ServerInv
      <4> QED BY <1>1, <3>4, <3>5, <3>6, <4>1, doWriteProp
    <3>8. resp' \in Seq(Answers) /\ MsgsOf(resp') \subseteq Expected BY <3>5 DEF HttpTypeOK, TypeOK, PendingInv
    <3> QED BY <3>3, <3>4, <3>7, <3>8
  <2> QED BY <2>1, <2>2
<1>4. HttpTypeOK' BY <1>1, <1>3 DEF HttpTypeOK, TypeOK, Kind
<1>5. StageInv' BY <1>1, <1>2 DEF StageInv
<1>6. CallsInv' BY <1>1, <1>3 DEF CallsInv, Kind
<1>7. PendingInv' /\ SentInv'
  <2> HIDE DEF ServerInv
  <2> QED BY <1>1, <1>3, WrittenStep
<1> QED BY <1>1, <1>3, <1>4, <1>5, <1>6, <1>7 DEF Keeps

-----------------------------------------------------------------------------
(* Steps of the client, and all together.                                  *)

\* The client's state stands for what the server keeps.
LEMMA ClientKept ==
  ASSUME Inv, HttpTypeOK', Keeps, UNCHANGED clVars, flushed' \in BOOLEAN PROVE CallTypeOK' /\ ClientInv'
<1> USE DEF Inv, clVars
<1>1. req' = req /\ web' = web /\ (sent # <<>> => sent' = sent) BY DEF Keeps
<1>2. GoRequest' = GoRequest /\ WithinLimit' = WithinLimit /\ Kind(1)' = Kind(1)
  BY <1>1 DEF GoRequest, WithinLimit, Kind
<1>3. CallTypeOK' BY <1>1 DEF CallTypeOK
<1>4. ASSUME cl = "returned", err = "nil", NEW m \in DOMAIN elems
      PROVE  IF elems[m] = "missing"
             THEN ~WithinLimit \/ (pc' = "done" /\ cancelled' /\ m \in Range(calls'))
             ELSE Answer(m, elems[m]) \in Range(sent'[1])
  <2>1. /\ sent # <<>>
        /\ IF elems[m] = "missing"
           THEN ~WithinLimit \/ (pc = "done" /\ cancelled /\ m \in Range(calls))
           ELSE Answer(m, elems[m]) \in Range(sent[1])
    BY <1>4 DEF ClientInv
  <2>2. sent' = sent BY <1>1, <2>1
  <2> QED BY <2>1, <2>2 DEF Keeps
<1>5. ClientInv' BY <1>1, <1>2, <1>4 DEF ClientInv
<1> QED BY <1>3, <1>5

\* A step of the caller leaves the server alone.
LEMMA ServerKept == ASSUME ServerInv, UNCHANGED allVars PROVE ServerInv'
<1>1. UNCHANGED <<req, pc, calls, resp, wrote, bytes, timer, cancelled, sent, web, conn, status>>
  BY DEF allVars, vars, httpVars
<1>2. /\ Expected' = Expected /\ Answerable' = Answerable /\ WithinLimit' = WithinLimit
      /\ GoRequest' = GoRequest /\ Pending' = Pending
      /\ \A m : Answered(m)' = Answered(m)
  BY <1>1 DEF Expected, Answerable, WithinLimit, GoRequest, Pending, Answered, Kind
<1>3. HttpTypeOK' BY <1>1 DEF ServerInv, HttpTypeOK, TypeOK, Kind
<1>4. StageInv' BY <1>1, <1>2 DEF ServerInv, StageInv
<1>5. CallsInv' BY <1>1 DEF ServerInv, CallsInv, Kind
<1>6. PendingInv' BY <1>1, <1>2 DEF ServerInv, PendingInv
<1>7. SentInv' BY <1>1, <1>2 DEF ServerInv, SentInv
<1> QED BY <1>3, <1>4, <1>5, <1>6, <1>7 DEF ServerInv

\* What BatchCallContext and CallContext make of the answers.
LEMMA AssignedProp ==
  ASSUME Inv, cl = "wait"
  PROVE  /\ sent # <<>> /\ Assigned \in [DOMAIN req.msgs -> {"missing", "result", "error", "timeout", "tooLarge"}]
         /\ \A m \in DOMAIN req.msgs :
              IF Assigned[m] = "missing"
              THEN ~WithinLimit \/ (pc = "done" /\ cancelled /\ m \in Range(calls))
              ELSE Answer(m, Assigned[m]) \in Range(sent[1])
<1> USE DEF Inv, ServerInv
<1>1. /\ GoRequest /\ sent # <<>> /\ body = sent[1] /\ Kind(1) # "note" BY DEF ClientInv
<1>2. /\ req \in Requests /\ sent \in Seq(Seq(Answers)) /\ body \in Seq(Answers) /\ DOMAIN elems = DOMAIN req.msgs
  BY DEF CallTypeOK, HttpTypeOK, TypeOK
<1>3. DOMAIN sent = {1}
  <2>1. Len(sent) <= 1 /\ Len(sent) \in Nat /\ Len(sent) # 0 /\ DOMAIN sent = 1..Len(sent) BY <1>1, <1>2 DEF SentInv
  <2>2. DOMAIN sent = 1..1 BY <2>1
  <2> QED BY <2>2
<1>4. Distinct(body) BY <1>1, <1>3 DEF SentInv
<1>5. ASSUME NEW m \in DOMAIN req.msgs PROVE m \in Expected
  <2>1. Kind(m) = "call" \/ (~req.batch /\ Kind(m) = "note") BY <1>1 DEF GoRequest
  <2>2. ~req.batch => m = 1 BY <1>2, ReqType
  <2>3. Kind(m) = "call" BY <1>1, <2>1, <2>2
  <2> QED BY <2>3 DEF Expected
<1>6. wrote \/ pc = "done"
  <2>1. pc # "start" BY <1>1 DEF StageInv
  <2> QED BY <1>1, <2>1 DEF SentInv
<1> DEFINE hits(m) == {k \in DOMAIN body : body[k].msg = m}
           first(m) == CHOOSE k \in hits(m) : \A j \in hits(m) : k <= j
<1>7. Assigned = [m \in DOMAIN req.msgs |-> IF hits(m) = {} THEN "missing" ELSE body[first(m)].what]
  BY <1>2 DEF Assigned
<1>8. ASSUME NEW m, hits(m) # {} PROVE first(m) \in DOMAIN body /\ body[first(m)].msg = m
  <2>1. PICK k \in hits(m) : TRUE BY <1>8
  <2>2. \A j \in hits(m) : j = k BY <1>4 DEF Distinct
  <2>3. k \in Int BY <1>2
  <2>4. k \in hits(m) /\ \A j \in hits(m) : k <= j BY <2>2, <2>3
  <2>5. first(m) \in hits(m) BY <2>4
  <2> QED BY <2>5
<1>9. ASSUME NEW m \in DOMAIN req.msgs, hits(m) = {}
      PROVE  ~WithinLimit \/ (pc = "done" /\ cancelled /\ m \in Range(calls))
  <2>1. ~Answered(m) BY <1>1, <1>3, <1>9 DEF Answered
  <2> QED BY <1>5, <1>6, <2>1 DEF SentInv
<1> HIDE DEF first
<1>10. ASSUME NEW m \in DOMAIN req.msgs, hits(m) # {}
       PROVE  /\ body[first(m)].what \in {"result", "error", "timeout", "tooLarge"}
              /\ Answer(m, body[first(m)].what) \in Range(sent[1])
  <2>1. first(m) \in DOMAIN body /\ body[first(m)].msg = m BY <1>8, <1>10
  <2>2. body[first(m)] \in Answers BY <1>2, <2>1
  <2>3. body[first(m)] = Answer(m, body[first(m)].what) BY <2>1, <2>2 DEF Answers, Answer
  <2> QED BY <1>1, <2>1, <2>2, <2>3 DEF Answers, Range
<1> HIDE DEF hits
<1> QED BY <1>1, <1>7, <1>9, <1>10

\* The steps of the caller.
LEMMA CallerStepInv ==
  ASSUME Inv, CallerStep \/ RequestFails \/ WaitCtx PROVE Inv'
<1> USE DEF Inv
<1>1. UNCHANGED allVars /\ flushed' = flushed
  BY DEF CallerStep, RequestFails, WaitCtx, StatusFails, DecodeFails, DecodeOk, Deliver, WaitOk
<1>2. ServerInv' BY <1>1, ServerKept
<1>3. UNCHANGED <<req, pc, calls, cancelled, sent, web>> /\ HttpTypeOK'
  BY <1>1, <1>2 DEF allVars, vars, httpVars, ServerInv
<1>4. GoRequest' = GoRequest /\ WithinLimit' = WithinLimit /\ Kind(1)' = Kind(1)
  BY <1>3 DEF GoRequest, WithinLimit, Kind
<1>5. CASE \E e \in {"request", "status", "decode", "ctx"} : cl # "none" /\ Returns(e) /\ UNCHANGED <<body, elems>>
  <2>1. PICK e \in {"request", "status", "decode", "ctx"} :
          cl # "none" /\ cl' = "returned" /\ err' = e /\ UNCHANGED <<body, elems>>
    BY <1>5 DEF Returns
  <2>2. CallTypeOK' BY <1>1, <1>3, <2>1 DEF CallTypeOK
  <2>3. ClientInv' BY <1>3, <1>4, <2>1 DEF ClientInv
  <2> QED BY <1>2, <2>2, <2>3
<1>6. CASE DecodeOk
  <2>1. cl = "do" /\ sent # <<>> /\ cl' = "deliver" /\ body' = sent[1] /\ UNCHANGED <<elems, err>>
    BY <1>6 DEF DecodeOk
  <2>2. sent[1] \in Seq(Answers)
    <3>1. sent \in Seq(Seq(Answers)) BY DEF ServerInv, HttpTypeOK, TypeOK
    <3> QED BY <2>1, <3>1
  <2>3. CallTypeOK' BY <1>1, <1>3, <2>1, <2>2 DEF CallTypeOK
  <2>4. ClientInv' BY <1>3, <1>4, <2>1 DEF ClientInv
  <2> QED BY <1>2, <2>3, <2>4
<1>7. CASE Deliver
  <2>1. cl = "deliver" /\ cl' = (IF Kind(1) = "note" THEN "stuck" ELSE "wait") /\ UNCHANGED <<body, elems, err>>
    BY <1>7 DEF Deliver
  <2>2. CallTypeOK' BY <1>1, <1>3, <2>1 DEF CallTypeOK
  <2>3. ClientInv' BY <1>3, <1>4, <2>1 DEF ClientInv
  <2> QED BY <1>2, <2>2, <2>3
<1>8. CASE WaitOk
  <2>1. cl = "wait" /\ elems' = Assigned /\ cl' = "returned" /\ err' = "nil" /\ body' = body
    BY <1>8 DEF WaitOk, Returns
  <2>2. /\ sent # <<>> /\ Assigned \in [DOMAIN req.msgs -> {"missing", "result", "error", "timeout", "tooLarge"}]
        /\ \A m \in DOMAIN req.msgs :
             IF Assigned[m] = "missing"
             THEN ~WithinLimit \/ (pc = "done" /\ cancelled /\ m \in Range(calls))
             ELSE Answer(m, Assigned[m]) \in Range(sent[1])
    BY <2>1, AssignedProp
  <2>3. CallTypeOK' BY <1>1, <1>3, <2>1, <2>2 DEF CallTypeOK
  <2>4. ClientInv' BY <1>3, <1>4, <2>1, <2>2 DEF ClientInv
  <2> QED BY <1>2, <2>3, <2>4
<1> QED BY <1>5, <1>6, <1>7, <1>8 DEF CallerStep, RequestFails, WaitCtx, StatusFails, DecodeFails

\* The steps of the server, its timer and its peer.
LEMMA ServerMove ==
  ASSUME ServerInv, flushed \in BOOLEAN,
         \/ ServerStep \/ ServerTimer \/ PeerLeaves
         \/ (MethodReturn \/ TimerFires) /\ UNCHANGED <<httpVars, clVars, flushed>>
  PROVE  ServerInv' /\ Keeps /\ UNCHANGED clVars /\ flushed' \in BOOLEAN
<1>1. UNCHANGED clVars /\ flushed' \in BOOLEAN
  BY DEF ServerStep, ServerTimer, PeerLeaves, FlushError, NoFlush
<1>2. \/ ServeHTTP \/ serveSingleRequest \/ ReadOk \/ ReadError \/ HandlerClose \/ PeerGone \/ TimerStep
      \/ conn = "handle" /\ (RefuseBatch \/ StartProc) /\ conn' = "close" /\ UNCHANGED <<web, status>>
      \/ UNCHANGED httpVars /\ (TooLarge \/ NextCall \/ StopTimer \/ Write \/ MethodReturn \/ TimerFires)
  BY DEF ServerStep, ServerTimer, PeerLeaves, HttpStep, Handle
<1> QED BY <1>1, <1>2, ServeHTTPStep, QuietHttpStep, QuietCallStep, ReadErrorStep, RefuseBatchStep, StartProcStep,
           MethodReturnStep, TooLargeStep, WriteStep, TimerRespondsStep

\* Before the request is sent the invariant holds.
LEMMA InitInv == CallInit => Inv
<1> SUFFICES ASSUME CallInit PROVE Inv
  OBVIOUS
<1>1. /\ req \in Requests /\ pc = "start" /\ calls = <<>> /\ resp = <<>> /\ wrote = FALSE /\ bytes = 0
      /\ timer = "off" /\ cancelled = FALSE /\ sent = <<>> /\ web \in Webs /\ conn = "check" /\ status = 0
      /\ cl = (IF GoRequest THEN "do" ELSE "none") /\ body = <<>>
      /\ elems = [m \in DOMAIN req.msgs |-> "unset"] /\ err = "nil" /\ flushed = FALSE
  BY DEF CallInit, HttpInit, Init
<1>2. HttpTypeOK
  <2>1. wrote \in BOOLEAN /\ cancelled \in BOOLEAN BY <1>1
  <2>2. calls \in Seq({m \in DOMAIN req.msgs : Kind(m) # "response"}) /\ resp \in Seq(Answers)
        /\ sent \in Seq(Seq(Answers))
    BY <1>1
  <2> QED BY <1>1, <2>1, <2>2 DEF HttpTypeOK, TypeOK
<1>3. CallTypeOK
  <2>1. flushed \in BOOLEAN /\ body \in Seq(Answers)
    <3>1. flushed \in BOOLEAN BY <1>1
    <3>2. body = <<>> BY <1>1
    <3> QED BY <3>1, <3>2, EmptySeq
  <2>2. elems \in [DOMAIN req.msgs -> {"unset", "missing", "result", "error", "timeout", "tooLarge"}] BY <1>1
  <2>3. cl \in {"none", "do", "deliver", "stuck", "wait", "returned"} BY <1>1
  <2> QED BY <1>1, <1>2, <2>1, <2>2, <2>3 DEF CallTypeOK
<1>4. StageInv BY <1>1 DEF StageInv
<1>5. CallsInv BY <1>1 DEF CallsInv
<1>6. PendingInv BY <1>1 DEF PendingInv, Pending, MsgsOf
<1>7. SentInv BY <1>1 DEF SentInv
<1>8. ClientInv BY <1>1 DEF ClientInv
<1> QED BY <1>2, <1>3, <1>4, <1>5, <1>6, <1>7, <1>8 DEF Inv, ServerInv

\* Every step of the server or of the caller keeps it.
LEMMA StepInv == Inv /\ [CallNext]_callVars => Inv'
<1> SUFFICES ASSUME Inv, [CallNext]_callVars PROVE Inv'
  OBVIOUS
<1>1. CASE \/ ServerStep \/ ServerTimer \/ PeerLeaves
           \/ (MethodReturn \/ TimerFires) /\ UNCHANGED <<httpVars, clVars, flushed>>
  <2>1. ServerInv' /\ Keeps /\ UNCHANGED clVars /\ flushed' \in BOOLEAN
    BY <1>1, ServerMove DEF Inv, CallTypeOK
  <2>2. HttpTypeOK' BY <2>1 DEF ServerInv
  <2>3. CallTypeOK' /\ ClientInv' BY <2>1, <2>2, ClientKept
  <2> QED BY <2>1, <2>3 DEF Inv
<1>2. CASE CallerStep \/ RequestFails \/ WaitCtx BY <1>2, CallerStepInv
<1>3. CASE UNCHANGED callVars
  <2>1. UNCHANGED allVars /\ UNCHANGED clVars /\ flushed' = flushed BY <1>3 DEF callVars
  <2>2. ServerInv' BY <2>1, ServerKept DEF Inv
  <2>3. Keeps BY <2>1 DEF Keeps, allVars, vars, httpVars
  <2>4. CallTypeOK' /\ ClientInv'
    <3>1. flushed' \in BOOLEAN BY <2>1 DEF Inv, CallTypeOK
    <3>2. HttpTypeOK' BY <2>2 DEF ServerInv
    <3> QED BY <2>1, <2>3, <3>1, <3>2, ClientKept
  <2> QED BY <2>2, <2>4 DEF Inv
<1> QED BY <1>1, <1>2, <1>3 DEF CallNext, CallDone

-----------------------------------------------------------------------------
(* The theorems.                                                           *)

\* Inv holds in every reachable state of every instance.
THEOREM Invariance == CallSpec => []Inv
  BY InitInv, StepInv, PTL DEF CallSpec

\* The variables keep their types: in particular what batchCallBuffer.calls holds
\* are messages that are not responses (handler.go:197-204), and every BatchElem
\* of the client has one of the outcomes (client.go:430-464).
THEOREM TypeCorrect == CallSpec => []CallTypeOK
<1>1. Inv => CallTypeOK BY DEF Inv
<1> QED BY Invariance, <1>1, PTL

\* Whoever of the call goroutine, the size check and the timer comes first
\* (handler.go:121-178), a request gets at most one response, with at most one
\* answer for each of its calls.
THEOREM AnsweredOnceHolds == CallSpec => []AnsweredOnce
<1>1. Inv => AnsweredOnce
  <2> SUFFICES ASSUME Inv PROVE AnsweredOnce
    OBVIOUS
  <2> USE DEF Inv, ServerInv
  <2>1. Len(sent) <= 1 BY DEF SentInv
  <2>2. ASSUME NEW k \in DOMAIN sent PROVE IsInjective([i \in DOMAIN sent[k] |-> sent[k][i].msg])
    BY DEF SentInv, Distinct, IsInjective
  <2>3. ASSUME NEW m \in DOMAIN req.msgs, Kind(m) = "response" \/ (req.batch /\ Kind(m) = "note"), Answered(m)
        PROVE  FALSE
    <3>1. PICK k \in DOMAIN sent : m \in MsgsOf(sent[k]) BY <2>3 DEF Answered, MsgsOf
    <3>2. m \in Answerable \cup {0} BY <3>1 DEF SentInv
    <3>3. m # 0 BY <2>3, ReqType DEF HttpTypeOK, TypeOK
    <3> QED BY <2>3, <3>2, <3>3 DEF Answerable
  <2> QED BY <2>1, <2>2, <2>3 DEF AnsweredOnce
<1> QED BY Invariance, <1>1, PTL

\* While its context has not ended, a request that the call goroutine has finished
\* has an answer for every call, be it that the response grew too large
\* (handler.go:197-260).
THEOREM CompleteInTimeHolds == CallSpec => []CompleteInTime
<1>1. Inv => CompleteInTime BY DEF Inv, ServerInv, SentInv, CompleteInTime
<1> QED BY Invariance, <1>1, PTL

\* A caller that gets no error has the outcome of its own call in every BatchElem
\* (client.go:430-464), or a mark that it is missing, and then the server's time
\* was over or the batch too long.
THEOREM OwnOutcomeHolds == CallSpec => []OwnOutcome
<1>1. Inv => OwnOutcome BY DEF Inv, ClientInv, OwnOutcome
<1> QED BY Invariance, <1>1, PTL

\* ServeHTTP does not return while something is still to be written (http.go:309-337,
\* handler.go:325-330), with the one exception of a notification.
THEOREM NoWriteAfterReturnHolds == CallSpec => NoWriteAfterReturn
<1>1. ASSUME Inv, [CallNext]_callVars, sent' # sent, conn = "returned" PROVE ~req.batch /\ Kind(1) = "note"
  <2> USE DEF Inv, ServerInv
  <2>1. pc \in {"start", "done"} BY <1>1 DEF StageInv
  <2>2. TimerStep
    BY <1>1, <2>1 DEF CallNext, ServerStep, ServerTimer, HttpStep, ServeHTTP, serveSingleRequest, ReadOk, ReadError,
       Handle, HandlerClose, TooLarge, NextCall, StopTimer, Write, MethodReturn, TimerFires, PeerLeaves, PeerGone,
       CallerStep, RequestFails, WaitCtx, StatusFails, DecodeFails, DecodeOk, Deliver, WaitOk, CallDone, callVars,
       allVars, vars
  <2>3. timer = "fired" /\ pc = "done" BY <1>1, <2>1, <2>2 DEF TimerStep, TimerResponds, StageInv
  <2>4. ~wrote
    <3>1. \E r : doWrite(r) BY <2>2 DEF TimerStep, TimerResponds, respondWithError
    <3> QED BY <1>1, <3>1 DEF doWrite
  <2>5. ~req.batch /\ resp = <<>> /\ Expected \subseteq MsgsOf(resp) \cup Range(calls)
    BY <1>1, <2>3, <2>4 DEF PendingInv, Pending
  <2>6. calls = <<>> /\ Kind(1) # "response" BY <1>1, <2>3, <2>5 DEF CallsInv
  <2>7. 1 \notin Expected BY <2>5, <2>6 DEF MsgsOf, Range
  <2>8. 1 \in DOMAIN req.msgs /\ Kind(1) \in Kinds
    <3>1. req \in Requests BY <1>1 DEF HttpTypeOK, TypeOK
    <3>2. req.msgs \in Seq(Kinds) /\ DOMAIN req.msgs = {1} BY <2>5, <3>1, ReqType
    <3> QED BY <3>2 DEF Kind
  <2> QED BY <2>5, <2>6, <2>7, <2>8 DEF Expected, Kinds
<1>2. Inv /\ [CallNext]_callVars =>
        [sent' # sent => conn # "returned" \/ (~req.batch /\ Kind(1) = "note")]_allVars
  BY <1>1
<1> QED BY Invariance, <1>2, PTL DEF CallSpec, NoWriteAfterReturn

=============================================================================
