---------------------------- MODULE InvokeProofs ----------------------------
(***************************************************************************)
(* Proofs about BlockNumbers and Invoke: what is read is what was written, *)
(* for every width of the integers, and so for the arguments of every      *)
(* call; the order of the middlewares, for lists of every length; and that *)
(* registering takes nothing away.                                         *)
(***************************************************************************)
EXTENDS Invoke, SequenceTheorems, TLAPS

Types == {"num", "opt", "bnh"}

\* A caller's argument on the wire.
WireText(v) == IF v[1] = "raw" THEN v[2] ELSE Marshal(v)

-----------------------------------------------------------------------------
(* Writing and reading.                                                    *)

\* A number is written as a name, in hexadecimal or, if it has neither form, as a
\* text that cannot be read.
LEMMA Written ==
  ASSUME NEW n \in BlockNumber
  PROVE  \/ \E t \in Tags : TagNumber[t] = n /\ String(n) = <<"tag", t>>
         \/ n > 0 /\ String(n) = <<"hex", n>>
         \/ n < SafeBlockNumber /\ String(n) = <<"junk">>
<1> USE BlockNumbersAssumption
<1>1. CASE \E t \in Tags : TagNumber[t] = n
  <2> DEFINE t == CHOOSE t \in Tags : TagNumber[t] = n
  <2>1. t \in Tags /\ TagNumber[t] = n BY <1>1
  <2>2. String(n) = <<"tag", t>> BY <1>1 DEF String
  <2> QED BY <2>1, <2>2
<1>2. CASE ~\E t \in Tags : TagNumber[t] = n
  <2>1. n \notin {-4, -3, -2, -1, 0}
    BY <1>2 DEF Tags, TagNumber, SafeBlockNumber, FinalizedBlockNumber, LatestBlockNumber,
                PendingBlockNumber, EarliestBlockNumber
  <2>2. n \in Int BY DEF BlockNumber
  <2>3. n > 0 \/ n < SafeBlockNumber BY <2>1, <2>2 DEF SafeBlockNumber
  <2>4. String(n) = IF n < 0 THEN <<"junk">> ELSE <<"hex", n>> BY <1>2 DEF String
  <2> QED BY <2>2, <2>3, <2>4 DEF SafeBlockNumber
<1> QED BY <1>1, <1>2

\* Reading gives back what String wrote, or fails where String had no text.
LEMMA ReadNumber ==
  ASSUME NEW n \in BlockNumber
  PROVE  /\ UnmarshalNumber(String(n)) = IF n < SafeBlockNumber THEN Bad ELSE n
         /\ String(n)[1] \in {"tag", "hex", "junk"}
<1> USE BlockNumbersAssumption
<1>1. n \in Int /\ n <= MaxInt64 /\ n # Bad BY DEF BlockNumber
<1>2. CASE \E t \in Tags : TagNumber[t] = n /\ String(n) = <<"tag", t>>
  <2>1. PICK t \in Tags : TagNumber[t] = n /\ String(n) = <<"tag", t>> BY <1>2
  <2>2. n >= SafeBlockNumber
    BY <2>1 DEF Tags, TagNumber, SafeBlockNumber, FinalizedBlockNumber, LatestBlockNumber,
                PendingBlockNumber, EarliestBlockNumber
  <2>3. UnmarshalNumber(String(n)) = n BY <2>1 DEF UnmarshalNumber
  <2> QED BY <1>1, <2>1, <2>2, <2>3 DEF SafeBlockNumber
<1>3. CASE n > 0 /\ String(n) = <<"hex", n>>
  <2>1. DecodeUint64(String(n)) = n BY <1>1, <1>3 DEF DecodeUint64, MaxUint64
  <2>2. UnmarshalNumber(String(n)) = n BY <1>1, <1>3, <2>1 DEF UnmarshalNumber
  <2> QED BY <1>1, <1>3, <2>2 DEF SafeBlockNumber
<1>4. CASE n < SafeBlockNumber /\ String(n) = <<"junk">>
  <2>1. DecodeUint64(String(n)) = Bad BY <1>4 DEF DecodeUint64
  <2> QED BY <1>4, <2>1 DEF UnmarshalNumber
<1> QED BY <1>2, <1>3, <1>4, Written

\* Other texts are no numbers, nor is a number that does not fit.
LEMMA ReadOther ==
  /\ \A t : t[1] \notin {"tag", "hex"} => UnmarshalNumber(t) = Bad
  /\ \A k \in Nat : UnmarshalNumber(<<"hex", k>>) \in {k, Bad}
<1> USE BlockNumbersAssumption
<1>1. ASSUME NEW t, t[1] \notin {"tag", "hex"} PROVE UnmarshalNumber(t) = Bad
  <2>1. DecodeUint64(t) = Bad BY <1>1 DEF DecodeUint64
  <2> QED BY <1>1, <2>1 DEF UnmarshalNumber
<1>2. ASSUME NEW k \in Nat PROVE UnmarshalNumber(<<"hex", k>>) \in {k, Bad}
  <2>1. DecodeUint64(<<"hex", k>>) \in {k, Bad} BY DEF DecodeUint64
  <2> QED BY <2>1 DEF UnmarshalNumber
<1> QED BY <1>1, <1>2

\* A number of Go, read as each type of parameter.
LEMMA DecodeNum ==
  ASSUME NEW n \in BlockNumber, NEW type \in Types
  PROVE  LET got == Decode(type, WireText(<<"num", n>>))
         IN IF n < SafeBlockNumber THEN got = Bad
            ELSE got = IF type = "bnh" THEN <<"bnh", n, Nil, FALSE>> ELSE <<"num", n>>
<1> USE BlockNumbersAssumption
<1>1. WireText(<<"num", n>>) = String(n) BY DEF WireText, Marshal
<1>2. n # Bad BY DEF BlockNumber
<1>3. CASE type = "bnh"
  <2>1. Decode(type, String(n)) = UnmarshalNumberOrHash(String(n)) BY <1>3 DEF Decode
  <2>2. UnmarshalNumberOrHash(String(n)) =
          IF UnmarshalNumber(String(n)) = Bad THEN Bad ELSE <<"bnh", UnmarshalNumber(String(n)), Nil, FALSE>>
    BY ReadNumber DEF UnmarshalNumberOrHash
  <2> QED BY <1>1, <1>2, <1>3, <2>1, <2>2, ReadNumber
<1>4. CASE type # "bnh"
  <2>1. Decode(type, String(n)) = IF UnmarshalNumber(String(n)) = Bad THEN Bad ELSE <<"num", UnmarshalNumber(String(n))>>
    BY <1>4, ReadNumber DEF Decode
  <2> QED BY <1>1, <1>2, <1>4, <2>1, ReadNumber
<1> QED BY <1>3, <1>4

\* A number or hash of Go: an object on the wire.
LEMMA DecodeOr ==
  ASSUME NEW n \in BlockNumber \cup {Nil}, NEW h \in Hashes \cup {Nil}, NEW c \in BOOLEAN,
         NEW type \in Types
  PROVE  LET got == Decode(type, WireText(<<"bnh", n, h, c>>))
         IN IF type = "bnh" /\ (n = Nil \/ (h = Nil /\ ~(n < SafeBlockNumber)))
            THEN got = <<"bnh", n, h, c>> ELSE got = Bad
<1> USE BlockNumbersAssumption
<1> DEFINE num == IF n = Nil THEN Nil ELSE String(n)
           hash == IF h = Nil THEN Nil ELSE <<"hash", h>>
           t == <<"obj", num, hash, c>>
<1>1. WireText(<<"bnh", n, h, c>>) = t BY DEF WireText, Marshal
<1>2. t[1] = "obj" /\ t[2] = num /\ t[3] = hash /\ t[4] = c OBVIOUS
<1>3. num = Nil <=> n = Nil OBVIOUS
<1>4. hash = Nil <=> h = Nil OBVIOUS
<1>5. n # Nil => n \in BlockNumber /\ n # Bad /\ UnmarshalNumber(num) = IF n < SafeBlockNumber THEN Bad ELSE n
  BY ReadNumber DEF BlockNumber
<1>6. h # Nil => hash[1] = "hash" /\ hash[2] = h /\ h # Bad OBVIOUS
<1>7. CASE type # "bnh"
  <2>1. UnmarshalNumber(t) = Bad BY <1>2, ReadOther
  <2>2. Decode(type, t) = Bad BY <1>2, <1>7, <2>1 DEF Decode
  <2> QED BY <1>1, <1>7, <2>2
<1>8. CASE type = "bnh"
  <2> DEFINE num2 == IF t[2] = Nil THEN Nil ELSE UnmarshalNumber(t[2])
             hash2 == IF t[3] = Nil THEN Nil ELSE IF t[3][1] = "hash" THEN t[3][2] ELSE Bad
  <2>1. Decode(type, t) = IF num2 = Bad \/ hash2 = Bad \/ (num2 # Nil /\ hash2 # Nil) THEN Bad
                          ELSE <<"bnh", num2, hash2, t[4]>>
    BY <1>2, <1>8 DEF Decode, UnmarshalNumberOrHash
  <2>2. num2 = IF n = Nil THEN Nil ELSE IF n < SafeBlockNumber THEN Bad ELSE n BY <1>2, <1>3, <1>5
  <2>3. hash2 = h BY <1>2, <1>4, <1>6
  <2> HIDE DEF num2, hash2, t
  <2> QED BY <1>1, <1>2, <1>5, <1>6, <1>8, <2>1, <2>2, <2>3
<1> QED BY <1>7, <1>8

\* The nil pointer, and the texts of other clients.
LEMMA DecodeRest ==
  ASSUME NEW type \in Types
  PROVE  /\ Decode(type, WireText(<<"nil">>)) =
              IF type = "bnh" THEN <<"bnh", Nil, Nil, FALSE>> ELSE IF type = "opt" THEN <<"nil">> ELSE Bad
         /\ Decode(type, WireText(<<"raw", <<"junk">>>>)) = Bad
         /\ \A h \in Hashes : Decode(type, WireText(<<"raw", <<"hash", h>>>>)) =
              IF type = "bnh" THEN <<"bnh", Nil, h, FALSE>> ELSE Bad
         /\ \A k \in Nat : Decode(type, WireText(<<"raw", <<"hex", k>>>>)) \in
              {Bad, IF type = "bnh" THEN <<"bnh", k, Nil, FALSE>> ELSE <<"num", k>>}
<1> USE BlockNumbersAssumption DEF Types
<1>1. Decode(type, WireText(<<"nil">>)) =
        IF type = "bnh" THEN <<"bnh", Nil, Nil, FALSE>> ELSE IF type = "opt" THEN <<"nil">> ELSE Bad
  <2>1. WireText(<<"nil">>) = <<"null">> BY DEF WireText, Marshal
  <2>2. UnmarshalNumber(<<"null">>) = Bad BY ReadOther
  <2> QED BY <2>1, <2>2 DEF Decode, UnmarshalNumberOrHash
<1>2. Decode(type, WireText(<<"raw", <<"junk">>>>)) = Bad
  <2>1. WireText(<<"raw", <<"junk">>>>) = <<"junk">> BY DEF WireText
  <2>2. UnmarshalNumber(<<"junk">>) = Bad BY ReadOther
  <2> DEFINE t == <<"junk">>
  <2>3. CASE type = "bnh"
    <3>1. Decode(type, t) = UnmarshalNumberOrHash(t) BY <2>3 DEF Decode
    <3>2. UnmarshalNumberOrHash(t) = Bad
      BY <2>2 DEF UnmarshalNumberOrHash
    <3> QED BY <2>1, <2>2, <2>3, <3>1, <3>2
  <2>4. CASE type # "bnh"
    <3>1. Decode(type, t) = IF UnmarshalNumber(t) = Bad THEN Bad ELSE <<"num", UnmarshalNumber(t)>>
      BY <2>4 DEF Decode
    <3> QED BY <2>1, <2>2, <2>4, <3>1
  <2> QED BY <2>3, <2>4
<1>3. ASSUME NEW h \in Hashes
      PROVE  Decode(type, WireText(<<"raw", <<"hash", h>>>>)) = IF type = "bnh" THEN <<"bnh", Nil, h, FALSE>> ELSE Bad
  <2>1. WireText(<<"raw", <<"hash", h>>>>) = <<"hash", h>> BY DEF WireText
  <2>2. UnmarshalNumber(<<"hash", h>>) = Bad BY ReadOther
  <2> DEFINE t == <<"hash", h>>
  <2>3. CASE type = "bnh"
    <3>1. Decode(type, t) = UnmarshalNumberOrHash(t) BY <2>3 DEF Decode
    <3>2. UnmarshalNumberOrHash(t) = <<"bnh", Nil, h, FALSE>>
      BY <2>2 DEF UnmarshalNumberOrHash
    <3> QED BY <2>1, <2>2, <2>3, <3>1, <3>2
  <2>4. CASE type # "bnh"
    <3>1. Decode(type, t) = IF UnmarshalNumber(t) = Bad THEN Bad ELSE <<"num", UnmarshalNumber(t)>>
      BY <2>4 DEF Decode
    <3> QED BY <2>1, <2>2, <2>4, <3>1
  <2> QED BY <2>3, <2>4
<1>4. ASSUME NEW k \in Nat
      PROVE  Decode(type, WireText(<<"raw", <<"hex", k>>>>)) \in
               {Bad, IF type = "bnh" THEN <<"bnh", k, Nil, FALSE>> ELSE <<"num", k>>}
  <2>1. WireText(<<"raw", <<"hex", k>>>>) = <<"hex", k>> BY DEF WireText
  <2>2. UnmarshalNumber(<<"hex", k>>) \in {k, Bad} BY ReadOther
  <2> DEFINE t == <<"hex", k>>
  <2>3. CASE type = "bnh"
    <3>1. Decode(type, t) = UnmarshalNumberOrHash(t) BY <2>3 DEF Decode
    <3>2. UnmarshalNumberOrHash(t) = IF UnmarshalNumber(t) = Bad THEN Bad ELSE <<"bnh", UnmarshalNumber(t), Nil, FALSE>>
      BY <2>2 DEF UnmarshalNumberOrHash
    <3> QED BY <2>1, <2>2, <2>3, <3>1, <3>2
  <2>4. CASE type # "bnh"
    <3>1. Decode(type, t) = IF UnmarshalNumber(t) = Bad THEN Bad ELSE <<"num", UnmarshalNumber(t)>>
      BY <2>4 DEF Decode
    <3> QED BY <2>1, <2>2, <2>4, <3>1
  <2> QED BY <2>3, <2>4
<1> QED BY <1>1, <1>2, <1>3, <1>4

\* The forms that an argument can have.
LEMMA ArgumentForms ==
  ASSUME NEW v, IsArgument(v)
  PROVE  \/ v = <<"nil">> \/ v = <<"raw", <<"junk">>>>
         \/ \E n \in BlockNumber : v = <<"num", n>>
         \/ \E n \in BlockNumber \cup {Nil}, h \in Hashes \cup {Nil}, c \in BOOLEAN : v = <<"bnh", n, h, c>>
         \/ \E h \in Hashes : v = <<"raw", <<"hash", h>>>>
         \/ \E k \in Nat : v = <<"raw", <<"hex", k>>>>
  BY DEF IsArgument, Values

\* A number or hash is no error.
LEMMA OrIsValue ==
  ASSUME NEW n \in BlockNumber \cup {Nil}, NEW h \in Hashes \cup {Nil}, NEW c \in BOOLEAN
  PROVE  <<"bnh", n, h, c>> # Bad
  BY BlockNumbersAssumption DEF Values

\* What is accepted names the block that was meant, and what is refused was not
\* acceptable.
LEMMA DecodeRight ==
  ASSUME NEW v, IsArgument(v), NEW type \in Types
  PROVE  LET got == Decode(type, WireText(v))
         IN IF got = Bad THEN ~Acceptable(type, v) ELSE SameBlock(v, got)
<1> USE BlockNumbersAssumption
<1> DEFINE got == Decode(type, WireText(v))
<1>1. CASE v = <<"nil">>
  <2>1. got = IF type = "bnh" THEN <<"bnh", Nil, Nil, FALSE>> ELSE IF type = "opt" THEN <<"nil">> ELSE Bad
    BY <1>1, DecodeRest
  <2>2. <<"bnh", Nil, Nil, FALSE>> # Bad BY OrIsValue
  <2>3. <<"nil">> # Bad BY DEF Values
  <2> QED BY <1>1, <2>1, <2>2, <2>3 DEF Acceptable, SameBlock
<1>2. CASE v = <<"raw", <<"junk">>>>
  <2>1. got = Bad BY <1>2, DecodeRest
  <2> QED BY <1>2, <2>1 DEF Acceptable
<1>3. ASSUME NEW n \in BlockNumber, v = <<"num", n>>
      PROVE  IF got = Bad THEN ~Acceptable(type, v) ELSE SameBlock(v, got)
  <2>1. IF n < SafeBlockNumber THEN got = Bad
        ELSE got = IF type = "bnh" THEN <<"bnh", n, Nil, FALSE>> ELSE <<"num", n>>
    BY <1>3, DecodeNum
  <2>2. <<"bnh", n, Nil, FALSE>> # Bad BY OrIsValue
  <2>3. n \in Int /\ <<"num", n>> # Bad BY DEF BlockNumber, Values
  <2>4. CASE n < SafeBlockNumber
    <3>1. ~(n >= SafeBlockNumber) BY <2>3, <2>4 DEF SafeBlockNumber
    <3> QED BY <1>3, <2>1, <2>4, <3>1 DEF Acceptable
  <2>5. CASE ~(n < SafeBlockNumber) BY <1>3, <2>1, <2>2, <2>3, <2>5 DEF SameBlock
  <2> QED BY <2>4, <2>5
<1>4. ASSUME NEW n \in BlockNumber \cup {Nil}, NEW h \in Hashes \cup {Nil}, NEW c \in BOOLEAN, v = <<"bnh", n, h, c>>
      PROVE  IF got = Bad THEN ~Acceptable(type, v) ELSE SameBlock(v, got)
  <2>1. IF type = "bnh" /\ (n = Nil \/ (h = Nil /\ ~(n < SafeBlockNumber))) THEN got = v ELSE got = Bad
    BY <1>4, DecodeOr
  <2>2. v \in Values BY <1>4 DEF Values
  <2>3. n # Nil => n \in Int BY DEF BlockNumber
  <2>4. n # Nil /\ n >= SafeBlockNumber => ~(n < SafeBlockNumber) BY <2>3 DEF SafeBlockNumber
  <2>5. CASE got = Bad
    <3>1. ~(type = "bnh" /\ (n = Nil \/ (h = Nil /\ ~(n < SafeBlockNumber)))) BY <2>1, <2>2, <2>5
    <3> QED BY <1>4, <2>4, <2>5, <3>1 DEF Acceptable
  <2>6. CASE got # Bad BY <2>1, <2>6 DEF SameBlock
  <2> QED BY <2>5, <2>6
<1>5. ASSUME NEW h \in Hashes, v = <<"raw", <<"hash", h>>>>
      PROVE  IF got = Bad THEN ~Acceptable(type, v) ELSE SameBlock(v, got)
  <2>1. got = IF type = "bnh" THEN <<"bnh", Nil, h, FALSE>> ELSE Bad BY <1>5, DecodeRest
  <2> QED BY <1>5, <2>1 DEF Acceptable, SameBlock
<1>6. ASSUME NEW k \in Nat, v = <<"raw", <<"hex", k>>>>
      PROVE  IF got = Bad THEN ~Acceptable(type, v) ELSE SameBlock(v, got)
  <2>1. got \in {Bad, IF type = "bnh" THEN <<"bnh", k, Nil, FALSE>> ELSE <<"num", k>>} BY <1>6, DecodeRest
  <2> QED BY <1>6, <2>1 DEF Acceptable, SameBlock
<1> QED BY <1>1, <1>2, <1>3, <1>4, <1>5, <1>6, ArgumentForms

-----------------------------------------------------------------------------
(* The inductive invariant.                                                *)

Typed ==
  /\ todo \subseteq DOMAIN Receivers
  /\ list \in Seq(Middlewares) /\ len \in Nat /\ setting \in Lists \cup {Nil}
  /\ pc \in [Goroutines -> {"idle", "run", "wrap", "done"}]
  /\ index \in [Goroutines -> Nat] /\ chain \in [Goroutines -> Seq(Middlewares)]
  /\ given \in [Goroutines -> Seq(Middlewares)] /\ raced \subseteq Goroutines /\ crashed \in BOOLEAN
  /\ DOMAIN trace = Goroutines /\ DOMAIN msg = Goroutines /\ DOMAIN callb = Goroutines
  /\ DOMAIN args = Goroutines /\ DOMAIN answer = Goroutines

\* What is in a table under some name is a method that a registered receiver has
\* under that name; left are the receivers that are not.
Known(left, n, cb) ==
  \E r \in DOMAIN Receivers \ left : n \in DOMAIN Receivers[r] /\ cb.argTypes = Receivers[r][n].ins

AllKnown(left, all) ==
  \A s \in DOMAIN all :
    /\ \A n \in DOMAIN all[s].callbacks : Known(left, n, all[s].callbacks[n])
    /\ \A n \in DOMAIN all[s].subscriptions : Known(left, n, all[s].subscriptions[n])

ServicesInv == AllKnown(todo, services)

\* Between two calls of SetMiddlewares the words of the slice agree.
SliceInv == setting = Nil => len = Len(list)

\* A call that has not overlapped with SetMiddlewares reads one list throughout: the
\* chain is the part of it behind the index.
ChainInv ==
  \A g \in Goroutines :
    /\ pc[g] \in {"idle", "run"} => chain[g] = <<>>
    /\ pc[g] # "done" => trace[g] = <<>>
    /\ g \notin raced /\ pc[g] = "wrap" =>
         /\ index[g] > 0 => setting = Nil /\ list = given[g]
         /\ Len(given[g]) = index[g] + Len(chain[g])
         /\ \A i \in 1 .. Len(chain[g]) : chain[g][i] = given[g][index[g] + i]

\* The arguments were parsed before the middlewares run and do not change.
ArgsInv ==
  \A g \in Goroutines :
    /\ pc[g] \in {"run", "wrap"} => Meant(msg[g], callb[g].argTypes, args[g])
    /\ pc[g] # "done" => answer[g] # "invalidParams"

Inv ==
  /\ Typed /\ ServicesInv /\ SliceInv /\ ChainInv /\ ArgsInv
  /\ MiddlewareOrder /\ MeantBlock /\ ValidAccepted

\* A callback that handleCall or handleSubscribe finds is known.
LEMMA LookupKnown ==
  ASSUME ServicesInv, NEW s, NEW n
  PROVE  /\ Lookup(Service(services, s).callbacks, n) # Nil => Known(todo, n, Lookup(Service(services, s).callbacks, n))
         /\ Lookup(Service(services, s).subscriptions, n) # Nil => Known(todo, n, Lookup(Service(services, s).subscriptions, n))
<1>1. CASE s \in DOMAIN services
  <2>1. Service(services, s) = services[s] BY <1>1 DEF Service
  <2> QED BY <1>1, <2>1 DEF ServicesInv, AllKnown, Lookup
<1>2. CASE s \notin DOMAIN services
  <2>1. Service(services, s).callbacks = <<>> /\ Service(services, s).subscriptions = <<>>
    BY <1>2 DEF Service, NoService
  <2> QED BY <2>1 DEF Lookup
<1> QED BY <1>1, <1>2

\* A call is refused before anything runs, for its arguments only if they are
\* invalid for a known method, or goes on with valid ones.
Refused(g, m) ==
  \E err :
    /\ answer' = [answer EXCEPT ![g] = err] /\ pc' = [pc EXCEPT ![g] = "done"] /\ UNCHANGED <<callb, args>>
    /\ err = "invalidParams" /\ m.params = "array" /\ m.method # Nil =>
         \E cb : Known(todo, m.method, cb) /\ invalidArguments(m, cb.argTypes)

Taken(g, m) ==
  \E cb :
    /\ Known(todo, m.method, cb) /\ ~invalidArguments(m, cb.argTypes)
    /\ callb' = [callb EXCEPT ![g] = cb]
    /\ args' = [args EXCEPT ![g] = parsePositionalArguments(m, cb.argTypes)]
    /\ pc' = [pc EXCEPT ![g] = "run"] /\ UNCHANGED answer

\* A callback that is known decides which of the two it is.
LEMMA FoundEither ==
  ASSUME NEW g, NEW m, NEW cb, Known(todo, m.method, cb), Found(g, cb, m)
  PROVE  Refused(g, m) \/ Taken(g, m)
<1>1. CASE invalidArguments(m, cb.argTypes)
  BY <1>1 DEF Found, Fail, Refused
<1>2. CASE ~invalidArguments(m, cb.argTypes)
  BY <1>2 DEF Found, Taken
<1> QED BY <1>1, <1>2

\* handleCall and handleSubscribe have no third way.
LEMMA Handled ==
  ASSUME ServicesInv, NEW g, NEW m, HandleCallMsg(g, m)
  PROVE  Refused(g, m) \/ Taken(g, m)
<1>1. \A err : Fail(g, err) /\ err # "invalidParams" => Refused(g, m) BY DEF Fail, Refused
<1>2. CASE HandleCall(g, m)
  <2> DEFINE cb == IF m.service = Nil THEN Nil ELSE Lookup(Service(services, m.service).callbacks, m.method)
  <2>1. IF cb = Nil THEN Fail(g, "methodNotFound") ELSE Found(g, cb, m) BY <1>2 DEF HandleCall
  <2>2. cb # Nil => Known(todo, m.method, cb) BY LookupKnown
  <2> HIDE DEF cb
  <2> QED BY <1>1, <2>1, <2>2, FoundEither
<1>3. CASE HandleSubscribe(g, m)
  <2> DEFINE cb == Lookup(Service(services, m.service).subscriptions, m.method)
  <2>1. IF ~m.allow THEN Fail(g, "unsupported")
        ELSE IF m.params # "array" \/ m.method = Nil THEN Fail(g, "invalidParams")
        ELSE IF cb = Nil THEN Fail(g, "subscriptionNotFound")
        ELSE Found(g, cb, m)
    BY <1>3 DEF HandleSubscribe
  <2>2. cb # Nil => Known(todo, m.method, cb) BY LookupKnown
  <2>3. (m.params # "array" \/ m.method = Nil) /\ Fail(g, "invalidParams") => Refused(g, m) BY DEF Fail, Refused
  <2> HIDE DEF cb
  <2> QED BY <1>1, <2>1, <2>2, <2>3, FoundEither
<1> QED BY <1>2, <1>3 DEF HandleCallMsg

\* The types of a known method are those of parameters.
LEMMA KnownTypes ==
  ASSUME NEW n, NEW cb, Known(todo, n, cb) PROVE cb.argTypes \in Seq(Types)
<1>1. PICK r \in DOMAIN Receivers : n \in DOMAIN Receivers[r] /\ cb.argTypes = Receivers[r][n].ins BY DEF Known
<1> QED BY <1>1, InvokeAssumption DEF Types

\* What parsePositionalArguments accepts is what was meant.
LEMMA ParsedMeant ==
  ASSUME NEW g \in Goroutines, NEW m \in Messages[g], NEW types \in Seq(Types), ~invalidArguments(m, types)
  PROVE  Meant(m, types, parsePositionalArguments(m, types))
<1> DEFINE sent == IF m.params = "array" THEN m.args ELSE <<>>
           got == parsePositionalArguments(m, types)
<1>1. m.args \in Seq({m.args[i] : i \in DOMAIN m.args}) /\ \A i \in DOMAIN m.args : IsArgument(m.args[i])
  BY InvokeAssumption
<1>2. Params(m) = [i \in DOMAIN sent |-> WireText(sent[i])]
  <2>1. CASE m.params = "array" BY <2>1 DEF Params, Wire, WireText
  <2>2. CASE m.params # "array" BY <2>2 DEF Params
  <2> QED BY <2>1, <2>2
<1>3. Len(sent) \in Nat /\ DOMAIN sent = 1 .. Len(sent) /\ \A i \in DOMAIN sent : IsArgument(sent[i])
  BY <1>1
<1>4. Len(Params(m)) = Len(sent) BY <1>2, <1>3
<1>5. Len(types) \in Nat /\ DOMAIN types = 1 .. Len(types) /\ \A i \in DOMAIN types : types[i] \in Types
  OBVIOUS
<1>6. got = [i \in DOMAIN types |-> IF i <= Len(sent) THEN Decode(types[i], Params(m)[i]) ELSE <<"nil">>]
  BY <1>4 DEF parsePositionalArguments
<1>7. /\ ~(Len(sent) > Len(types))
      /\ \A i \in DOMAIN types : IF i <= Len(sent) THEN Decode(types[i], Params(m)[i]) # Bad ELSE types[i] = "opt"
  BY <1>4 DEF invalidArguments
<1>8. ASSUME NEW i \in DOMAIN types
      PROVE  IF i <= Len(sent) THEN SameBlock(sent[i], got[i]) ELSE got[i] = <<"nil">> /\ types[i] = "opt"
  <2>1. CASE i <= Len(sent)
    <3>1. i \in DOMAIN sent BY <1>3, <1>5, <2>1
    <3>2. got[i] = Decode(types[i], WireText(sent[i])) BY <1>2, <1>6, <2>1, <3>1
    <3>3. got[i] # Bad BY <1>2, <1>7, <2>1, <3>1, <3>2
    <3> QED BY <1>3, <1>5, <2>1, <3>1, <3>2, <3>3, DecodeRight
  <2>2. CASE ~(i <= Len(sent)) BY <1>6, <1>7, <2>2
  <2> QED BY <2>1, <2>2
<1>9. Len(sent) <= Len(types) BY <1>3, <1>5, <1>7
<1>10. DOMAIN got = DOMAIN types BY <1>6
<1> HIDE DEF sent, got
<1>11. /\ DOMAIN got = DOMAIN types /\ Len(sent) <= Len(types)
       /\ \A i \in DOMAIN types : IF i <= Len(sent) THEN SameBlock(sent[i], got[i])
                                  ELSE got[i] = <<"nil">> /\ types[i] = "opt"
  BY <1>8, <1>9, <1>10
<1> QED BY <1>11 DEF Meant, sent, got

\* What it refuses was too long, incomplete or not acceptable.
LEMMA RefusedRightly ==
  ASSUME NEW g \in Goroutines, NEW m \in Messages[g], NEW types \in Seq(Types),
         m.params = "array", invalidArguments(m, types)
  PROVE  \/ Len(m.args) > Len(types)
         \/ \E i \in DOMAIN types :
              IF i > Len(m.args) THEN types[i] # "opt" ELSE ~Acceptable(types[i], m.args[i])
<1>1. m.args \in Seq({m.args[i] : i \in DOMAIN m.args}) /\ \A i \in DOMAIN m.args : IsArgument(m.args[i])
  BY InvokeAssumption
<1>2. Params(m) = [i \in DOMAIN m.args |-> WireText(m.args[i])] BY DEF Params, Wire, WireText
<1>3. Len(m.args) \in Nat /\ DOMAIN m.args = 1 .. Len(m.args) BY <1>1
<1>4. Len(Params(m)) = Len(m.args) BY <1>2, <1>3
<1>5. CASE Len(m.args) > Len(types) BY <1>5
<1>6. CASE \E i \in DOMAIN types :
             IF i <= Len(m.args) THEN Decode(types[i], Params(m)[i]) = Bad ELSE types[i] # "opt"
  <2>1. PICK i \in DOMAIN types :
          IF i <= Len(m.args) THEN Decode(types[i], Params(m)[i]) = Bad ELSE types[i] # "opt"
    BY <1>6
  <2>2. i \in Nat /\ i >= 1 /\ types[i] \in Types OBVIOUS
  <2>3. CASE i <= Len(m.args)
    <3>1. i \in DOMAIN m.args BY <1>3, <2>2, <2>3
    <3>2. Decode(types[i], WireText(m.args[i])) = Bad BY <1>2, <2>1, <2>3, <3>1
    <3>3. ~Acceptable(types[i], m.args[i]) BY <1>1, <2>2, <3>1, <3>2, DecodeRight
    <3>4. ~(i > Len(m.args)) BY <1>3, <2>2, <2>3
    <3> QED BY <3>3, <3>4
  <2>4. CASE ~(i <= Len(m.args))
    <3>1. i > Len(m.args) BY <1>3, <2>2, <2>4
    <3> QED BY <2>1, <2>4, <3>1
  <2> QED BY <2>3, <2>4
<1> QED BY <1>4, <1>5, <1>6 DEF invalidArguments

-----------------------------------------------------------------------------
(* Each part is preserved by every action.                                 *)

\* The variables stay within their types.
LEMMA TypedStep == ASSUME Typed, ServicesInv, [Next]_vars PROVE Typed'
<1> USE InvokeAssumption DEF registry, locals
<1>1. ASSUME NEW r \in todo, NEW name \in Names, RegisterName(r, name) PROVE Typed'
  BY <1>1 DEF RegisterName, Typed
<1>2. ASSUME NEW new \in Lists, SetMiddlewares(new) PROVE Typed'
  <2>1. new \in Seq(Middlewares) /\ Len(new) \in Nat OBVIOUS
  <2>2. InRunMethod \subseteq Goroutines BY DEF InRunMethod
  <2> QED BY <1>2, <2>1, <2>2 DEF SetMiddlewares, Typed
<1>3. ASSUME SetMiddlewaresDone PROVE Typed'
  <2>1. setting \in Seq(Middlewares) BY <1>3 DEF SetMiddlewaresDone, Typed
  <2>2. Len(setting) \in Nat BY <2>1
  <2>3. InRunMethod \subseteq Goroutines BY DEF InRunMethod
  <2> QED BY <1>3, <2>1, <2>2, <2>3 DEF SetMiddlewaresDone, Typed
<1>4. ASSUME NEW g \in Goroutines, NEW m \in Messages[g], HandleCallMsg(g, m) PROVE Typed'
  <2>1. msg' = [msg EXCEPT ![g] = m] /\ UNCHANGED <<registry, index, chain, trace, crashed, given, raced>>
    BY <1>4 DEF HandleCallMsg
  <2>2. Refused(g, m) \/ Taken(g, m) BY <1>4, Handled
  <2>3. /\ pc' \in [Goroutines -> {"idle", "run", "wrap", "done"}]
        /\ DOMAIN callb' = Goroutines /\ DOMAIN args' = Goroutines /\ DOMAIN answer' = Goroutines
    <3>1. CASE Refused(g, m) BY <3>1 DEF Refused, Typed
    <3>2. CASE Taken(g, m) BY <3>2 DEF Taken, Typed
    <3> QED BY <2>2, <3>1, <3>2
  <2> QED BY <2>1, <2>3 DEF Typed
<1>5. ASSUME NEW g \in Goroutines, RunMethod(g) PROVE Typed'
  BY <1>5 DEF RunMethod, Typed
<1>6. ASSUME NEW g \in Goroutines, Wrap(g) PROVE Typed'
  <2>1. index' \in [Goroutines -> Nat] /\ crashed' \in BOOLEAN
    <3>1. index[g] - 1 \in Nat BY <1>6 DEF Wrap, Typed
    <3>2. index' = index \/ index' = [index EXCEPT ![g] = index[g] - 1] BY <1>6 DEF Wrap
    <3>3. crashed' = TRUE \/ crashed' = crashed BY <1>6 DEF Wrap
    <3> QED BY <3>1, <3>2, <3>3 DEF Typed
  <2>2. chain' \in [Goroutines -> Seq(Middlewares)]
    <3>1. CASE index[g] > len \/ index[g] > Len(list) BY <1>6, <3>1 DEF Wrap, Typed
    <3>2. CASE ~(index[g] > len \/ index[g] > Len(list))
      <4>1. index[g] \in 1 .. Len(list) BY <1>6, <3>2 DEF Wrap, Typed
      <4>2. list[index[g]] \in Middlewares BY <4>1 DEF Typed
      <4>3. <<list[index[g]]>> \o chain[g] \in Seq(Middlewares) BY <4>2, ConcatProperties DEF Typed
      <4> QED BY <1>6, <3>2, <4>3 DEF Wrap, Typed
    <3> QED BY <3>1, <3>2
  <2> QED BY <1>6, <2>1, <2>2 DEF Wrap, Typed
<1>7. ASSUME NEW g \in Goroutines, Call(g) PROVE Typed'
  <2>1. DOMAIN trace' = Goroutines /\ DOMAIN answer' = Goroutines /\ crashed' \in BOOLEAN
    BY <1>7 DEF Call, Typed
  <2> QED BY <1>7, <2>1 DEF Call, Typed
<1>8. CASE UNCHANGED vars BY <1>8 DEF vars, Typed
<1> QED BY <1>1, <1>2, <1>3, <1>4, <1>5, <1>6, <1>7, <1>8 DEF Next

\* Registering stores callbacks of the receiver beside those of others.
LEMMA RegisteredKnown ==
  ASSUME NEW all, NEW left, NEW name, NEW r \in DOMAIN Receivers, AllKnown(left, all)
  PROVE  /\ AllKnown(left \ {r}, all) /\ AllKnown(left \ {r}, Registered(all, name, r))
<1> DEFINE now == left \ {r}
           cbs == suitableCallbacks(r)
           old == Service(all, name)
           new == [callbacks |-> Stored(Subset(cbs, FALSE), old.callbacks),
                   subscriptions |-> Stored(Subset(cbs, TRUE), old.subscriptions)]
           after == Registered(all, name, r)
<1>1. r \in DOMAIN Receivers \ now OBVIOUS
<1>2. \A n, cb : Known(left, n, cb) => Known(now, n, cb) BY DEF Known
<1> HIDE DEF now
<1>3. AllKnown(now, all) BY <1>2 DEF AllKnown
<1>4. ASSUME NEW n \in DOMAIN cbs PROVE Known(now, n, cbs[n])
  <2>1. n \in DOMAIN Receivers[r] /\ cbs[n] = newCallback(r, n) /\ newCallback(r, n) # Nil
    BY <1>4 DEF suitableCallbacks
  <2>2. newCallback(r, n).argTypes = Receivers[r][n].ins BY <2>1 DEF newCallback
  <2> QED BY <1>1, <2>1, <2>2 DEF Known
<1>5. \A b : \A n \in DOMAIN Subset(cbs, b) : Known(now, n, Subset(cbs, b)[n]) BY <1>4 DEF Subset
<1>6. /\ \A n \in DOMAIN old.callbacks : Known(now, n, old.callbacks[n])
      /\ \A n \in DOMAIN old.subscriptions : Known(now, n, old.subscriptions[n])
  BY <1>3 DEF Service, NoService, AllKnown
<1>7. /\ \A n \in DOMAIN new.callbacks : Known(now, n, new.callbacks[n])
      /\ \A n \in DOMAIN new.subscriptions : Known(now, n, new.subscriptions[n])
  <2> HIDE DEF cbs, old
  <2> QED BY <1>5, <1>6 DEF Stored
<1>8. after = Stored([s \in {name} |-> new], all) BY DEF Registered
<1> HIDE DEF new, after
<1>9. /\ DOMAIN after = DOMAIN all \cup {name} /\ after[name] = new
      /\ \A s \in DOMAIN all \ {name} : after[s] = all[s]
  BY <1>8 DEF Stored
<1>10. AllKnown(now, after) BY <1>3, <1>7, <1>9 DEF AllKnown
<1> QED BY <1>3, <1>10 DEF now, after

\* What can be looked up is a method of a registered receiver.
LEMMA ServicesInvStep == ASSUME ServicesInv, Typed, [Next]_vars PROVE ServicesInv'
<1>1. ASSUME NEW r \in todo, NEW name \in Names, RegisterName(r, name) PROVE ServicesInv'
  <2>1. todo' = todo \ {r} /\ r \in DOMAIN Receivers BY <1>1 DEF RegisterName, Typed
  <2>2. AllKnown(todo \ {r}, services) /\ AllKnown(todo \ {r}, Registered(services, name, r))
    BY <2>1, RegisteredKnown DEF ServicesInv
  <2>3. services' = services \/ services' = Registered(services, name, r) BY <1>1 DEF RegisterName
  <2> QED BY <2>1, <2>2, <2>3 DEF ServicesInv
<1>2. CASE UNCHANGED <<services, todo>> BY <1>2 DEF ServicesInv
<1> QED BY <1>1, <1>2
  DEF Next, vars, registry, locals, SetMiddlewares, SetMiddlewaresDone, HandleCallMsg, RunMethod, Wrap, Call

\* SetMiddlewares is done when both words are stored.
LEMMA SliceInvStep == ASSUME SliceInv, Typed, [Next]_vars PROVE SliceInv'
<1>1. ASSUME NEW new \in Lists, SetMiddlewares(new) PROVE SliceInv'
  BY <1>1, InvokeAssumption DEF SetMiddlewares, SliceInv
<1>2. CASE SetMiddlewaresDone BY <1>2 DEF SetMiddlewaresDone, SliceInv
<1>3. CASE UNCHANGED <<setting, len, list>> BY <1>3 DEF SliceInv
<1> QED BY <1>1, <1>2, <1>3 DEF Next, vars, registry, locals, RegisterName, HandleCallMsg, RunMethod, Wrap, Call

\* The chain grows from the end of the list while nobody replaces it.
LEMMA ChainInvStep == ASSUME ChainInv, SliceInv, Typed, ServicesInv, [Next]_vars PROVE ChainInv'
<1> USE InvokeAssumption DEF registry, locals
<1>1. ASSUME NEW r \in todo, NEW name \in Names, RegisterName(r, name) PROVE ChainInv'
  BY <1>1 DEF RegisterName, ChainInv
<1>2. ASSUME UNCHANGED <<pc, chain, trace, given, index>>, raced' = raced \cup InRunMethod PROVE ChainInv'
  BY <1>2 DEF ChainInv, InRunMethod
<1>3. ASSUME NEW g \in Goroutines, NEW m \in Messages[g], HandleCallMsg(g, m) PROVE ChainInv'
  <2>1. pc[g] = "idle" /\ UNCHANGED <<registry, index, chain, trace, crashed, given, raced>>
    BY <1>3 DEF HandleCallMsg
  <2>2. pc' = [pc EXCEPT ![g] = "done"] \/ pc' = [pc EXCEPT ![g] = "run"]
    BY <1>3, Handled DEF Refused, Taken
  <2> QED BY <2>1, <2>2 DEF ChainInv, Typed
<1>4. ASSUME NEW g \in Goroutines, RunMethod(g) PROVE ChainInv'
  <2>1. /\ pc[g] = "run" /\ index' = [index EXCEPT ![g] = len] /\ pc' = [pc EXCEPT ![g] = "wrap"]
        /\ given' = [given EXCEPT ![g] = list] /\ UNCHANGED <<registry, chain, trace>>
        /\ raced \subseteq raced' /\ (g \notin raced' => setting = Nil)
    BY <1>4 DEF RunMethod
  <2>2. chain[g] = <<>> /\ trace[g] = <<>> /\ Len(chain[g]) = 0 BY <2>1 DEF ChainInv
  <2>3. g \notin raced' => len = Len(list) BY <2>1 DEF SliceInv
  <2>4. len \in Nat BY DEF Typed
  <2>5. ASSUME NEW h \in Goroutines, h # g
        PROVE pc'[h] = pc[h] /\ index'[h] = index[h] /\ given'[h] = given[h]
    BY <2>1, <2>5 DEF Typed
  <2>6. pc'[g] = "wrap" /\ index'[g] = len /\ given'[g] = list BY <2>1 DEF Typed
  <2>7. g \notin raced' => /\ index'[g] > 0 => setting' = Nil /\ list' = given'[g]
                           /\ Len(given'[g]) = index'[g] + Len(chain'[g])
                           /\ \A i \in 1 .. Len(chain'[g]) : chain'[g][i] = given'[g][index'[g] + i]
    BY <2>1, <2>2, <2>3, <2>4, <2>6
  <2> QED BY <2>1, <2>2, <2>5, <2>6, <2>7 DEF ChainInv
<1>5. ASSUME NEW g \in Goroutines, Wrap(g) PROVE ChainInv'
  <2>1. /\ pc[g] = "wrap" /\ index[g] > 0
        /\ UNCHANGED <<registry, pc, trace, given, raced>>
    BY <1>5 DEF Wrap
  <2>2. CASE index[g] > len \/ index[g] > Len(list)
    BY <1>5, <2>1, <2>2 DEF Wrap, ChainInv
  <2>3. CASE ~(index[g] > len \/ index[g] > Len(list))
    <3> DEFINE k == index[g]
    <3>1. /\ chain' = [chain EXCEPT ![g] = <<list[k]>> \o @] /\ index' = [index EXCEPT ![g] = k - 1]
      BY <1>5, <2>3 DEF Wrap
    <3>2. k \in Nat /\ k > 0 /\ chain[g] \in Seq(Middlewares) /\ Len(chain[g]) \in Nat BY <2>1 DEF Typed
    <3>3. list[k] \in Middlewares
      <4>1. k \in 1 .. Len(list) BY <2>1, <2>3 DEF Typed
      <4> QED BY <4>1 DEF Typed
    <3>4. chain'[g] = <<list[k]>> \o chain[g] /\ index'[g] = k - 1 BY <3>1 DEF Typed
    <3>5. Len(chain'[g]) = Len(chain[g]) + 1 BY <3>2, <3>3, <3>4
    <3>6. \A i \in 1 .. Len(chain[g]) + 1 : chain'[g][i] = IF i = 1 THEN list[k] ELSE chain[g][i - 1]
      BY <3>2, <3>3, <3>4
    <3>7. ASSUME NEW h \in Goroutines, h # g PROVE chain'[h] = chain[h] /\ index'[h] = index[h]
      BY <3>1, <3>7 DEF Typed
    <3>8. ASSUME g \notin raced
          PROVE  /\ setting = Nil /\ list = given[g]
                 /\ Len(given[g]) = (k - 1) + Len(chain'[g])
                 /\ \A i \in 1 .. Len(chain'[g]) : chain'[g][i] = given[g][(k - 1) + i]
      <4>1. /\ setting = Nil /\ list = given[g] /\ Len(given[g]) = k + Len(chain[g])
            /\ \A i \in 1 .. Len(chain[g]) : chain[g][i] = given[g][k + i]
        BY <2>1, <3>8 DEF ChainInv
      <4>2. Len(given[g]) = (k - 1) + Len(chain'[g]) BY <3>2, <3>5, <4>1
      <4>3. ASSUME NEW i \in 1 .. Len(chain'[g]) PROVE chain'[g][i] = given[g][(k - 1) + i]
        <5>1. i \in 1 .. Len(chain[g]) + 1 BY <3>5
        <5>2. CASE i = 1
          <6>1. (k - 1) + i = k BY <3>2, <5>2
          <6> QED BY <3>6, <4>1, <5>1, <5>2, <6>1
        <5>3. CASE i # 1
          <6>1. i - 1 \in 1 .. Len(chain[g]) /\ k + (i - 1) = (k - 1) + i BY <3>2, <5>1, <5>3
          <6>2. chain'[g][i] = chain[g][i - 1] BY <3>6, <5>1, <5>3
          <6> QED BY <4>1, <6>1, <6>2
        <5> QED BY <5>2, <5>3
      <4> QED BY <4>1, <4>2, <4>3
    <3>9. pc[g] \notin {"idle", "run"} /\ trace[g] = <<>> BY <2>1 DEF ChainInv
    <3> HIDE DEF k
    <3> SUFFICES ASSUME NEW h \in Goroutines
                 PROVE  /\ pc'[h] \in {"idle", "run"} => chain'[h] = <<>>
                        /\ pc'[h] # "done" => trace'[h] = <<>>
                        /\ h \notin raced' /\ pc'[h] = "wrap" =>
                             /\ index'[h] > 0 => setting' = Nil /\ list' = given'[h]
                             /\ Len(given'[h]) = index'[h] + Len(chain'[h])
                             /\ \A i \in 1 .. Len(chain'[h]) : chain'[h][i] = given'[h][index'[h] + i]
      BY DEF ChainInv
    <3>10. CASE h = g BY <2>1, <3>4, <3>8, <3>9, <3>10
    <3>11. CASE h # g BY <2>1, <3>7, <3>11 DEF ChainInv
    <3> QED BY <3>10, <3>11
  <2> QED BY <2>2, <2>3
<1>6. ASSUME NEW g \in Goroutines, Call(g) PROVE ChainInv'
  <2>1. pc' = [pc EXCEPT ![g] = "done"] /\ UNCHANGED <<registry, locals, given, raced>> BY <1>6 DEF Call
  <2>2. ASSUME NEW h \in Goroutines, h # g PROVE pc'[h] = pc[h] /\ trace'[h] = trace[h]
    BY <1>6, <2>2 DEF Call, Typed
  <2>3. pc'[g] = "done" BY <2>1 DEF Typed
  <2> QED BY <2>1, <2>2, <2>3 DEF ChainInv
<1>7. CASE UNCHANGED vars BY <1>7 DEF vars, ChainInv
<1>8. (\E new \in Lists : SetMiddlewares(new)) \/ SetMiddlewaresDone
         => UNCHANGED <<pc, chain, trace, given, index>> /\ raced' = raced \cup InRunMethod
  BY DEF SetMiddlewares, SetMiddlewaresDone
<1> QED BY <1>1, <1>2, <1>3, <1>4, <1>5, <1>6, <1>7, <1>8 DEF Next

\* What a goroutine has parsed stays, and stays what was meant.
LEMMA ArgsInvStep == ASSUME ArgsInv, Typed, ServicesInv, [Next]_vars PROVE ArgsInv'
<1>1. ASSUME NEW g \in Goroutines, NEW m \in Messages[g], HandleCallMsg(g, m) PROVE ArgsInv'
  <2>1. msg' = [msg EXCEPT ![g] = m] BY <1>1 DEF HandleCallMsg
  <2>2. CASE Refused(g, m)
    <3>1. pc'[g] = "done" /\ \A h \in Goroutines \ {g} :
            pc'[h] = pc[h] /\ msg'[h] = msg[h] /\ callb'[h] = callb[h] /\ args'[h] = args[h] /\ answer'[h] = answer[h]
      BY <2>1, <2>2 DEF Refused, Typed
    <3> QED BY <3>1 DEF ArgsInv
  <2>3. CASE Taken(g, m)
    <3>1. PICK cb : /\ Known(todo, m.method, cb) /\ ~invalidArguments(m, cb.argTypes)
                    /\ callb' = [callb EXCEPT ![g] = cb]
                    /\ args' = [args EXCEPT ![g] = parsePositionalArguments(m, cb.argTypes)]
                    /\ pc' = [pc EXCEPT ![g] = "run"] /\ UNCHANGED answer
      BY <2>3 DEF Taken
    <3>2. Meant(m, cb.argTypes, parsePositionalArguments(m, cb.argTypes)) BY <3>1, KnownTypes, ParsedMeant
    <3>3. Meant(msg'[g], callb'[g].argTypes, args'[g]) BY <2>1, <3>1, <3>2 DEF Typed
    <3>4. answer[g] # "invalidParams" BY <1>1 DEF HandleCallMsg, ArgsInv
    <3>5. \A h \in Goroutines \ {g} :
            pc'[h] = pc[h] /\ msg'[h] = msg[h] /\ callb'[h] = callb[h] /\ args'[h] = args[h]
      BY <2>1, <3>1 DEF Typed
    <3> QED BY <3>1, <3>3, <3>4, <3>5 DEF ArgsInv
  <2> QED BY <1>1, <2>2, <2>3, Handled
<1>2. ASSUME NEW g \in Goroutines, RunMethod(g) PROVE ArgsInv'
  <2>1. pc[g] = "run" /\ pc' = [pc EXCEPT ![g] = "wrap"] /\ UNCHANGED <<msg, callb, args, answer>>
    BY <1>2 DEF RunMethod
  <2> QED BY <2>1 DEF ArgsInv, Typed
<1>3. ASSUME NEW g \in Goroutines, Call(g) PROVE ArgsInv'
  <2>1. pc' = [pc EXCEPT ![g] = "done"] /\ UNCHANGED <<msg, callb, args>> BY <1>3 DEF Call, locals
  <2>2. \A h \in Goroutines \ {g} : answer'[h] = answer[h] BY <1>3 DEF Call, Typed
  <2> QED BY <2>1, <2>2 DEF ArgsInv, Typed
<1>4. CASE UNCHANGED <<pc, msg, callb, args, answer>> BY <1>4 DEF ArgsInv
<1> QED BY <1>1, <1>2, <1>3, <1>4
  DEF Next, vars, registry, locals, RegisterName, SetMiddlewares, SetMiddlewaresDone, Wrap

\* What Call makes of the chain: the two halves mirror each other.
LEMMA Nested ==
  ASSUME NEW c \in Seq(Middlewares), NEW d \in 0 .. Len(c), NEW e
  PROVE  LET ins == [i \in 1..d |-> <<"in", c[i]>>]
             outs == [i \in 1..d |-> <<"out", c[d + 1 - i]>>]
             short == ins \o outs
             full == ins \o <<e>> \o outs
         IN /\ DOMAIN short = 1 .. 2 * d /\ Len(short) = 2 * d
            /\ \A j \in 1 .. 2 * d : short[j] = IF j <= d THEN <<"in", c[j]>> ELSE <<"out", c[2 * d + 1 - j]>>
            /\ DOMAIN full = 1 .. 2 * d + 1 /\ Len(full) = 2 * d + 1
            /\ \A j \in 1 .. 2 * d + 1 :
                 full[j] = IF j <= d THEN <<"in", c[j]>>
                           ELSE IF j = d + 1 THEN e ELSE <<"out", c[2 * d + 2 - j]>>
<1> DEFINE ins == [i \in 1..d |-> <<"in", c[i]>>]
           outs == [i \in 1..d |-> <<"out", c[d + 1 - i]>>]
           S == {ins[i] : i \in 1..d} \cup {outs[i] : i \in 1..d} \cup {e}
<1>1. d \in Nat BY DEF Middlewares
<1>2. ins \in Seq(S) /\ outs \in Seq(S) /\ <<e>> \in Seq(S)
  <2>1. \A i \in 1..d : ins[i] \in S /\ outs[i] \in S OBVIOUS
  <2>2. ins = [i \in 1..d |-> ins[i]] /\ outs = [i \in 1..d |-> outs[i]] OBVIOUS
  <2>3. e \in S OBVIOUS
  <2> HIDE DEF S, ins, outs
  <2>4. ins \in Seq(S) BY <1>1, <2>1, <2>2
  <2>5. outs \in Seq(S) BY <1>1, <2>1, <2>2
  <2> QED BY <2>3, <2>4, <2>5
<1>3. Len(ins) = d /\ Len(outs) = d /\ Len(<<e>>) = 1 BY <1>1
<1>4. /\ \A j \in 1 .. d : ins[j] = <<"in", c[j]>> /\ outs[j] = <<"out", c[d + 1 - j]>>
      /\ <<e>>[1] = e
  OBVIOUS
<1> HIDE DEF ins, outs, S
<1>5. /\ ins \o outs \in Seq(S) /\ Len(ins \o outs) = 2 * d
      /\ \A j \in 1 .. 2 * d : (ins \o outs)[j] = IF j <= d THEN ins[j] ELSE outs[j - d]
  <2>1. /\ ins \o outs \in Seq(S) /\ Len(ins \o outs) = Len(ins) + Len(outs)
        /\ \A j \in 1 .. Len(ins) + Len(outs) :
             (ins \o outs)[j] = IF j <= Len(ins) THEN ins[j] ELSE outs[j - Len(ins)]
    BY <1>2, ConcatProperties
  <2>2. Len(ins) + Len(outs) = 2 * d BY <1>1, <1>3
  <2> QED BY <1>3, <2>1, <2>2
<1>6. /\ ins \o <<e>> \in Seq(S) /\ Len(ins \o <<e>>) = d + 1
      /\ \A j \in 1 .. d + 1 : (ins \o <<e>>)[j] = IF j <= d THEN ins[j] ELSE e
  BY <1>1, <1>2, <1>3, <1>4, ConcatProperties
<1>7. /\ ins \o <<e>> \o outs \in Seq(S) /\ Len(ins \o <<e>> \o outs) = 2 * d + 1
      /\ \A j \in 1 .. 2 * d + 1 :
           (ins \o <<e>> \o outs)[j] = IF j <= d + 1 THEN (ins \o <<e>>)[j] ELSE outs[j - (d + 1)]
  <2> DEFINE first == ins \o <<e>>
  <2>1. first \in Seq(S) /\ Len(first) = d + 1 BY <1>6
  <2> HIDE DEF first
  <2>2. /\ first \o outs \in Seq(S) /\ Len(first \o outs) = Len(first) + Len(outs)
        /\ \A j \in 1 .. Len(first) + Len(outs) :
             (first \o outs)[j] = IF j <= Len(first) THEN first[j] ELSE outs[j - Len(first)]
    BY <1>2, <2>1, ConcatProperties
  <2>3. Len(first) + Len(outs) = 2 * d + 1 BY <1>1, <1>3, <2>1
  <2>4. /\ first \o outs \in Seq(S) /\ Len(first \o outs) = 2 * d + 1
        /\ \A j \in 1 .. 2 * d + 1 :
             (first \o outs)[j] = IF j <= d + 1 THEN first[j] ELSE outs[j - (d + 1)]
    BY <2>1, <2>2, <2>3
  <2> QED BY <2>4 DEF first
<1>8. ASSUME NEW j \in 1 .. 2 * d
      PROVE  (ins \o outs)[j] = IF j <= d THEN <<"in", c[j]>> ELSE <<"out", c[2 * d + 1 - j]>>
  <2>1. CASE j <= d BY <1>1, <1>4, <1>5, <2>1
  <2>2. CASE ~(j <= d)
    <3>1. j - d \in 1 .. d /\ d + 1 - (j - d) = 2 * d + 1 - j BY <1>1, <2>2
    <3> QED BY <1>4, <1>5, <2>2, <3>1
  <2> QED BY <2>1, <2>2
<1>9. ASSUME NEW j \in 1 .. 2 * d + 1
      PROVE  (ins \o <<e>> \o outs)[j] = IF j <= d THEN <<"in", c[j]>>
                                         ELSE IF j = d + 1 THEN e ELSE <<"out", c[2 * d + 2 - j]>>
  <2>1. CASE j <= d + 1
    <3>1. j \in 1 .. d + 1 BY <1>1, <2>1
    <3>2. (ins \o <<e>> \o outs)[j] = IF j <= d THEN ins[j] ELSE e BY <1>6, <1>7, <2>1, <3>1
    <3>3. j <= d => ins[j] = <<"in", c[j]>> BY <1>1, <1>4, <3>1
    <3>4. ~(j <= d) => j = d + 1 BY <1>1, <3>1
    <3> QED BY <3>2, <3>3, <3>4
  <2>2. CASE ~(j <= d + 1)
    <3>1. j - (d + 1) \in 1 .. d /\ d + 1 - (j - (d + 1)) = 2 * d + 2 - j BY <1>1, <2>2
    <3>2. ~(j <= d) /\ j # d + 1 BY <1>1, <2>2
    <3> QED BY <1>4, <1>7, <2>2, <3>1, <3>2
  <2> QED BY <2>1, <2>2
<1>10. DOMAIN (ins \o outs) = 1 .. 2 * d /\ DOMAIN (ins \o <<e>> \o outs) = 1 .. 2 * d + 1
  BY <1>1, <1>5, <1>7
<1> QED BY <1>5, <1>7, <1>8, <1>9, <1>10 DEF ins, outs

\* What Call(g) does to the trace of g, and to nothing else.
LEMMA Traced ==
  ASSUME Typed, NEW g \in Goroutines, Call(g)
  PROVE  LET c == chain[g]
             t == trace'[g]
         IN /\ \A h \in Goroutines \ {g} : trace'[h] = trace[h]
            /\ crashed' = FALSE /\ answer'[g] # "invalidParams"
            /\ \/ \E d \in 1 .. Len(c) :
                    /\ DOMAIN t = 1 .. 2 * d /\ Len(t) = 2 * d
                    /\ \A j \in 1 .. 2 * d : t[j] = IF j <= d THEN <<"in", c[j]>> ELSE <<"out", c[2 * d + 1 - j]>>
               \/ /\ DOMAIN t = 1 .. 2 * Len(c) + 1 /\ Len(t) = 2 * Len(c) + 1
                  /\ \A j \in 1 .. 2 * Len(c) + 1 :
                       t[j] = IF j <= Len(c) THEN <<"in", c[j]>>
                              ELSE IF j = Len(c) + 1 THEN <<"run", args[g]>> ELSE <<"out", c[2 * Len(c) + 2 - j]>>
<1> DEFINE c == chain[g]
           n == Len(c)
           ins(d) == [i \in 1..d |-> <<"in", c[i]>>]
           outs(d) == [i \in 1..d |-> <<"out", c[d + 1 - i]>>]
<1>1. c \in Seq(Middlewares) /\ n \in Nat BY DEF Typed
<1>2. \/ \E d \in 1..n :
           /\ trace' = [trace EXCEPT ![g] = ins(d) \o outs(d)]
           /\ answer' = [answer EXCEPT ![g] = "middleware"] /\ crashed' = FALSE
      \/ \E o \in Outcomes(callb[g]) :
           /\ trace' = [trace EXCEPT ![g] = ins(n) \o <<<<"run", args[g]>>>> \o outs(n)]
           /\ answer' = [answer EXCEPT ![g] = Recovered(o)]
           /\ crashed' = (Recovered(o) = "panic")
  BY DEF Call
<1>3. ASSUME NEW d \in 1..n, trace' = [trace EXCEPT ![g] = ins(d) \o outs(d)]
      PROVE  /\ DOMAIN trace'[g] = 1 .. 2 * d /\ Len(trace'[g]) = 2 * d
             /\ \A j \in 1 .. 2 * d : trace'[g][j] = IF j <= d THEN <<"in", c[j]>> ELSE <<"out", c[2 * d + 1 - j]>>
  <2>1. trace'[g] = ins(d) \o outs(d) BY <1>3 DEF Typed
  <2>2. d \in 0 .. Len(c) BY <1>1
  <2>3. /\ DOMAIN (ins(d) \o outs(d)) = 1 .. 2 * d /\ Len(ins(d) \o outs(d)) = 2 * d
        /\ \A j \in 1 .. 2 * d : (ins(d) \o outs(d))[j] = IF j <= d THEN <<"in", c[j]>> ELSE <<"out", c[2 * d + 1 - j]>>
    <3> HIDE DEF c
    <3> QED BY <1>1, <2>2, Nested
  <2> QED BY <2>1, <2>3
<1>4. ASSUME trace' = [trace EXCEPT ![g] = ins(n) \o <<<<"run", args[g]>>>> \o outs(n)]
      PROVE  /\ DOMAIN trace'[g] = 1 .. 2 * n + 1 /\ Len(trace'[g]) = 2 * n + 1
             /\ \A j \in 1 .. 2 * n + 1 :
                  trace'[g][j] = IF j <= n THEN <<"in", c[j]>>
                                 ELSE IF j = n + 1 THEN <<"run", args[g]>> ELSE <<"out", c[2 * n + 2 - j]>>
  <2> DEFINE e == <<"run", args[g]>>
             full == ins(n) \o <<e>> \o outs(n)
  <2>1. trace'[g] = full BY <1>4 DEF Typed
  <2>2. n \in 0 .. Len(c) BY <1>1
  <2>3. /\ DOMAIN full = 1 .. 2 * n + 1 /\ Len(full) = 2 * n + 1
        /\ \A j \in 1 .. 2 * n + 1 :
             full[j] = IF j <= n THEN <<"in", c[j]>>
                       ELSE IF j = n + 1 THEN e ELSE <<"out", c[2 * n + 2 - j]>>
    <3> HIDE DEF c, n, e
    <3>1. /\ DOMAIN (ins(n) \o <<e>> \o outs(n)) = 1 .. 2 * n + 1
          /\ Len(ins(n) \o <<e>> \o outs(n)) = 2 * n + 1
      BY <1>1, <2>2, Nested
    <3>2. \A j \in 1 .. 2 * n + 1 :
            (ins(n) \o <<e>> \o outs(n))[j] = IF j <= n THEN <<"in", c[j]>>
                       ELSE IF j = n + 1 THEN e ELSE <<"out", c[2 * n + 2 - j]>>
      BY <1>1, <2>2, Nested
    <3> QED BY <3>1, <3>2
  <2> HIDE DEF full
  <2> QED BY <2>1, <2>3
<1>5. \A h \in Goroutines \ {g} : trace'[h] = trace[h] BY <1>2 DEF Typed
<1>6. \A o \in Outcomes(callb[g]) : Recovered(o) # "panic" /\ Recovered(o) # "invalidParams"
  BY DEF Outcomes, Recovered
<1>7. crashed' = FALSE /\ answer'[g] # "invalidParams" BY <1>2, <1>6 DEF Typed
<1> HIDE DEF c, n, ins, outs
<1>8. \/ \E d \in 1 .. n :
           /\ DOMAIN trace'[g] = 1 .. 2 * d /\ Len(trace'[g]) = 2 * d
           /\ \A j \in 1 .. 2 * d : trace'[g][j] = IF j <= d THEN <<"in", c[j]>> ELSE <<"out", c[2 * d + 1 - j]>>
      \/ /\ DOMAIN trace'[g] = 1 .. 2 * n + 1 /\ Len(trace'[g]) = 2 * n + 1
         /\ \A j \in 1 .. 2 * n + 1 :
              trace'[g][j] = IF j <= n THEN <<"in", c[j]>>
                             ELSE IF j = n + 1 THEN <<"run", args[g]>> ELSE <<"out", c[2 * n + 2 - j]>>
  BY <1>2, <1>3, <1>4
<1> QED BY <1>5, <1>7, <1>8 DEF c, n

\* A chain that is the list in force gives a trace that nests it.
LEMMA CallNests ==
  ASSUME Typed, NEW g \in Goroutines, Call(g), chain[g] = given[g]
  PROVE  Nests(trace'[g], given[g])
<1> DEFINE c == chain[g]
           n == Len(c)
           t == trace'[g]
<1>1. n \in Nat BY DEF Typed
<1>2. \/ \E d \in 1 .. n :
           /\ DOMAIN t = 1 .. 2 * d /\ Len(t) = 2 * d
           /\ \A j \in 1 .. 2 * d : t[j] = IF j <= d THEN <<"in", c[j]>> ELSE <<"out", c[2 * d + 1 - j]>>
      \/ /\ DOMAIN t = 1 .. 2 * n + 1 /\ Len(t) = 2 * n + 1
         /\ \A j \in 1 .. 2 * n + 1 :
              t[j] = IF j <= n THEN <<"in", c[j]>>
                     ELSE IF j = n + 1 THEN <<"run", args[g]>> ELSE <<"out", c[2 * n + 2 - j]>>
  BY Traced
<1> HIDE DEF c, n, t
<1>3. ASSUME NEW d \in 1 .. n, DOMAIN t = 1 .. 2 * d, Len(t) = 2 * d,
             \A j \in 1 .. 2 * d : t[j] = IF j <= d THEN <<"in", c[j]>> ELSE <<"out", c[2 * d + 1 - j]>>
      PROVE  Nests(t, c)
  <2> SUFFICES ASSUME NEW j \in 1 .. 2 * d
               PROVE  \/ /\ t[j][1] = "in" /\ j < 2 * d + 1 - j /\ t[2 * d + 1 - j] = <<"out", t[j][2]>>
                         /\ j <= n /\ t[j][2] = c[j]
                      \/ t[j][1] = "out" /\ 2 * d + 1 - j < j /\ t[2 * d + 1 - j] = <<"in", t[j][2]>>
    BY <1>3 DEF Nests, n
  <2>1. d \in Nat /\ j \in Nat /\ 2 * d + 1 - j \in 1 .. 2 * d /\ 2 * d + 1 - (2 * d + 1 - j) = j BY <1>1
  <2>2. CASE j <= d
    <3>1. t[j] = <<"in", c[j]>> BY <1>3, <2>2
    <3>2. ~(2 * d + 1 - j <= d) /\ j < 2 * d + 1 - j /\ j <= n BY <1>1, <2>1, <2>2
    <3>3. t[2 * d + 1 - j] = <<"out", c[j]>> BY <1>3, <2>1, <3>2
    <3> QED BY <3>1, <3>2, <3>3
  <2>3. CASE ~(j <= d)
    <3>1. t[j] = <<"out", c[2 * d + 1 - j]>> BY <1>3, <2>3
    <3>2. 2 * d + 1 - j <= d /\ 2 * d + 1 - j < j BY <2>1, <2>3
    <3>3. t[2 * d + 1 - j] = <<"in", c[2 * d + 1 - j]>> BY <1>3, <2>1, <3>2
    <3> QED BY <3>1, <3>2, <3>3
  <2> QED BY <2>2, <2>3
<1>4. ASSUME DOMAIN t = 1 .. 2 * n + 1, Len(t) = 2 * n + 1,
             \A j \in 1 .. 2 * n + 1 :
               t[j] = IF j <= n THEN <<"in", c[j]>>
                      ELSE IF j = n + 1 THEN <<"run", args[g]>> ELSE <<"out", c[2 * n + 2 - j]>>
      PROVE  Nests(t, c)
  <2> SUFFICES ASSUME NEW j \in 1 .. 2 * n + 1
               PROVE  \/ /\ t[j][1] = "in" /\ j < 2 * n + 2 - j /\ t[2 * n + 2 - j] = <<"out", t[j][2]>>
                         /\ j <= n /\ t[j][2] = c[j]
                      \/ t[j][1] = "run" /\ j = 2 * n + 2 - j /\ j = n + 1
                      \/ t[j][1] = "out" /\ 2 * n + 2 - j < j /\ t[2 * n + 2 - j] = <<"in", t[j][2]>>
    <3>1. \A j \in 1 .. 2 * n + 1 : Len(t) + 1 - j = 2 * n + 2 - j BY <1>1, <1>4
    <3> QED BY <1>4, <3>1 DEF Nests, n
  <2>1. j \in Nat /\ 2 * n + 2 - j \in 1 .. 2 * n + 1 /\ 2 * n + 2 - (2 * n + 2 - j) = j BY <1>1
  <2>2. CASE j <= n
    <3>1. t[j] = <<"in", c[j]>> BY <1>4, <2>2
    <3>2. ~(2 * n + 2 - j <= n) /\ 2 * n + 2 - j # n + 1 /\ j < 2 * n + 2 - j BY <1>1, <2>1, <2>2
    <3>3. t[2 * n + 2 - j] = <<"out", c[j]>> BY <1>4, <2>1, <3>2
    <3> QED BY <2>2, <3>1, <3>2, <3>3
  <2>3. CASE j = n + 1
    <3>1. ~(j <= n) /\ j = 2 * n + 2 - j BY <1>1, <2>3
    <3>2. t[j] = <<"run", args[g]>> BY <1>4, <2>3, <3>1
    <3> QED BY <2>3, <3>1, <3>2
  <2>4. CASE ~(j <= n) /\ j # n + 1
    <3>1. t[j] = <<"out", c[2 * n + 2 - j]>> BY <1>4, <2>4
    <3>2. 2 * n + 2 - j <= n /\ 2 * n + 2 - j < j BY <1>1, <2>1, <2>4
    <3>3. t[2 * n + 2 - j] = <<"in", c[2 * n + 2 - j]>> BY <1>4, <2>1, <3>2
    <3> QED BY <3>1, <3>2, <3>3
  <2> QED BY <2>2, <2>3, <2>4
<1>5. Nests(t, c) BY <1>2, <1>3, <1>4
<1>6. Nests(trace'[g], chain[g]) BY <1>5 DEF t, c
<1> QED BY <1>6

\* Only a call that overlaps with SetMiddlewares may find an index out of range,
\* or build a chain other than the list in force.
LEMMA MiddlewareOrderStep ==
  ASSUME MiddlewareOrder, ChainInv, SliceInv, Typed, [Next]_vars PROVE MiddlewareOrder'
<1>1. ASSUME NEW g \in Goroutines, RunMethod(g) PROVE MiddlewareOrder'
  <2>1. /\ given' = [given EXCEPT ![g] = list] /\ UNCHANGED <<trace, crashed>> /\ raced \subseteq raced'
        /\ pc[g] = "run" /\ raced' \subseteq raced \cup {g}
    BY <1>1 DEF RunMethod
  <2>2. trace[g] = <<>> BY <2>1 DEF ChainInv
  <2>3. \A l : Nests(<<>>, l) BY DEF Nests
  <2>4. \A h \in Goroutines \ {g} : given'[h] = given[h] BY <2>1 DEF Typed
  <2> QED BY <2>1, <2>2, <2>3, <2>4 DEF MiddlewareOrder
<1>2. ASSUME NEW g \in Goroutines, Wrap(g) PROVE MiddlewareOrder'
  <2>1. pc[g] = "wrap" /\ index[g] > 0 /\ UNCHANGED <<trace, given, raced>> BY <1>2 DEF Wrap
  <2>2. crashed' => crashed \/ index[g] > len \/ index[g] > Len(list) BY <1>2 DEF Wrap
  <2>3. ASSUME g \notin raced PROVE ~(index[g] > len \/ index[g] > Len(list))
    <3>1. setting = Nil /\ list = given[g] /\ Len(given[g]) = index[g] + Len(chain[g])
      BY <2>1, <2>3 DEF ChainInv
    <3>2. len = Len(list) /\ index[g] \in Nat /\ Len(chain[g]) \in Nat BY <3>1 DEF SliceInv, Typed
    <3> QED BY <3>1, <3>2
  <2> QED BY <2>1, <2>2, <2>3 DEF MiddlewareOrder
<1>3. ASSUME NEW g \in Goroutines, Call(g) PROVE MiddlewareOrder'
  <2>1. pc[g] = "wrap" /\ index[g] = 0 /\ UNCHANGED <<given, raced>> BY <1>3 DEF Call
  <2>2. crashed' = FALSE /\ \A h \in Goroutines \ {g} : trace'[h] = trace[h] BY <1>3, Traced
  <2>3. ASSUME g \notin raced PROVE Nests(trace'[g], given[g])
    <3>1. Len(given[g]) = 0 + Len(chain[g]) /\ \A i \in 1 .. Len(chain[g]) : chain[g][i] = given[g][0 + i]
      BY <2>1, <2>3 DEF ChainInv
    <3>2. chain[g] \in Seq(Middlewares) /\ given[g] \in Seq(Middlewares) BY DEF Typed
    <3>3. Len(chain[g]) = Len(given[g]) /\ \A i \in 1 .. Len(chain[g]) : chain[g][i] = given[g][i]
      BY <3>1, <3>2
    <3>4. chain[g] = given[g] BY <3>2, <3>3, SeqEqual
    <3> QED BY <1>3, <3>4, CallNests
  <2> QED BY <2>1, <2>2, <2>3 DEF MiddlewareOrder
<1>4. CASE UNCHANGED <<crashed, trace, given>> /\ raced \subseteq raced' BY <1>4 DEF MiddlewareOrder
<1> QED BY <1>1, <1>2, <1>3, <1>4
  DEF Next, vars, registry, locals, RegisterName, SetMiddlewares, SetMiddlewaresDone, HandleCallMsg

\* The method gets the arguments that were parsed.
LEMMA MeantBlockStep == ASSUME MeantBlock, ArgsInv, ChainInv, Typed, ServicesInv, [Next]_vars PROVE MeantBlock'
<1>1. ASSUME NEW g \in Goroutines, NEW m \in Messages[g], HandleCallMsg(g, m),
             Refused(g, m) \/ Taken(g, m) PROVE MeantBlock'
  <2>1. trace' = trace /\ msg' = [msg EXCEPT ![g] = m] /\ trace[g] = <<>> BY <1>1 DEF HandleCallMsg, ChainInv
  <2>2. \A h \in Goroutines \ {g} : msg'[h] = msg[h] /\ callb'[h] = callb[h]
    BY <1>1, <2>1 DEF Refused, Taken, Typed
  <2> QED BY <2>1, <2>2 DEF MeantBlock
<1>2. ASSUME NEW g \in Goroutines, Call(g) PROVE MeantBlock'
  <2>1. UNCHANGED <<msg, callb, args>> /\ Meant(msg[g], callb[g].argTypes, args[g])
    BY <1>2 DEF Call, locals, ArgsInv
  <2>2. \A h \in Goroutines \ {g} : trace'[h] = trace[h] BY <1>2, Traced
  <2>3. ASSUME NEW j \in DOMAIN trace'[g], trace'[g][j][1] = "run" PROVE trace'[g][j][2] = args[g]
    <3> DEFINE c == chain[g]
               t == trace'[g]
    <3>1. \/ \E d \in 1 .. Len(c) :
               /\ DOMAIN t = 1 .. 2 * d
               /\ \A k \in 1 .. 2 * d : t[k] = IF k <= d THEN <<"in", c[k]>> ELSE <<"out", c[2 * d + 1 - k]>>
          \/ /\ DOMAIN t = 1 .. 2 * Len(c) + 1
             /\ \A k \in 1 .. 2 * Len(c) + 1 :
                  t[k] = IF k <= Len(c) THEN <<"in", c[k]>>
                         ELSE IF k = Len(c) + 1 THEN <<"run", args[g]>> ELSE <<"out", c[2 * Len(c) + 2 - k]>>
      BY <1>2, Traced
    <3> HIDE DEF c, t
    <3>2. \E x : t[j] = <<"in", x>> \/ t[j] = <<"out", x>> \/ t[j] = <<"run", args[g]>> BY <2>3, <3>1 DEF t
    <3>3. t[j][1] = "run" BY <2>3 DEF t
    <3>4. t[j] = <<"run", args[g]>> BY <3>2, <3>3
    <3> QED BY <3>4 DEF t
  <2> QED BY <2>1, <2>2, <2>3 DEF MeantBlock
<1>3. CASE UNCHANGED <<trace, msg, callb>> BY <1>3 DEF MeantBlock
<1> QED BY <1>1, <1>2, <1>3, Handled
  DEF Next, vars, registry, locals, RegisterName, SetMiddlewares, SetMiddlewaresDone, RunMethod, Wrap

\* Arguments are refused in one place, for a method that is registered then, and
\* what is registered stays so.
LEMMA ValidAcceptedStep ==
  ASSUME ValidAccepted, ArgsInv, Typed, ServicesInv, [Next]_vars PROVE ValidAccepted'
<1> DEFINE Wrong(m, left) ==
             \E r \in DOMAIN Receivers \ left :
               /\ m.method \in DOMAIN Receivers[r]
               /\ LET ins == Receivers[r][m.method].ins
                      vals == m.args
                  IN \/ Len(vals) > Len(ins)
                     \/ \E i \in DOMAIN ins :
                          IF i > Len(vals) THEN ins[i] # "opt" ELSE ~Acceptable(ins[i], vals[i])
           Asked(m) == m.params = "array" /\ m.method # Nil
<1>1. ValidAccepted = \A g \in Goroutines : answer[g] = "invalidParams" /\ Asked(msg[g]) => Wrong(msg[g], todo)
  BY DEF ValidAccepted
<1>2. ValidAccepted' = \A g \in Goroutines : answer'[g] = "invalidParams" /\ Asked(msg'[g]) => Wrong(msg'[g], todo')
  BY DEF ValidAccepted
<1>3. \A m, left, fewer : fewer \subseteq left /\ Wrong(m, left) => Wrong(m, fewer) OBVIOUS
<1>4. ASSUME NEW g \in Goroutines, NEW m \in Messages[g], NEW cb, m.params = "array",
             Known(todo, m.method, cb), invalidArguments(m, cb.argTypes)
      PROVE  Wrong(m, todo)
  <2>1. PICK r \in DOMAIN Receivers \ todo :
          m.method \in DOMAIN Receivers[r] /\ cb.argTypes = Receivers[r][m.method].ins
    BY <1>4 DEF Known
  <2> DEFINE types == Receivers[r][m.method].ins
  <2>2. types \in Seq(Types) BY <1>4, <2>1, KnownTypes
  <2>3. invalidArguments(m, types) BY <1>4, <2>1
  <2> HIDE DEF types
  <2>4. \/ Len(m.args) > Len(types)
        \/ \E i \in DOMAIN types :
             IF i > Len(m.args) THEN types[i] # "opt" ELSE ~Acceptable(types[i], m.args[i])
    BY <1>4, <2>2, <2>3, RefusedRightly
  <2> QED BY <2>1, <2>4 DEF types
<1> HIDE DEF Wrong
<1>5. ASSUME NEW g \in Goroutines, NEW m \in Messages[g], HandleCallMsg(g, m) PROVE ValidAccepted'
  <2>1. msg' = [msg EXCEPT ![g] = m] /\ todo' = todo /\ pc[g] = "idle" BY <1>5 DEF HandleCallMsg, registry
  <2>2. msg'[g] = m /\ \A h \in Goroutines \ {g} : msg'[h] = msg[h] BY <2>1 DEF Typed
  <2>3. CASE Refused(g, m)
    <3>1. PICK err :
            /\ answer' = [answer EXCEPT ![g] = err]
            /\ err = "invalidParams" /\ Asked(m) =>
                 \E cb : Known(todo, m.method, cb) /\ invalidArguments(m, cb.argTypes)
      BY <2>3 DEF Refused
    <3>2. answer'[g] = err /\ \A h \in Goroutines \ {g} : answer'[h] = answer[h] BY <3>1 DEF Typed
    <3>3. answer'[g] = "invalidParams" /\ Asked(m) => Wrong(m, todo) BY <1>4, <3>1, <3>2
    <3> QED BY <1>1, <1>2, <2>1, <2>2, <3>2, <3>3
  <2>4. CASE Taken(g, m)
    <3>1. answer' = answer /\ answer[g] # "invalidParams" BY <2>1, <2>4 DEF Taken, ArgsInv
    <3> QED BY <1>1, <1>2, <2>1, <2>2, <3>1
  <2> QED BY <1>5, <2>3, <2>4, Handled
<1>6. ASSUME NEW g \in Goroutines, Call(g) PROVE ValidAccepted'
  <2>1. UNCHANGED <<msg, todo>> BY <1>6 DEF Call, locals, registry
  <2>2. answer'[g] # "invalidParams" BY <1>6, Traced
  <2>3. \A h \in Goroutines \ {g} : answer'[h] = answer[h] BY <1>6 DEF Call, Typed
  <2> QED BY <1>1, <1>2, <2>1, <2>2, <2>3
<1>7. CASE UNCHANGED <<msg, answer>> /\ todo' \subseteq todo BY <1>1, <1>2, <1>3, <1>7
<1> QED BY <1>5, <1>6, <1>7
  DEF Next, vars, registry, locals, RegisterName, SetMiddlewares, SetMiddlewaresDone, RunMethod, Wrap

-----------------------------------------------------------------------------
(* The theorems.                                                           *)

\* NewServer leaves the registry, and nothing else, with something in it.
LEMMA InitInv == ASSUME Init PROVE Inv
<1> USE InvokeAssumption
<1>1. Typed BY DEF Init, Typed
<1>2. ServicesInv
  <2>1. AllKnown(DOMAIN Receivers, EmptyRegistry) BY DEF AllKnown, EmptyRegistry
  <2>2. AllKnown(DOMAIN Receivers \ {RpcReceiver}, Registered(EmptyRegistry, "rpc", RpcReceiver))
    BY <2>1, RegisteredKnown
  <2> QED BY <2>2 DEF Init, ServicesInv
<1>3. SliceInv BY DEF Init, SliceInv
<1>4. ChainInv BY DEF Init, ChainInv
<1>5. \A g \in Goroutines : pc[g] = "idle" /\ answer[g] # "invalidParams"
  <2>1. Nil # "invalidParams" OBVIOUS
  <2> QED BY <2>1 DEF Init
<1>6. ArgsInv BY <1>5 DEF ArgsInv
<1>7. ValidAccepted BY <1>5 DEF ValidAccepted
<1>8. MiddlewareOrder BY DEF Init, MiddlewareOrder, Nests
<1>9. MeantBlock BY DEF Init, MeantBlock
<1> QED BY <1>1, <1>2, <1>3, <1>4, <1>6, <1>7, <1>8, <1>9 DEF Inv

\* Every step keeps the whole of it.
LEMMA StepInv == ASSUME Inv, [Next]_vars PROVE Inv'
<1> USE DEF Inv
<1>1. Typed' /\ ServicesInv' BY TypedStep, ServicesInvStep
<1>2. SliceInv' /\ ChainInv' /\ ArgsInv' BY SliceInvStep, ChainInvStep, ArgsInvStep
<1>3. MiddlewareOrder' BY MiddlewareOrderStep
<1>4. MeantBlock' /\ ValidAccepted' BY MeantBlockStep, ValidAcceptedStep
<1> QED BY <1>1, <1>2, <1>3, <1>4

\* The inductive invariant holds throughout.
THEOREM Invariance == Spec => []Inv
<1>1. Init => Inv BY InitInv
<1>2. Inv /\ [Next]_vars => Inv' BY StepInv
<1> QED BY <1>1, <1>2, PTL DEF Spec

\* runMethod runs middlewares of a list of any length in its order, and unwinds
\* them in reverse, in every call that does not overlap with SetMiddlewares; and
\* only one that does can bring the process down.
THEOREM MiddlewareOrderHolds == Spec => []MiddlewareOrder
<1>1. Inv => MiddlewareOrder BY DEF Inv
<1> QED BY <1>1, Invariance, PTL

\* callback.call gets the blocks that the caller meant, for integers of any width
\* and methods with any number of parameters.
THEOREM MeantBlockHolds == Spec => []MeantBlock
<1>1. Inv => MeantBlock BY DEF Inv
<1> QED BY <1>1, Invariance, PTL

\* parsePositionalArguments refuses no arguments that are acceptable for the method.
THEOREM ValidAcceptedHolds == Spec => []ValidAccepted
<1>1. Inv => ValidAccepted BY DEF Inv
<1> QED BY <1>1, Invariance, PTL

\* registerName takes no method and no subscription away, whatever the receivers,
\* their methods and the names they are registered under.
THEOREM NothingUnregisteredHolds == Spec => NothingUnregistered
<1> DEFINE Kept ==
      \A s \in DOMAIN services :
        /\ s \in DOMAIN services'
        /\ DOMAIN services[s].callbacks \subseteq DOMAIN services'[s].callbacks
        /\ DOMAIN services[s].subscriptions \subseteq DOMAIN services'[s].subscriptions
<1>1. ASSUME NEW r \in todo, NEW name \in Names, RegisterName(r, name) PROVE Kept
  <2>1. CASE services' = services BY <2>1
  <2>2. CASE services' = Registered(services, name, r)
    <3> DEFINE cbs == suitableCallbacks(r)
               old == Service(services, name)
               new == [callbacks |-> Stored(Subset(cbs, FALSE), old.callbacks),
                       subscriptions |-> Stored(Subset(cbs, TRUE), old.subscriptions)]
    <3>1. services' = Stored([s \in {name} |-> new], services) BY <2>2 DEF Registered
    <3>2. /\ DOMAIN old.callbacks \subseteq DOMAIN new.callbacks
          /\ DOMAIN old.subscriptions \subseteq DOMAIN new.subscriptions
      <4> HIDE DEF cbs, old
      <4> QED BY DEF Stored
    <3>3. name \in DOMAIN services => old = services[name] BY DEF Service
    <3> HIDE DEF new, old
    <3>4. /\ DOMAIN services' = DOMAIN services \cup {name} /\ services'[name] = new
          /\ \A s \in DOMAIN services \ {name} : services'[s] = services[s]
      BY <3>1 DEF Stored
    <3> QED BY <3>2, <3>3, <3>4
  <2> QED BY <1>1, <2>1, <2>2 DEF RegisterName
<1>2. ASSUME services' = services PROVE Kept BY <1>2
<1>3. [Next]_vars => Kept
  BY <1>1, <1>2
  DEF Next, vars, registry, locals, SetMiddlewares, SetMiddlewaresDone, HandleCallMsg, RunMethod, Wrap, Call
<1> QED BY <1>3, PTL DEF Spec, NothingUnregistered

=============================================================================
