---------------------------- MODULE BlockNumbers ----------------------------
(***************************************************************************)
(* BlockNumber and BlockNumberOrHash (rpc/types.go): how the two argument  *)
(* types are written to the wire and read from it.  A JSON text is a tuple *)
(* that starts with its class:                                             *)
(*   <<"tag", t>>  one of the five names, <<"hex", n>>  0x... without      *)
(*   leading zeros, <<"hash", h>>  a string of 66 characters that is a     *)
(*   hash, <<"junk">>  any other string or number, <<"null">>, and         *)
(*   <<"obj", n, h, c>>  an object with a number text, a hash text and a   *)
(*   Boolean requireCanonical, n and h Nil where the field is absent.      *)
(* A Go value is <<"num", n>>, <<"bnh", n, h, c>> or the nil pointer       *)
(* <<"nil">>.  Numbers keep a width, MaxInt64 being math.MaxInt64.         *)
(***************************************************************************)
EXTENDS Integers

CONSTANTS MaxInt64, Hashes, Bad, Nil

MaxUint64 == 2 * MaxInt64 + 1

BlockNumber == (-MaxInt64 - 1)..MaxInt64

\* The Go values.
Values ==
  {<<"nil">>} \cup {<<"num", n>> : n \in BlockNumber}
  \cup {<<"bnh", n, h, c>> : n \in BlockNumber \cup {Nil}, h \in Hashes \cup {Nil}, c \in BOOLEAN}

\* What a caller may send: a Go value or, as <<"raw", t>>, a text of another client.
IsArgument(v) ==
  \/ v \in Values
  \/ v = <<"raw", <<"junk">>>>
  \/ \E h \in Hashes : v = <<"raw", <<"hash", h>>>>
  \/ v[1] = "raw" /\ v[2][1] = "hex" /\ v[2][2] \in Nat /\ v = <<"raw", <<"hex", v[2][2]>>>>

SafeBlockNumber      == -4
FinalizedBlockNumber == -3
LatestBlockNumber    == -2
PendingBlockNumber   == -1
EarliestBlockNumber  == 0

TagNumber ==
  [safe |-> SafeBlockNumber, finalized |-> FinalizedBlockNumber, latest |-> LatestBlockNumber,
   pending |-> PendingBlockNumber, earliest |-> EarliestBlockNumber]

Tags == {"safe", "finalized", "latest", "pending", "earliest"}

-----------------------------------------------------------------------------
(* Writing.                                                                *)

\* Mutant: the newest name is not written.
String_NoSafe(bn) ==
  IF \E t \in Tags : TagNumber[t] = bn /\ bn # SafeBlockNumber
  THEN <<"tag", CHOOSE t \in Tags : TagNumber[t] = bn>>
  ELSE IF bn < 0 THEN <<"junk">> ELSE <<"hex", bn>>

\* BlockNumber.String, and so MarshalText: a negative number without a name
\* becomes the text <invalid ...>.
String(bn) ==
  IF \E t \in Tags : TagNumber[t] = bn THEN <<"tag", CHOOSE t \in Tags : TagNumber[t] = bn>>
  ELSE IF bn < 0 THEN <<"junk">> ELSE <<"hex", bn>>

\* encoding/json of an argument; BlockNumberOrHash has no MarshalJSON and is
\* written as an object without its nil fields.
Marshal(v) ==
  CASE v[1] = "num" -> String(v[2])
    [] v[1] = "bnh" -> <<"obj", IF v[2] = Nil THEN Nil ELSE String(v[2]),
                         IF v[3] = Nil THEN Nil ELSE <<"hash", v[3]>>, v[4]>>
    [] v[1] = "nil" -> <<"null">>

\* Nil is nothing that is written, and Bad nothing that is read.
ASSUME BlockNumbersAssumption ==
  /\ MaxInt64 \in Nat /\ MaxInt64 >= 4
  /\ Nil \notin Int \cup Hashes \cup {String(n) : n \in BlockNumber} \cup {<<"hash", h>> : h \in Hashes}
  /\ Bad \notin Int \cup Hashes \cup {Nil} \cup Values

-----------------------------------------------------------------------------
(* Reading: the value, or Bad for an error.                                *)

\* hexutil.DecodeUint64 refuses everything but 0x, digits, at most 64 bits.
DecodeUint64(t) == IF t[1] = "hex" /\ t[2] <= MaxUint64 THEN t[2] ELSE Bad

\* Mutant: a number beyond int64 wraps into the negative ones.
UnmarshalNumber_Wrap(t) ==
  IF t[1] = "tag" THEN TagNumber[t[2]]
  ELSE IF DecodeUint64(t) # Bad /\ DecodeUint64(t) > MaxInt64
       THEN DecodeUint64(t) - (MaxUint64 + 1) ELSE DecodeUint64(t)

\* BlockNumber.UnmarshalJSON: a name, or a number that an int64 can hold.
UnmarshalNumber(t) ==
  IF t[1] = "tag" THEN TagNumber[t[2]]
  ELSE IF DecodeUint64(t) # Bad /\ DecodeUint64(t) > MaxInt64 THEN Bad ELSE DecodeUint64(t)

\* BlockNumberOrHash.UnmarshalJSON: first as an object, for which null passes
\* too, then as a string: a name, a hash if it has its length, or a number.
UnmarshalNumberOrHash(t) ==
  CASE t[1] = "obj" ->
         LET num == IF t[2] = Nil THEN Nil ELSE UnmarshalNumber(t[2])
             hash == IF t[3] = Nil THEN Nil ELSE IF t[3][1] = "hash" THEN t[3][2] ELSE Bad
         IN IF num = Bad \/ hash = Bad \/ (num # Nil /\ hash # Nil) THEN Bad
            ELSE <<"bnh", num, hash, t[4]>>
    [] t[1] = "null" -> <<"bnh", Nil, Nil, FALSE>>
    [] t[1] = "hash" -> <<"bnh", Nil, t[2], FALSE>>
    [] OTHER -> IF UnmarshalNumber(t) = Bad THEN Bad ELSE <<"bnh", UnmarshalNumber(t), Nil, FALSE>>

\* encoding/json into a parameter: null gives a nil pointer, anything else goes
\* to the type's UnmarshalJSON.
Decode(type, t) ==
  CASE type = "bnh" -> UnmarshalNumberOrHash(t)
    [] type = "opt" /\ t[1] = "null" -> <<"nil">>
    [] OTHER -> IF UnmarshalNumber(t) = Bad THEN Bad ELSE <<"num", UnmarshalNumber(t)>>

-----------------------------------------------------------------------------

\* The parameter got holds the block that the argument v names, wherever v is
\* a value of Go or, as <<"raw", t>>, a text made by somebody else.
SameBlock(v, got) ==
  \/ got = v
  \/ v[1] = "num" /\ got = <<"bnh", v[2], Nil, FALSE>>
  \/ v[1] = "nil" /\ got = <<"bnh", Nil, Nil, FALSE>>
  \/ /\ v[1] = "raw" /\ v[2][1] = "hex"
     /\ got \in {<<"num", v[2][2]>>, <<"bnh", v[2][2], Nil, FALSE>>}
  \/ v[1] = "raw" /\ v[2][1] = "hash" /\ got = <<"bnh", Nil, v[2][2], FALSE>>

=============================================================================
