------------------------------- MODULE Invoke -------------------------------
(***************************************************************************)
(* How a call finds its Go method and runs it (rpc/service.go, and         *)
(* handleCall, handleSubscribe and runMethod of rpc/handler.go): services  *)
(* are registered and middlewares replaced while call goroutines look up   *)
(* callbacks, parse positional arguments (rpc/json.go), chain the          *)
(* middlewares and run the method.  A Go method is the shape of its type:  *)
(* whether a context comes first, its other parameters, and its results,   *)
(* each a value, an error or a Subscription.                               *)
(***************************************************************************)
EXTENDS BlockNumbers, Sequences

CONSTANTS
  Goroutines,   \* call goroutines, on any connections of the server
  Messages,     \* Messages[g]: the calls that g may receive
  Receivers,    \* Receivers[r]: the exported methods of a receiver object
  RpcReceiver,  \* the receiver that NewServer registers as "rpc"
  Names,        \* service names that RegisterName may be called with, "" among them
  Lists,        \* what SetMiddlewares may be called with: sequences of middlewares
  MaxSets       \* bound on the number of calls of SetMiddlewares

\* Middlewares are functions; one is known by where it is in a list.
Middlewares == UNION {{l[i] : i \in DOMAIN l} : l \in Lists}

ASSUME InvokeAssumption ==
  /\ RpcReceiver \in DOMAIN Receivers
  /\ \A r \in DOMAIN Receivers : \A n \in DOMAIN Receivers[r] :
       LET fn == Receivers[r][n]
       IN fn.ctx \in BOOLEAN /\ fn.ins \in Seq({"num", "opt", "bnh"}) /\ fn.outs \in Seq({"val", "err", "sub"})
  /\ <<>> \in Lists /\ Lists \subseteq Seq(Middlewares) /\ Nil \notin Lists \cup {"invalidParams"} /\ MaxSets \in Nat
  /\ \A g \in Goroutines : \A m \in Messages[g] :
       m.args \in Seq({m.args[i] : i \in DOMAIN m.args}) /\ \A i \in DOMAIN m.args : IsArgument(m.args[i])

VARIABLES
  services,  \* serviceRegistry.services: [name -> [callbacks, subscriptions]]
  todo,      \* receivers that are still to be registered
  list,      \* the array that serviceRegistry.middlewares points to ...
  len,       \* ... and its length, another word of the slice header
  setting,   \* the list being stored by SetMiddlewares, Nil if none is
  sets,      \* number of calls of SetMiddlewares left
  pc,        \* the call goroutines
  msg,       \* the message each of them handles
  callb,     \* callb in handleCall and handleSubscribe
  args,      \* the parsed arguments
  index,     \* i in runMethod
  chain,     \* the middlewares wrapped around the method so far, outermost first
  trace,     \* what was run, in order: <<"in", m>>, <<"run", args>>, <<"out", m>>
  answer,    \* the response, Nil before
  crashed,   \* the process has died of a panic that nothing recovers
  given,     \* history: the middlewares in force when runMethod began
  raced      \* history: goroutines whose runMethod has overlapped with SetMiddlewares

registry == <<services, todo, list, len, setting, sets>>
locals == <<msg, callb, args, index, chain>>
vars == <<registry, pc, locals, trace, answer, crashed, given, raced>>

-----------------------------------------------------------------------------
(* The registry.                                                           *)

isPubSub(fn) == fn.ctx /\ fn.outs = <<"sub", "err">>

\* newCallback: no more than one value and one error, in this order.
newCallback(r, name) ==
  LET fn == Receivers[r][name] IN
  IF Len(fn.outs) > 2 \/ (Len(fn.outs) = 2 /\ (fn.outs[1] = "err" \/ fn.outs[2] # "err"))
  THEN Nil
  ELSE [rcvr |-> r, argTypes |-> fn.ins, isSubscribe |-> isPubSub(fn),
        errPos |-> IF fn.outs # <<>> /\ fn.outs[Len(fn.outs)] = "err" THEN Len(fn.outs) ELSE 0,
        outs |-> Len(fn.outs)]

suitableCallbacks(r) ==
  LET good == {n \in DOMAIN Receivers[r] : newCallback(r, n) # Nil}
  IN [n \in good |-> newCallback(r, n)]

NoService == [callbacks |-> <<>>, subscriptions |-> <<>>]
Service(all, name) == IF name \in DOMAIN all THEN all[name] ELSE NoService

Subset(cbs, subscribe) == [n \in {x \in DOMAIN cbs : cbs[x].isSubscribe = subscribe} |-> cbs[n]]

\* The map old after everything in new is stored in it.
Stored(new, old) ==
  [x \in DOMAIN new \cup DOMAIN old |-> IF x \in DOMAIN new THEN new[x] ELSE old[x]]

\* Mutant: registering a second receiver under a name replaces the first.
Registered_Replace(all, name, r) ==
  Stored([s \in {name} |-> [callbacks |-> Subset(suitableCallbacks(r), FALSE),
                            subscriptions |-> Subset(suitableCallbacks(r), TRUE)]], all)

\* The services once r is registered as name: the callbacks of a service that
\* exists already stay, unless r has one of the same name.
Registered(all, name, r) ==
  LET cbs == suitableCallbacks(r)
      old == Service(all, name)
  IN Stored([s \in {name} |-> [callbacks |-> Stored(Subset(cbs, FALSE), old.callbacks),
                               subscriptions |-> Stored(Subset(cbs, TRUE), old.subscriptions)]], all)

\* registerName: an error for no name, or for no suitable method.
RegisterName(r, name) ==
  /\ ~crashed /\ setting = Nil
  /\ r \in todo /\ todo' = todo \ {r}
  /\ services' = IF name = "" \/ DOMAIN suitableCallbacks(r) = {} THEN services
                 ELSE Registered(services, name, r)
  /\ UNCHANGED <<list, len, setting, sets, pc, locals, trace, answer, crashed, given, raced>>

InRunMethod == {g \in Goroutines : pc[g] = "wrap" /\ index[g] > 0}

\* setMiddlewares stores the words of a slice header, which its lock does not make
\* one step for runMethod, in an order that is the compiler's choice.
SetMiddlewares(new) ==
  /\ ~crashed /\ setting = Nil /\ sets > 0
  /\ setting' = new /\ sets' = sets - 1
  /\ \/ len' = Len(new) /\ UNCHANGED list
     \/ list' = new /\ UNCHANGED len
  /\ raced' = raced \cup InRunMethod
  /\ UNCHANGED <<services, todo, pc, locals, trace, answer, crashed, given>>

SetMiddlewaresDone ==
  /\ ~crashed /\ setting # Nil
  /\ list' = setting /\ len' = Len(setting) /\ setting' = Nil
  /\ raced' = raced \cup InRunMethod
  /\ UNCHANGED <<services, todo, sets, pc, locals, trace, answer, crashed, given>>

-----------------------------------------------------------------------------
(* Arguments.                                                              *)

\* newMessage marshals the arguments; other clients may put any texts into the
\* array "params", leave it out, or send null or something else.
Wire(vs) == [i \in DOMAIN vs |-> IF vs[i][1] = "raw" THEN vs[i][2] ELSE Marshal(vs[i])]
Params(m) == IF m.params = "array" THEN Wire(m.args) ELSE <<>>

\* parsePositionalArguments and parseArgumentArray fail: neither an array nor
\* nothing, too long, a value not of its type, or one missing that is no pointer.
invalidArguments(m, types) ==
  LET vals == Params(m) IN
  \/ m.params = "other" \/ Len(vals) > Len(types)
  \/ \E i \in DOMAIN types :
       IF i <= Len(vals) THEN Decode(types[i], vals[i]) = Bad ELSE types[i] # "opt"

\* The values they give otherwise: nil for pointers that are missing.
parsePositionalArguments(m, types) ==
  LET vals == Params(m)
  IN [i \in DOMAIN types |-> IF i <= Len(vals) THEN Decode(types[i], vals[i]) ELSE <<"nil">>]

-----------------------------------------------------------------------------
(* The call goroutines.                                                    *)

Lookup(table, name) == IF name \in DOMAIN table THEN table[name] ELSE Nil

\* Ends the call before a method is run.
Fail(g, err) ==
  /\ answer' = [answer EXCEPT ![g] = err] /\ pc' = [pc EXCEPT ![g] = "done"]
  /\ UNCHANGED <<callb, args>>

\* Goes on with runMethod, or fails if the arguments do not fit.
Found(g, cb, m) ==
  IF invalidArguments(m, cb.argTypes) THEN Fail(g, "invalidParams")
  ELSE /\ callb' = [callb EXCEPT ![g] = cb]
       /\ args' = [args EXCEPT ![g] = parsePositionalArguments(m, cb.argTypes)]
       /\ pc' = [pc EXCEPT ![g] = "run"] /\ UNCHANGED answer

\* handleCall: serviceRegistry.callback and the arguments.
HandleCall(g, m) ==
  /\ m.kind = "call"
  /\ LET cb == IF m.service = Nil THEN Nil ELSE Lookup(Service(services, m.service).callbacks, m.method)
     IN IF cb = Nil THEN Fail(g, "methodNotFound")
        ELSE Found(g, cb, m)

\* handleSubscribe: the subscription's name is the first argument; the others are
\* those of the callback.  HTTP connections have allowSubscribe unset.
HandleSubscribe(g, m) ==
  /\ m.kind = "subscribe"
  /\ LET cb == Lookup(Service(services, m.service).subscriptions, m.method)
     IN IF ~m.allow THEN Fail(g, "unsupported")
        ELSE IF m.params # "array" \/ m.method = Nil THEN Fail(g, "invalidParams")
        ELSE IF cb = Nil THEN Fail(g, "subscriptionNotFound")
        ELSE Found(g, cb, m)

HandleCallMsg(g, m) ==
  /\ ~crashed /\ setting = Nil /\ pc[g] = "idle"
  /\ msg' = [msg EXCEPT ![g] = m]
  /\ HandleCall(g, m) \/ HandleSubscribe(g, m)
  /\ UNCHANGED <<registry, index, chain, trace, crashed, given, raced>>

\* runMethod: the loop starts from the length of the slice ...
RunMethod(g) ==
  /\ ~crashed /\ pc[g] = "run"
  /\ index' = [index EXCEPT ![g] = len]
  /\ pc' = [pc EXCEPT ![g] = "wrap"]
  /\ given' = [given EXCEPT ![g] = list]
  /\ raced' = IF setting = Nil THEN raced ELSE raced \cup {g}
  /\ UNCHANGED <<registry, msg, callb, args, chain, trace, answer, crashed>>

\* Mutant: the first middleware becomes the innermost.
Wrap_Reverse(g) ==
  /\ ~crashed /\ pc[g] = "wrap" /\ index[g] > 0
  /\ LET i == index[g] IN
     IF i > len \/ i > Len(list) THEN crashed' = TRUE /\ UNCHANGED <<chain, index>>
     ELSE chain' = [chain EXCEPT ![g] = Append(@, list[i])] /\ index' = [index EXCEPT ![g] = i - 1] /\ UNCHANGED crashed
  /\ UNCHANGED <<registry, pc, msg, callb, args, trace, answer, given, raced>>

\* ... and reads the slice again for each index: beyond its length the process
\* panics outside of callback.call, beyond its array it reads a stray word.
Wrap(g) ==
  /\ ~crashed /\ pc[g] = "wrap" /\ index[g] > 0
  /\ LET i == index[g] IN
     IF i > len \/ i > Len(list) THEN crashed' = TRUE /\ UNCHANGED <<chain, index>>
     ELSE /\ chain' = [chain EXCEPT ![g] = <<list[i]>> \o @]
          /\ index' = [index EXCEPT ![g] = i - 1] /\ UNCHANGED crashed
  /\ UNCHANGED <<registry, pc, msg, callb, args, trace, answer, given, raced>>

\* What the method may give: an error if it returns one; without results, or with
\* a nil error only, the result is null.
Outcomes(cb) ==
  {"panic"} \cup (IF cb.errPos > 0 THEN {"error"} ELSE {})
            \cup (IF cb.outs = 0 \/ (cb.outs = 1 /\ cb.errPos = 1) THEN {"null"} ELSE {"result"})

\* The deferred function of callback.call makes a panic of the method an error.
Recovered(o) == IF o = "panic" THEN "error" ELSE o

\* The middlewares run from the outermost to the method and back.  The one at
\* depth d may answer without calling next.
Call(g) ==
  /\ ~crashed /\ pc[g] = "wrap" /\ index[g] = 0
  /\ LET ins(d) == [i \in 1..d |-> <<"in", chain[g][i]>>]
         outs(d) == [i \in 1..d |-> <<"out", chain[g][d + 1 - i]>>]
         n == Len(chain[g])
     IN \/ \E d \in 1..n :
             /\ trace' = [trace EXCEPT ![g] = ins(d) \o outs(d)]
             /\ answer' = [answer EXCEPT ![g] = "middleware"] /\ crashed' = FALSE
        \/ \E o \in Outcomes(callb[g]) :
             /\ trace' = [trace EXCEPT ![g] = ins(n) \o <<<<"run", args[g]>>>> \o outs(n)]
             /\ answer' = [answer EXCEPT ![g] = Recovered(o)]
             /\ crashed' = (Recovered(o) = "panic")
  /\ pc' = [pc EXCEPT ![g] = "done"]
  /\ UNCHANGED <<registry, locals, given, raced>>

-----------------------------------------------------------------------------

EmptyRegistry == [n \in {} |-> NoService]

\* NewServer has registered the "rpc" service.
Init ==
  /\ services = Registered(EmptyRegistry, "rpc", RpcReceiver)
  /\ todo = DOMAIN Receivers \ {RpcReceiver}
  /\ list = <<>> /\ len = 0 /\ setting = Nil /\ sets = MaxSets
  /\ pc = [g \in Goroutines |-> "idle"] /\ msg = [g \in Goroutines |-> Nil]
  /\ callb = [g \in Goroutines |-> Nil] /\ args = [g \in Goroutines |-> <<>>]
  /\ index = [g \in Goroutines |-> 0] /\ chain = [g \in Goroutines |-> <<>>]
  /\ trace = [g \in Goroutines |-> <<>>] /\ answer = [g \in Goroutines |-> Nil]
  /\ crashed = FALSE /\ given = [g \in Goroutines |-> <<>>] /\ raced = {}

Next ==
  \/ \E r \in todo, name \in Names : RegisterName(r, name)
  \/ \E new \in Lists : SetMiddlewares(new)
  \/ SetMiddlewaresDone
  \/ \E g \in Goroutines :
       \/ \E m \in Messages[g] : HandleCallMsg(g, m)
       \/ RunMethod(g) \/ Wrap(g) \/ Call(g)

Spec == Init /\ [][Next]_vars

-----------------------------------------------------------------------------
(* Properties.                                                             *)

\* The events t enter middlewares of l one after the other from the first, leave
\* those that were entered in the opposite order, and run the method between, when
\* all of l is entered.
Nests(t, l) ==
  \A j \in DOMAIN t :
    LET mirrored == Len(t) + 1 - j
    IN \/ /\ t[j][1] = "in" /\ j < mirrored /\ t[mirrored] = <<"out", t[j][2]>>
          /\ j <= Len(l) /\ t[j][2] = l[j]
       \/ t[j][1] = "run" /\ j = mirrored /\ j = Len(l) + 1
       \/ t[j][1] = "out" /\ mirrored < j /\ t[mirrored] = <<"in", t[j][2]>>

\* "Middlewares are executed in the order they are provided to SetMiddlewares", and
\* their second halves in reverse (README.md): so is the list in force, for a call
\* that does not overlap with SetMiddlewares.  Neither does any method bring the
\* process down.  For a call that does overlap the code promises neither.
MiddlewareOrder ==
  /\ crashed => raced # {}
  /\ \A g \in Goroutines \ raced : Nests(trace[g], given[g])

\* got are the arguments that m meant for parameters of these types.
Meant(m, types, got) ==
  LET sent == IF m.params = "array" THEN m.args ELSE <<>>
  IN /\ DOMAIN got = DOMAIN types /\ Len(sent) <= Len(types)
     /\ \A i \in DOMAIN types :
          IF i <= Len(sent) THEN SameBlock(sent[i], got[i])
          ELSE got[i] = <<"nil">> /\ types[i] = "opt"

\* The method a call ends up in gets, through newMessage, the wire and
\* parsePositionalArguments, the very blocks its caller named, and nil for
\* pointers left out; numbers that int64 cannot hold never arrive as others.
MeantBlock ==
  \A g \in Goroutines : \A j \in DOMAIN trace[g] :
    trace[g][j][1] = "run" => Meant(msg[g], callb[g].argTypes, trace[g][j][2])

\* Values that Go callers may pass for a parameter of each type: the named and
\* the natural numbers, and not both a number and a hash.
Acceptable(type, v) ==
  \/ v[1] = "num" /\ v[2] >= SafeBlockNumber
  \/ v[1] = "bnh" /\ type = "bnh" /\ (v[2] = Nil \/ (v[3] = Nil /\ v[2] >= SafeBlockNumber))
  \/ v[1] = "nil" /\ type \in {"opt", "bnh"}

\* A call of a Go client is not refused for its arguments if they are acceptable
\* for the method its receiver has under that name.
ValidAccepted ==
  \A g \in Goroutines : answer[g] = "invalidParams" /\ msg[g].params = "array" /\ msg[g].method # Nil =>
    \E r \in DOMAIN Receivers \ todo :
      /\ msg[g].method \in DOMAIN Receivers[r]
      /\ LET ins == Receivers[r][msg[g].method].ins
             vals == msg[g].args
         IN \/ Len(vals) > Len(ins)
            \/ \E i \in DOMAIN ins :
                 IF i > Len(vals) THEN ins[i] # "opt" ELSE ~Acceptable(ins[i], vals[i])

\* Whatever is registered while calls are under way, also under a name that is
\* taken: a method or subscription that could be called can be called ever after.
NothingUnregistered ==
  [][\A s \in DOMAIN services :
       /\ s \in DOMAIN services'
       /\ DOMAIN services[s].callbacks \subseteq DOMAIN services'[s].callbacks
       /\ DOMAIN services[s].subscriptions \subseteq DOMAIN services'[s].subscriptions]_vars

=============================================================================
