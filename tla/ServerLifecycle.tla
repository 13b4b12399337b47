-------------------------- MODULE ServerLifecycle --------------------------
(***************************************************************************)
(* Server.ServeCodec, trackCodec, untrackCodec and Stop (rpc/server.go):   *)
(* a goroutine per connection, the dispatch goroutine of the client that   *)
(* ServeCodec makes for it (see RpcClient), at most one method call in     *)
(* progress per connection, and goroutines that call Stop.  Methods return *)
(* when they like or when their context is cancelled.                      *)
(***************************************************************************)
CONSTANTS Conns,     \* connections, each served by a ServeCodec goroutine
          Stoppers,  \* goroutines that call Stop
          Nobody     \* holder of a free mutex

ASSUME LifecycleAssumption == Nobody \notin Conns \cup Stoppers

VARIABLES
  serve,      \* the ServeCodec goroutine of each connection
  dispatch,   \* the dispatch goroutine of its client
  method,     \* a method call in progress
  cancelled,  \* connections whose handler's rootCtx is cancelled
  closed,     \* connections whose codec is closed
  run,        \* Server.run
  codecs,     \* Server.codecs
  mutex,      \* Server.mutex
  stop,       \* goroutines in Stop
  toClose     \* codecs that Stop has still to close

connVars == <<serve, dispatch, method, cancelled>>
stopVars == <<run, stop, toClose>>
vars == <<connVars, stopVars, closed, codecs, mutex>>

TypeOK ==
  /\ serve \in [Conns -> {"new", "track", "serve", "close", "untrack", "return", "done"}]
  /\ dispatch \in [Conns -> {"none", "loop", "waitCalls", "lost", "stopped"}]
  /\ method \in [Conns -> {"none", "running", "returned"}]
  /\ cancelled \subseteq Conns /\ closed \subseteq Conns /\ codecs \subseteq Conns
  /\ run \in BOOLEAN /\ mutex \in Conns \cup Stoppers \cup {Nobody}
  /\ stop \in [Stoppers -> {"idle", "close", "done"}]
  /\ toClose \subseteq codecs   \* Stop ranges over the map while nobody changes it

Init ==
  /\ serve = [c \in Conns |-> "new"] /\ dispatch = [c \in Conns |-> "none"]
  /\ method = [c \in Conns |-> "none"] /\ cancelled = {} /\ closed = {}
  /\ run = TRUE /\ codecs = {} /\ mutex = Nobody
  /\ stop = [t \in Stoppers |-> "idle"] /\ toClose = {}

GotoServe(c, l) == serve' = [serve EXCEPT ![c] = l]

-----------------------------------------------------------------------------
(* ServeCodec.                                                             *)

\* A connection arrives; ServeCodec is called.
Accept(c) ==
  /\ serve[c] = "new"
  /\ GotoServe(c, "track")
  /\ UNCHANGED <<dispatch, method, cancelled, stopVars, closed, codecs, mutex>>

\* Mutant: trackCodec does not look at the run flag.
trackCodec_NoCheck(c) ==
  /\ serve[c] = "track" /\ mutex = Nobody
  /\ codecs' = codecs \cup {c} /\ GotoServe(c, "serve")
  /\ dispatch' = [dispatch EXCEPT ![c] = "loop"]
  /\ UNCHANGED <<method, cancelled, stopVars, closed, mutex>>

\* trackCodec under the mutex; initClient starts dispatch.
trackCodec(c) ==
  /\ serve[c] = "track" /\ mutex = Nobody
  /\ IF run
     THEN /\ codecs' = codecs \cup {c} /\ GotoServe(c, "serve")
          /\ dispatch' = [dispatch EXCEPT ![c] = "loop"]
     ELSE GotoServe(c, "return") /\ UNCHANGED <<codecs, dispatch>>
  /\ UNCHANGED <<method, cancelled, stopVars, closed, mutex>>

\* <-codec.closed(): ServeCodec goes on to close the client.
CodecClosed(c) ==
  /\ serve[c] = "serve" /\ c \in closed
  /\ GotoServe(c, "close")
  /\ UNCHANGED <<dispatch, method, cancelled, stopVars, closed, codecs, mutex>>

\* Mutant: ServeCodec does not wait for its client.
ClientClosed_NoWait(c) ==
  /\ serve[c] = "close"
  /\ GotoServe(c, "untrack")
  /\ UNCHANGED <<dispatch, method, cancelled, stopVars, closed, codecs, mutex>>

\* c.Close() returns once dispatch has stopped.
ClientClosed(c) ==
  /\ serve[c] = "close" /\ dispatch[c] = "stopped"
  /\ GotoServe(c, "untrack")
  /\ UNCHANGED <<dispatch, method, cancelled, stopVars, closed, codecs, mutex>>

\* Mutant: the codec is deleted without taking the mutex.
untrackCodec_NoLock(c) ==
  /\ serve[c] = "untrack"
  /\ codecs' = codecs \ {c} /\ GotoServe(c, "return")
  /\ UNCHANGED <<dispatch, method, cancelled, stopVars, closed, mutex>>

untrackCodec(c) ==
  /\ serve[c] = "untrack" /\ mutex = Nobody
  /\ codecs' = codecs \ {c} /\ GotoServe(c, "return")
  /\ UNCHANGED <<dispatch, method, cancelled, stopVars, closed, mutex>>

\* The deferred codec.close().
ServeReturn(c) ==
  /\ serve[c] = "return"
  /\ closed' = closed \cup {c} /\ GotoServe(c, "done")
  /\ UNCHANGED <<dispatch, method, cancelled, stopVars, codecs, mutex>>

-----------------------------------------------------------------------------
(* The client of a connection, reduced to what closing it involves.        *)

\* A request is read and its method started.
MethodStart(c) ==
  /\ dispatch[c] = "loop" /\ c \notin closed /\ method[c] = "none"
  /\ method' = [method EXCEPT ![c] = "running"]
  /\ UNCHANGED <<serve, dispatch, cancelled, stopVars, closed, codecs, mutex>>

\* A method returns of itself ...
MethodReturn(c) ==
  /\ method[c] = "running"
  /\ method' = [method EXCEPT ![c] = "returned"]
  /\ UNCHANGED <<serve, dispatch, cancelled, stopVars, closed, codecs, mutex>>

\* ... or because its context has been cancelled.
MethodCancelled(c) == c \in cancelled /\ MethodReturn(c)

\* Reading fails, because the peer is gone or the codec has been closed, or
\* Close reaches dispatch first: handler.close is called.
HandlerClose(c) ==
  /\ dispatch[c] = "loop"
  /\ dispatch' = [dispatch EXCEPT ![c] = "waitCalls"]
  /\ UNCHANGED <<serve, method, cancelled, stopVars, closed, codecs, mutex>>

\* callWG.Wait, then cancelRoot, then the codec is closed.
HandlerClosed(c) ==
  /\ dispatch[c] = "waitCalls" /\ method[c] # "running"
  /\ cancelled' = cancelled \cup {c} /\ closed' = closed \cup {c}
  /\ dispatch' = [dispatch EXCEPT ![c] = "lost"]
  /\ UNCHANGED <<serve, method, stopVars, codecs, mutex>>

\* Dispatch receives from c.close, or has done so before, and quits.
DispatchQuit(c) ==
  /\ dispatch[c] = "lost" /\ serve[c] = "close"
  /\ dispatch' = [dispatch EXCEPT ![c] = "stopped"]
  /\ UNCHANGED <<serve, method, cancelled, stopVars, closed, codecs, mutex>>

-----------------------------------------------------------------------------
(* Stop.                                                                   *)

\* Stop locks the mutex; only the first call finds run set.
Stop(t) ==
  /\ stop[t] = "idle" /\ mutex = Nobody
  /\ mutex' = t /\ run' = FALSE
  /\ toClose' = IF run THEN codecs ELSE {}
  /\ stop' = [stop EXCEPT ![t] = "close"]
  /\ UNCHANGED <<connVars, closed, codecs>>

\* codec.close() for one of the codecs, in any order.
StopClose(t) ==
  /\ stop[t] = "close"
  /\ \E c \in toClose : closed' = closed \cup {c} /\ toClose' = toClose \ {c}
  /\ UNCHANGED <<connVars, run, stop, codecs, mutex>>

\* Mutant: Stop returns without closing what is left.
StopReturn_Early(t) ==
  /\ stop[t] = "close"
  /\ mutex' = Nobody /\ stop' = [stop EXCEPT ![t] = "done"]
  /\ UNCHANGED <<connVars, run, toClose, closed, codecs>>

StopReturn(t) ==
  /\ stop[t] = "close" /\ toClose = {}
  /\ mutex' = Nobody /\ stop' = [stop EXCEPT ![t] = "done"]
  /\ UNCHANGED <<connVars, run, toClose, closed, codecs>>

-----------------------------------------------------------------------------

ServeStep(c) ==
  trackCodec(c) \/ CodecClosed(c) \/ ClientClosed(c) \/ untrackCodec(c) \/ ServeReturn(c)

DispatchStep(c) == HandlerClosed(c) \/ DispatchQuit(c)

StopStep(t) == StopClose(t) \/ StopReturn(t)

Finished ==
  /\ \A c \in Conns : serve[c] = "done" /\ \A t \in Stoppers : stop[t] = "done"
  /\ UNCHANGED vars

Next ==
  \/ \E c \in Conns : Accept(c) \/ ServeStep(c) \/ DispatchStep(c)
                      \/ MethodStart(c) \/ MethodReturn(c) \/ HandlerClose(c)
  \/ \E t \in Stoppers : Stop(t) \/ StopStep(t)
  \/ Finished

Spec == Init /\ [][Next]_vars

\* Goroutines run, reading from a closed codec fails, and a method whose context
\* is cancelled returns; other methods may run for ever.
Fairness ==
  /\ \A c \in Conns : /\ WF_vars(ServeStep(c)) /\ WF_vars(DispatchStep(c))
                      /\ WF_vars(c \in closed /\ HandlerClose(c)) /\ WF_vars(MethodCancelled(c))
  /\ \A t \in Stoppers : WF_vars(StopStep(t))

FairSpec == Spec /\ Fairness

\* As FairSpec, and every method returns.
MethodsReturn == FairSpec /\ \A c \in Conns : WF_vars(MethodReturn(c))

-----------------------------------------------------------------------------
(* Properties.                                                             *)

Stopped == \E t \in Stoppers : stop[t] = "done"

\* When any call of Stop has returned, every connection that is being served has
\* had its codec closed, and none is served afterwards: trackCodec and Stop
\* agree on run under the mutex, however connections and Stop race.
StopClosesAll ==
  Stopped => \A c \in Conns : c \in codecs \/ dispatch[c] = "loop" => c \in closed

\* A served connection stays in the table until its client has shut down, so that
\* Stop can find it, and leaves it before ServeCodec returns.
TrackedWhileServed ==
  \A c \in Conns :
     /\ dispatch[c] \notin {"none", "stopped"} => c \in codecs
     /\ serve[c] = "done" => c \notin codecs /\ c \in closed

\* If methods return, then after Stop every ServeCodec does.
StopEndsServing == \A c \in Conns : (Stopped /\ serve[c] = "serve") ~> (serve[c] = "done")

=============================================================================
