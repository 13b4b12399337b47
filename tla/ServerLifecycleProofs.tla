----------------------- MODULE ServerLifecycleProofs -----------------------
(***************************************************************************)
(* Proofs about ServerLifecycle, for any number of connections and of      *)
(* goroutines that call Stop.                                              *)
(***************************************************************************)
EXTENDS ServerLifecycle, TLAPS

\* Only goroutines in Stop hold the mutex over a step, and the holder is the one
\* that closes codecs.
MutexInv == mutex \in Stoppers \cup {Nobody} /\ \A t \in Stoppers : stop[t] = "close" <=> mutex = t

\* Where ServeCodec is says where its client is and whether the codec is known.
ServeInv ==
  \A c \in Conns :
     /\ c \in codecs <=> serve[c] \in {"serve", "close", "untrack"}
     /\ dispatch[c] \in {"loop", "waitCalls", "lost"} => serve[c] \in {"serve", "close"}
     /\ serve[c] = "done" => c \in closed

\* Before Stop nothing is to be closed; from its first call on every known codec
\* is closed or about to be; what is to be closed is left to the holder of the
\* mutex, and when a call has returned nothing is left.
StopInv ==
  /\ run => (\A t \in Stoppers : stop[t] = "idle") /\ toClose = {}
  /\ ~run => codecs \subseteq closed \cup toClose
  /\ mutex = Nobody \/ Stopped => toClose = {}

Inv == TypeOK /\ MutexInv /\ ServeInv /\ StopInv

-----------------------------------------------------------------------------

\* A server that runs and has no connection.
LEMMA InitInv == Init => Inv
  BY LifecycleAssumption DEF Init, Inv, TypeOK, MutexInv, ServeInv, StopInv, Stopped

\* Every action preserves the invariant: those of a connection move its ServeCodec
\* along, those of Stop move codecs from toClose to closed.
LEMMA StepInv == Inv /\ [Next]_vars => Inv'
<1> SUFFICES ASSUME Inv, [Next]_vars PROVE Inv'
  OBVIOUS
<1> USE LifecycleAssumption DEF Inv, TypeOK, MutexInv, ServeInv, StopInv, Stopped, connVars, stopVars, GotoServe
<1>1. ASSUME NEW c \in Conns, Accept(c) PROVE Inv'
  BY <1>1 DEF Accept
<1>2. ASSUME NEW c \in Conns, trackCodec(c) PROVE Inv'
  BY <1>2 DEF trackCodec
<1>3. ASSUME NEW c \in Conns, CodecClosed(c) PROVE Inv'
  BY <1>3 DEF CodecClosed
<1>4. ASSUME NEW c \in Conns, ClientClosed(c) PROVE Inv'
  BY <1>4 DEF ClientClosed
<1>5. ASSUME NEW c \in Conns, untrackCodec(c) PROVE Inv'
  BY <1>5 DEF untrackCodec
<1>6. ASSUME NEW c \in Conns, ServeReturn(c) PROVE Inv'
  BY <1>6 DEF ServeReturn
<1>7. ASSUME NEW c \in Conns, MethodStart(c) PROVE Inv'
  BY <1>7 DEF MethodStart
<1>8. ASSUME NEW c \in Conns, MethodReturn(c) PROVE Inv'
  BY <1>8 DEF MethodReturn
<1>9. ASSUME NEW c \in Conns, HandlerClose(c) PROVE Inv'
  BY <1>9 DEF HandlerClose
<1>10. ASSUME NEW c \in Conns, HandlerClosed(c) PROVE Inv'
  BY <1>10 DEF HandlerClosed
<1>11. ASSUME NEW c \in Conns, DispatchQuit(c) PROVE Inv'
  BY <1>11 DEF DispatchQuit
<1>12. ASSUME NEW t \in Stoppers, Stop(t) PROVE Inv'
  BY <1>12 DEF Stop
<1>13. ASSUME NEW t \in Stoppers, StopClose(t) PROVE Inv'
  BY <1>13 DEF StopClose
<1>14. ASSUME NEW t \in Stoppers, StopReturn(t) PROVE Inv'
  BY <1>14 DEF StopReturn
<1>15. CASE UNCHANGED vars BY <1>15 DEF vars
<1> QED
  BY <1>1, <1>2, <1>3, <1>4, <1>5, <1>6, <1>7, <1>8, <1>9, <1>10, <1>11, <1>12, <1>13, <1>14, <1>15
  DEF Next, ServeStep, DispatchStep, StopStep, Finished

\* Inv holds in every reachable state of every instance.
THEOREM Invariance == Spec => []Inv
  BY InitInv, StepInv, PTL DEF Spec

\* The variables keep their types; in particular Stop ranges over a map that
\* nobody changes (server.go:191-200).
THEOREM TypeCorrect == Spec => []TypeOK
<1>1. Inv => TypeOK BY DEF Inv
<1> QED BY Invariance, <1>1, PTL

\* Once a call of Stop has returned no connection is served whose codec is open,
\* however many connections arrive and calls of Stop race (server.go:127-136, 190-200).
THEOREM StopClosesAllHolds == Spec => []StopClosesAll
<1>1. Inv => StopClosesAll
  BY DEF Inv, TypeOK, ServeInv, StopInv, StopClosesAll, Stopped
<1> QED BY Invariance, <1>1, PTL

\* A connection is in the table as long as its client runs and leaves it before
\* ServeCodec returns (server.go:109-143).
THEOREM TrackedWhileServedHolds == Spec => []TrackedWhileServed
<1>1. Inv => TrackedWhileServed
  BY DEF Inv, TypeOK, ServeInv, TrackedWhileServed
<1> QED BY Invariance, <1>1, PTL

=============================================================================
