---------------------------- MODULE WsCodecProofs ----------------------------
(***************************************************************************)
(* Proofs about WsCodec: for any number of writers and any lengths of the  *)
(* timers, the connection to a peer that answers pings in time is kept,    *)
(* and for any list of origins the handshake lets in the ones they cover.  *)
(***************************************************************************)
EXTENDS WsCodec, TLAPS

\* The parts of the type that the argument needs.
Typed ==
  /\ spec \in Specs /\ origin \in Origins /\ stage \in {"new", "open", "refused"}
  /\ pingTimer \in Int /\ pong \in Nat \cup {Off} /\ deadline \in Int
  /\ writeErr \in BOOLEAN /\ closed \in BOOLEAN /\ alive \in BOOLEAN
  /\ stage = "new" => rpc = "none" /\ ppc = "none" /\ deadline = Off

\* While the peer answers, writing works and somebody reads: a read deadline is
\* running only between a ping and its pong.  It has not passed, because the pong
\* is due before it; and pingLoop is back in its select to take the pong, because
\* the timer that would make it leave does not fire before.  When the codec has been closed
\* the read loop no longer waits, and no time passes until it has ended.
DeadlineInv ==
  alive /\ ~writeErr /\ rpc \in {"read", "pong"} /\ deadline # Off =>
    /\ deadline \in 1 .. PongTimeout
    /\ closed \/ (ppc = "select" /\ pingTimer >= deadline)
    /\ closed \/ rpc = "pong" \/ (pong # Off /\ pong < deadline)

Inv == Typed /\ DeadlineInv /\ LivePeerKept /\ OriginChecked

-----------------------------------------------------------------------------
(* The handshake.                                                          *)

\* A rule allows the origin of a browser exactly if it is one that covers anything
\* and covers this one.
LEMMA RuleCovers ==
  ASSUME NEW r \in RuleTexts, NEW o \in OriginTexts
  PROVE  ruleAllowsOrigin(r, [o EXCEPT !.upper = FALSE]) <=>
           /\ ~ParseError(r) /\ ~(r.scheme = "" /\ r.port = "" /\ r.upper)
           /\ ~ParseError(o) /\ Covers(r, o)
<1> DEFINE b == [o EXCEPT !.upper = FALSE]
<1>1. b.scheme = o.scheme /\ b.host = o.host /\ b.port = o.port /\ b.upper = FALSE BY DEF OriginTexts
<1> HIDE DEF b
<1>2. Hostname(b) = <<o.host, FALSE>> BY <1>1 DEF Hostname
<1>3. ParseError(b) <=> ParseError(o) BY <1>1 DEF ParseError
<1>4. r.upper \in BOOLEAN /\ (r.scheme # "" \/ r.host # "" \/ r.port # "") BY DEF RuleTexts, OriginTexts
<1>5. CASE r.scheme = "" /\ r.port = "" /\ r.upper
  <2>1. Hostname(r) = <<r.host, r.upper>> /\ r.host # "" BY <1>4, <1>5 DEF Hostname
  <2>2. Hostname(r) # Hostname(b)
    <3>1. r.upper = TRUE BY <1>4, <1>5
    <3>2. <<r.host, TRUE>> # <<o.host, FALSE>> OBVIOUS
    <3> QED BY <1>2, <2>1, <3>1, <3>2
  <2>3. ~ruleAllowsOrigin(r, b) BY <2>1, <2>2 DEF ruleAllowsOrigin
  <2> QED BY <1>5, <2>3 DEF b
<1>6. CASE ~(r.scheme = "" /\ r.port = "" /\ r.upper)
  <2>1. Hostname(r) = <<r.host, FALSE>>
    <3>1. CASE r.scheme = "" /\ r.port = ""
      <4>1. r.upper = FALSE BY <1>4, <1>6, <3>1
      <4> QED BY <3>1, <4>1 DEF Hostname
    <3>2. CASE ~(r.scheme = "" /\ r.port = "") BY <3>2 DEF Hostname
    <3> QED BY <3>1, <3>2
  <2>2. Hostname(r) = Hostname(b) <=> r.host = o.host BY <1>2, <2>1
  <2>3. ruleAllowsOrigin(r, b) <=> ~ParseError(r) /\ ~ParseError(o) /\ Covers(r, o)
    BY <1>1, <1>3, <2>2 DEF ruleAllowsOrigin, Covers
  <2> QED BY <1>6, <2>3 DEF b
<1> QED BY <1>5, <1>6

\* wsHandshakeValidator decides as the rules together say.
LEMMA UpgradeOrigin == ASSUME Typed, Upgrade PROVE OriginChecked'
<1>1. /\ spec' = spec /\ origin' = origin /\ stage' = IF wsHandshakeValidator THEN "open" ELSE "refused"
  BY DEF Upgrade
<1>2. SUFFICES ASSUME origin # NoOrigin, Any \notin spec
               PROVE  LET rules == {r \in IF spec = {} THEN LocalHosts ELSE spec :
                                      ~ParseError(r) /\ ~(r.scheme = "" /\ r.port = "" /\ r.upper)}
                      IN wsHandshakeValidator <=> (~ParseError(origin) /\ \E r \in rules : Covers(r, origin))
  BY <1>1 DEF OriginChecked
<1> DEFINE R == IF spec = {} THEN LocalHosts ELSE spec
<1>3. origin \in OriginTexts /\ R \subseteq RuleTexts BY <1>2, WsAssumption DEF Typed
<1>4. (IF spec = {} THEN LocalHosts ELSE spec \ {Any}) = R BY <1>2
<1> HIDE DEF R
<1>5. wsHandshakeValidator <=> \E r \in R : ruleAllowsOrigin(r, [origin EXCEPT !.upper = FALSE])
  BY <1>2, <1>4 DEF wsHandshakeValidator
<1>6. wsHandshakeValidator <=>
        \E r \in R : /\ ~ParseError(r) /\ ~(r.scheme = "" /\ r.port = "" /\ r.upper)
                      /\ ~ParseError(origin) /\ Covers(r, origin)
  BY <1>3, <1>5, RuleCovers
<1> QED BY <1>6 DEF R

-----------------------------------------------------------------------------
(* The steps.                                                              *)

\* Before the handshake nothing runs and no deadline is set.
LEMMA InitInv == Init => Inv
<1> SUFFICES ASSUME Init PROVE Inv
  OBVIOUS
<1>1. /\ spec \in Specs /\ origin \in Origins /\ stage = "new" /\ rpc = "none" /\ ppc = "none"
      /\ pingTimer = Off /\ pong = Off /\ deadline = Off
  BY DEF Init
<1>2. writeErr \in BOOLEAN /\ closed \in BOOLEAN /\ alive \in BOOLEAN BY DEF Init
<1>3. Typed BY <1>1, <1>2 DEF Typed, Off
<1>4. DeadlineInv /\ LivePeerKept /\ OriginChecked BY <1>1 DEF DeadlineInv, LivePeerKept, OriginChecked
<1> QED BY <1>3, <1>4 DEF Inv

\* The timers, as numbers.
LEMMA Timers ==
  /\ PeerDelay \in Nat /\ PongTimeout \in Nat /\ PingInterval \in Nat
  /\ PeerDelay < PongTimeout /\ PongTimeout <= PingInterval /\ 0 < PongTimeout
  BY WsAssumption

\* A step that concerns neither the handshake nor the deadline, and does not make
\* a peer alive, a writer work or a codec open again.
LEMMA QuietStep ==
  ASSUME Inv, UNCHANGED <<spec, origin, stage, ppc, pingTimer, rpc, deadline, pong>>,
         alive' \in BOOLEAN, writeErr' \in BOOLEAN, closed' \in BOOLEAN,
         alive' => alive, writeErr => writeErr', closed => closed'
  PROVE  Inv'
  BY DEF Inv, Typed, DeadlineInv, LivePeerKept, OriginChecked

\* The handshake starts the goroutines, with no deadline.
LEMMA UpgradeStep == ASSUME Inv, Upgrade PROVE Inv'
<1> USE DEF Inv
<1>1. OriginChecked' BY UpgradeOrigin
<1>2. Typed' BY Timers DEF Typed, Upgrade, write, close, peer
<1>3. deadline' = Off BY DEF Typed, Upgrade
<1>4. DeadlineInv' BY <1>3 DEF DeadlineInv
<1>5. LivePeerKept' BY DEF LivePeerKept, Upgrade, Typed
<1> QED BY <1>1, <1>2, <1>4, <1>5

\* No other step than Upgrade concerns the handshake.
LEMMA HandshakeKept == ASSUME OriginChecked, UNCHANGED handshake PROVE OriginChecked'
  BY DEF OriginChecked, handshake

\* pingLoop sets the deadline as it sends a ping and removes it at the pong.
LEMMA PingStepInv == ASSUME Inv, PingStep PROVE Inv'
<1> USE DEF Inv, Typed, DeadlineInv, LivePeerKept, handshake, write, read, close, peer, Off
<1>1. CASE PingClosed BY <1>1, HandshakeKept DEF PingClosed
<1>2. CASE PingReset BY <1>2, Timers, HandshakeKept DEF PingReset
<1>3. CASE PingTimer BY <1>3, HandshakeKept DEF PingTimer
<1>4. CASE PingLock BY <1>4, HandshakeKept DEF PingLock
<1>5. CASE PingWritten
  <2>1. /\ ppc = "write" /\ deadline' = PongTimeout /\ ppc' = "select" /\ pingTimer' = PingInterval
        /\ UNCHANGED <<spec, origin, stage, rpc, closed, alive>>
    BY <1>5 DEF PingWritten
  <2>2. PingSent BY <1>5 DEF PingWritten
  <2>3. \/ alive /\ pong' \in 0 .. PeerDelay /\ writeErr' = writeErr
        \/ ~alive /\ pong' = pong /\ writeErr' = writeErr
        \/ writeErr' = TRUE /\ pong' = pong
    BY <2>2 DEF PingSent, Sent, Failed
  <2>4. OriginChecked' BY <2>1, HandshakeKept
  <2>5. Typed'
    <3>1. pong' \in Nat \cup {Off} BY <2>3, Timers
    <3>2. writeErr' \in BOOLEAN BY <2>3
    <3>3. deadline' \in Int /\ pingTimer' \in Int BY <2>1, Timers
    <3> QED BY <2>1, <3>1, <3>2, <3>3
  <2>6. LivePeerKept'
    <3>1. writeErr => writeErr' BY <2>3
    <3> QED BY <2>1, <3>1
  <2>7. DeadlineInv'
    <3>1. alive /\ ~writeErr' => pong' \in 0 .. PeerDelay BY <2>3
    <3> QED BY <2>1, <3>1, Timers
  <2> QED BY <2>4, <2>5, <2>6, <2>7
<1>6. CASE PongReceived BY <1>6, HandshakeKept DEF PongReceived, ping
<1> QED BY <1>1, <1>2, <1>3, <1>4, <1>5, <1>6 DEF PingStep

\* Reading fails only once the deadline has passed, the codec is closed or the peer is gone.
LEMMA ReadStepInv == ASSUME Inv, ReadStep \/ ReadUnasked PROVE Inv'
<1> USE DEF Inv, Typed, DeadlineInv, LivePeerKept, handshake, ping, write, close, peer, Off
<1>1. CASE PongHandlerClosed BY <1>1, HandshakeKept DEF PongHandlerClosed
<1>2. CASE ReadTimeout BY <1>2, HandshakeKept DEF ReadTimeout
<1>3. CASE ReadClosed BY <1>3, HandshakeKept DEF ReadClosed
<1>4. CASE ReadPong BY <1>4, HandshakeKept DEF ReadPong
<1>5. CASE ReadUnasked BY <1>5, HandshakeKept DEF ReadUnasked
<1> QED BY <1>1, <1>2, <1>3, <1>4, <1>5 DEF ReadStep

\* Time passes for nobody who has something to do.
LEMMA TickInv == ASSUME Inv, Tick PROVE Inv'
<1> USE DEF Inv
<1>1. /\ stage # "new" /\ pingTimer' = CountDown(pingTimer) /\ deadline' = CountDown(deadline)
      /\ pong' = CountDown(pong)
      /\ UNCHANGED <<spec, origin, stage, ppc, writeErr, rpc, closed, alive>>
  BY DEF Tick, handshake, close, peer
<1>2. /\ rpc = "read" => ~closed /\ pong # 0 /\ deadline # 0
      /\ rpc = "pong" => ~closed /\ ppc # "select"
  BY DEF Tick, Busy
<1>3. OriginChecked' BY <1>1, HandshakeKept DEF handshake
<1>4. Typed' BY <1>1 DEF Typed, CountDown
<1>5. LivePeerKept' BY <1>1 DEF LivePeerKept
<1>6. ASSUME alive, ~writeErr, rpc \in {"read", "pong"}, deadline' # Off
      PROVE  /\ deadline' \in 1 .. PongTimeout
             /\ closed \/ (ppc = "select" /\ pingTimer' >= deadline')
             /\ closed \/ rpc = "pong" \/ (pong' # Off /\ pong' < deadline')
  <2>1. deadline \in Int /\ pingTimer \in Int /\ pong \in Nat \cup {Off} /\ deadline # Off
    BY <1>1, <1>6 DEF Typed, CountDown, Off
  <2>2. /\ deadline \in 1 .. PongTimeout
        /\ closed \/ (ppc = "select" /\ pingTimer >= deadline)
        /\ closed \/ rpc = "pong" \/ (pong # Off /\ pong < deadline)
    BY <1>6, <2>1 DEF DeadlineInv
  <2>3. rpc = "read" /\ ppc = "select" /\ pingTimer >= deadline /\ pong # Off /\ pong < deadline /\ pong # 0
    BY <1>2, <1>6, <2>2
  <2>4. deadline' = deadline - 1 /\ pingTimer' = pingTimer - 1 BY <1>1, <2>1, <2>2, <2>3, Timers DEF CountDown
  <2>5. pong \in Nat /\ pong > 0 BY <2>1, <2>3
  <2>6. pong' = pong - 1 BY <1>1, <2>5 DEF CountDown
  <2> QED BY <2>1, <2>2, <2>3, <2>4, <2>5, <2>6, Timers DEF Off
<1>7. DeadlineInv' BY <1>1, <1>6 DEF DeadlineInv
<1> QED BY <1>3, <1>4, <1>5, <1>7

\* Every step keeps the invariant; time does by Tick.
LEMMA StepInv == Inv /\ [Next]_vars => Inv'
<1> SUFFICES ASSUME Inv, [Next]_vars PROVE Inv'
  OBVIOUS
<1>1. alive \in BOOLEAN /\ writeErr \in BOOLEAN /\ closed \in BOOLEAN BY DEF Inv, Typed
<1>2. ASSUME NEW w \in Writers, WriteStart(w) \/ WriteLock(w) \/ Written(w) PROVE Inv'
  <2>1. UNCHANGED <<spec, origin, stage, ppc, pingTimer, rpc, deadline, pong, alive, closed>>
    BY <1>2 DEF WriteStart, WriteLock, Written, handshake, ping, read, close, peer
  <2>2. writeErr' = writeErr \/ writeErr' = TRUE
    BY <1>2 DEF WriteStart, WriteLock, Written, Failed
  <2>3. writeErr' \in BOOLEAN /\ (writeErr => writeErr') BY <1>1, <2>2
  <2> QED BY <1>1, <2>1, <2>3, QuietStep
<1>3. CASE Close \/ CloseReturn
  <2>1. UNCHANGED <<spec, origin, stage, ppc, pingTimer, rpc, deadline, pong, alive, writeErr>>
    BY <1>3 DEF Close, CloseReturn, handshake, ping, write, read, peer
  <2>2. closed' = closed \/ closed' = TRUE BY <1>3 DEF Close, CloseReturn
  <2>3. closed' \in BOOLEAN /\ (closed => closed') BY <1>1, <2>2
  <2> QED BY <1>1, <2>1, <2>3, QuietStep
<1>4. CASE PeerDies
  <2>1. /\ UNCHANGED <<spec, origin, stage, ppc, pingTimer, rpc, deadline, writeErr, closed>>
        /\ alive' = FALSE /\ pong' = Off
    BY <1>4 DEF PeerDies, handshake, ping, write, read, close
  <2>2. OriginChecked' BY <2>1, HandshakeKept DEF Inv, handshake
  <2>3. alive' \in BOOLEAN BY <2>1
  <2>4. Typed' BY <2>1, <2>3 DEF Inv, Typed, Off
  <2>5. DeadlineInv' /\ LivePeerKept' BY <2>1 DEF DeadlineInv, LivePeerKept
  <2> QED BY <2>2, <2>4, <2>5 DEF Inv
<1>5. CASE UNCHANGED vars
  <2>1. UNCHANGED <<spec, origin, stage, ppc, pingTimer, rpc, deadline, pong, alive, writeErr, closed>>
    BY <1>5 DEF vars, handshake, ping, write, read, close, peer
  <2> QED BY <1>1, <2>1, QuietStep
<1> QED BY <1>2, <1>3, <1>4, <1>5, UpgradeStep, PingStepInv, ReadStepInv, TickInv DEF Next

-----------------------------------------------------------------------------
(* The theorems.                                                           *)

\* Inv holds in every reachable state of every instance.
THEOREM Invariance == Spec => []Inv
  BY InitInv, StepInv, PTL DEF Spec

\* However the goroutines interleave and whatever the lengths of the timers, as long
\* as the peer answers within wsPongTimeout and the next ping is not due before the
\* deadline, reading does not time out (websocket.go:294-376).
THEOREM LivePeerKeptHolds == Spec => []LivePeerKept
<1>1. Inv => LivePeerKept BY DEF Inv
<1> QED BY Invariance, <1>1, PTL

\* For every list of allowed origins and every Origin header, the handshake lets in
\* exactly the origins that are covered (websocket.go:71-108, 125-183).
THEOREM OriginCheckedHolds == Spec => []OriginChecked
<1>1. Inv => OriginChecked BY DEF Inv
<1> QED BY Invariance, <1>1, PTL

=============================================================================
