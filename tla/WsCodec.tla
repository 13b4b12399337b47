------------------------------ MODULE WsCodec ------------------------------
(***************************************************************************)
(* The websocket codec (rpc/websocket.go): the origin check of the         *)
(* handshake, then pingLoop, the read loop with its pong handler,          *)
(* goroutines in writeJSON and close, on one connection to a peer that     *)
(* may be slow or dead.  Time is discrete: timers and deadlines count      *)
(* down, and a tick passes when no goroutine has anything to do.           *)
(***************************************************************************)
EXTENDS Integers

CONSTANTS
  Writers,       \* goroutines that call writeJSON
  Specs,         \* lists of allowed origins a server may be configured with, as sets
  Origins,       \* Origin headers, NoOrigin if there is none
  NoOrigin, Any, \* no header; the specification "*"
  LocalHosts,    \* localhost and os.Hostname
  Nobody,        \* holder of a free mutex
  PingLoop,      \* the goroutine in pingLoop
  PingInterval, PongTimeout, PingWriteTimeout, WriteTimeout,  \* wsPingInterval ..., in ticks
  PeerDelay,     \* bound: ticks a peer that is alive takes to answer a ping
  Window         \* bound: messages the network takes after the peer has died

\* An origin as it is written: scheme and port may be left out (""), the host may
\* be numeric, and letters may be in upper case.
OriginTexts == [scheme : {"", "http", "https"}, host : {"", "name", "other", "number"},
                port : {"", "80"}, upper : BOOLEAN]

\* wsHandshakeValidator leaves an empty text out of the origins it allows.
RuleTexts == {o \in OriginTexts : o.scheme # "" \/ o.host # "" \/ o.port # ""}

\* wsPingInterval and wsPongTimeout are both 30 seconds, and the deadline is set
\* just before the timer is started again: the timer does not fire earlier.
ASSUME WsAssumption ==
  /\ Nobody # PingLoop /\ Nobody \notin Writers /\ PingLoop \notin Writers
  /\ \A S \in Specs : S \subseteq RuleTexts \cup {Any}
  /\ Origins \subseteq OriginTexts \cup {NoOrigin} /\ LocalHosts \subseteq RuleTexts
  /\ {PingInterval, PongTimeout, PingWriteTimeout, WriteTimeout, PeerDelay} \subseteq Nat \ {0}
  /\ PeerDelay < PongTimeout /\ PongTimeout <= PingInterval /\ Window \in Nat

Off == -1   \* a timer that is not running, no deadline, no pong on its way

VARIABLES
  spec, origin,  \* allowedOrigins, the Origin header of the request
  stage,         \* the connection: being opened, refused, open
  ppc,           \* pingLoop
  pingTimer,     \* ticks until it fires; 0: its channel holds a value
  pingReset,     \* the channel pingReset (capacity 1) is full
  encMu,         \* jsonCodec.encMu
  wpc,           \* goroutines in writeJSON
  left,          \* ticks until the write deadline of the write in progress
  writeErr,      \* writing has failed, which it then does for ever
  rpc,           \* the read loop: reading, in the pong handler, ended
  deadline,      \* ticks until the read deadline
  pong,          \* ticks until the peer's pong arrives
  closer,        \* a goroutine in close
  closed,        \* closeCh is closed, and the connection with it
  alive, window  \* the peer; what the network still takes when it is dead

handshake == <<spec, origin, stage>>
ping == <<ppc, pingTimer>>
write == <<encMu, wpc, left, writeErr>>
read == <<rpc, deadline>>
close == <<closer, closed>>
peer == <<alive, window>>
vars == <<handshake, ping, pingReset, write, read, pong, close, peer>>

Init ==
  /\ spec \in Specs /\ origin \in Origins /\ stage = "new"
  /\ ppc = "none" /\ pingTimer = Off /\ pingReset = FALSE
  /\ encMu = Nobody /\ wpc = [w \in Writers |-> "idle"] /\ left = 0 /\ writeErr = FALSE
  /\ rpc = "none" /\ deadline = Off /\ pong = Off
  /\ closer = "idle" /\ closed = FALSE
  /\ alive = TRUE /\ window = Window

-----------------------------------------------------------------------------
(* The handshake.                                                          *)

\* parseOriginURL.  Without a scheme the host is taken from the text before it was
\* put into lower case, unless there is a port; with a port, url.Parse fails for a
\* numeric host and for none.
ParseError(o) == o.scheme = "" /\ o.host \in {"", "number"} /\ o.port # ""
Hostname(o) == IF o.scheme = "" /\ o.port = "" THEN <<o.host, o.upper>> ELSE <<o.host, FALSE>>

\* Mutant: the port is not looked at.
ruleAllowsOrigin_AnyPort(rule, o) ==
  /\ ~ParseError(rule) /\ ~ParseError(o)
  /\ rule.scheme \in {"", o.scheme} /\ (rule.host = "" \/ Hostname(rule) = Hostname(o))

ruleAllowsOrigin(rule, o) ==
  /\ ~ParseError(rule) /\ ~ParseError(o)
  /\ rule.scheme \in {"", o.scheme}
  /\ rule.host = "" \/ Hostname(rule) = Hostname(o)
  /\ rule.port \in {"", o.port}

\* wsHandshakeValidator: no header, or allowed by one of the origins, which are
\* those of the local host if none is given.
wsHandshakeValidator ==
  LET rules   == IF spec = {} THEN LocalHosts ELSE spec \ {Any}
      browser == [origin EXCEPT !.upper = FALSE]
  IN \/ origin = NoOrigin
     \/ Any \in spec
     \/ \E rule \in rules : ruleAllowsOrigin(rule, browser)

\* WebsocketHandler; newWebsocketCodec starts pingLoop, ServeCodec the read loop.
Upgrade ==
  /\ stage = "new"
  /\ IF wsHandshakeValidator
     THEN stage' = "open" /\ ppc' = "select" /\ pingTimer' = PingInterval /\ rpc' = "read"
     ELSE stage' = "refused" /\ UNCHANGED <<ppc, pingTimer, rpc>>
  /\ UNCHANGED <<spec, origin, pingReset, write, deadline, pong, close, peer>>

-----------------------------------------------------------------------------
(* pingLoop, a case of its select each.                                    *)

PingClosed ==
  /\ ppc = "select" /\ closed
  /\ ppc' = "done" /\ pingTimer' = Off
  /\ UNCHANGED <<handshake, pingReset, write, read, pong, close, peer>>

\* A message was written: Stop fails, and its channel has to be drained, only if
\* the timer's value was received before; then the timer starts again.
PingReset ==
  /\ ppc = "select" /\ pingReset
  /\ pingReset' = FALSE
  /\ IF pingTimer = Off THEN ppc' = "drain" /\ UNCHANGED pingTimer
     ELSE pingTimer' = PingInterval /\ UNCHANGED ppc
  /\ UNCHANGED <<handshake, write, read, pong, close, peer>>

\* The timer has fired; encMu.Lock comes first.
PingTimer ==
  /\ ppc = "select" /\ pingTimer = 0
  /\ ppc' = "lock" /\ pingTimer' = Off
  /\ UNCHANGED <<handshake, pingReset, write, read, pong, close, peer>>

PingLock ==
  /\ ppc = "lock" /\ encMu = Nobody
  /\ encMu' = PingLoop /\ left' = PingWriteTimeout
  /\ ppc' = "write"
  /\ UNCHANGED <<handshake, pingTimer, pingReset, wpc, writeErr, read, pong, close, peer>>

\* A write ends: at once if it must fail, in time if the network takes the message
\* (and a ping that reaches the peer is answered), or at its deadline.
Broken == writeErr \/ closed
Sent == ~Broken /\ (alive \/ window > 0) /\ window' = IF alive THEN window ELSE window - 1
Failed == (Broken \/ left = 0) /\ writeErr' = TRUE

\* WriteMessage for a ping; its error is ignored.
PingSent ==
  \/ /\ Sent /\ UNCHANGED writeErr
     /\ IF alive THEN pong' \in 0 .. PeerDelay ELSE UNCHANGED pong
  \/ Failed /\ UNCHANGED <<window, pong>>

\* The ping is written; then the read deadline, unlock and Reset.  A deadline that
\* has passed is moved on like any other, if the reader has not run yet.
PingWritten ==
  /\ ppc = "write" /\ PingSent
  /\ deadline' = PongTimeout /\ encMu' = Nobody
  /\ ppc' = "select" /\ pingTimer' = PingInterval
  /\ UNCHANGED <<handshake, pingReset, wpc, left, rpc, close, alive>>

\* Mutant: the deadline stays.
PongReceived_Keep ==
  /\ ppc = "select" /\ rpc = "pong"
  /\ rpc' = "read"
  /\ UNCHANGED <<handshake, ping, pingReset, write, deadline, pong, close, peer>>

\* The rendezvous with the pong handler removes the deadline.
PongReceived ==
  /\ ppc = "select" /\ rpc = "pong"
  /\ rpc' = "read" /\ deadline' = Off
  /\ UNCHANGED <<handshake, ping, pingReset, write, pong, close, peer>>

-----------------------------------------------------------------------------
(* The read loop.                                                          *)

\* The pong has arrived: the pong handler runs.
ReadPong ==
  /\ rpc = "read" /\ ~closed /\ pong = 0
  /\ rpc' = "pong" /\ pong' = Off
  /\ UNCHANGED <<handshake, ping, pingReset, write, deadline, close, peer>>

\* A pong that nobody asked for, perhaps while another is on its way.
ReadUnasked ==
  /\ rpc = "read" /\ ~closed /\ alive
  /\ rpc' = "pong"
  /\ UNCHANGED <<handshake, ping, pingReset, write, deadline, pong, close, peer>>

\* Mutant: the pong handler does not watch the codec.
PongHandlerClosed_Stuck ==
  /\ FALSE
  /\ UNCHANGED vars

\* The pong handler finds the codec closed.
PongHandlerClosed ==
  /\ rpc = "pong" /\ closed
  /\ rpc' = "read"
  /\ UNCHANGED <<handshake, ping, pingReset, write, deadline, pong, close, peer>>

\* Reading fails: the deadline has passed or the connection is closed.
ReadTimeout ==
  /\ rpc = "read" /\ deadline = 0
  /\ rpc' = "timeout"
  /\ UNCHANGED <<handshake, ping, pingReset, write, deadline, pong, close, peer>>

ReadClosed ==
  /\ rpc = "read" /\ closed
  /\ rpc' = "failed"
  /\ UNCHANGED <<handshake, ping, pingReset, write, deadline, pong, close, peer>>

-----------------------------------------------------------------------------
(* writeJSON and close.                                                    *)

WriteStart(w) ==
  /\ stage = "open" /\ wpc[w] = "idle"
  /\ wpc' = [wpc EXCEPT ![w] = "lock"]
  /\ UNCHANGED <<handshake, ping, pingReset, encMu, left, writeErr, read, pong, close, peer>>

WriteLock(w) ==
  /\ wpc[w] = "lock" /\ encMu = Nobody
  /\ encMu' = w /\ left' = WriteTimeout
  /\ wpc' = [wpc EXCEPT ![w] = "write"]
  /\ UNCHANGED <<handshake, ping, pingReset, writeErr, read, pong, close, peer>>

\* Mutant: pingLoop is told of messages that were not written.
Written_Always(w) ==
  /\ wpc[w] = "write"
  /\ \/ Sent /\ UNCHANGED writeErr
     \/ Failed /\ UNCHANGED window
  /\ pingReset' = TRUE /\ encMu' = Nobody
  /\ wpc' = [wpc EXCEPT ![w] = "idle"]
  /\ UNCHANGED <<handshake, ping, left, read, pong, close, alive>>

\* The message is written and pingLoop told, unless it already has been; or not.
Written(w) ==
  /\ wpc[w] = "write"
  /\ \/ Sent /\ pingReset' = TRUE /\ UNCHANGED writeErr
     \/ Failed /\ UNCHANGED <<window, pingReset>>
  /\ encMu' = Nobody
  /\ wpc' = [wpc EXCEPT ![w] = "idle"]
  /\ UNCHANGED <<handshake, ping, left, read, pong, close, alive>>

\* close, by the user of the codec, who also does so when reading has failed.
Close ==
  /\ stage = "open" /\ closer = "idle"
  /\ closer' = "wait" /\ closed' = TRUE
  /\ UNCHANGED <<handshake, ping, pingReset, write, read, pong, peer>>

\* wg.Wait.
CloseReturn ==
  /\ closer = "wait" /\ ppc = "done"
  /\ closer' = "done"
  /\ UNCHANGED <<handshake, ping, pingReset, write, read, pong, closed, peer>>

-----------------------------------------------------------------------------
(* The peer and the passing of time.                                       *)

\* The peer dies, or the network to it: what is under way is lost.
PeerDies ==
  /\ stage = "open" /\ alive
  /\ alive' = FALSE /\ pong' = Off
  /\ UNCHANGED <<handshake, ping, pingReset, write, read, close, window>>

CountDown(t) == IF t > 0 THEN t - 1 ELSE t

\* Somebody has something to do now.
Busy ==
  \/ ppc = "select" /\ (closed \/ pingReset \/ pingTimer = 0 \/ rpc = "pong")
  \/ ppc = "lock" /\ encMu = Nobody
  \/ (ppc = "write" \/ \E w \in Writers : wpc[w] = "write") /\ (left = 0 \/ Broken)
  \/ \E w \in Writers : wpc[w] = "lock" /\ encMu = Nobody
  \/ rpc = "read" /\ (pong = 0 \/ deadline = 0 \/ closed)
  \/ rpc = "pong" /\ closed

Tick ==
  /\ stage # "new" /\ ~Busy
  /\ pingTimer' = CountDown(pingTimer) /\ deadline' = CountDown(deadline)
  /\ pong' = CountDown(pong) /\ left' = CountDown(left)
  /\ UNCHANGED <<handshake, ppc, pingReset, encMu, wpc, writeErr, rpc, close, peer>>

-----------------------------------------------------------------------------

PingStep == PingClosed \/ PingReset \/ PingTimer \/ PingLock \/ PingWritten \/ PongReceived
ReadStep == PongHandlerClosed \/ ReadTimeout \/ ReadClosed \/ ReadPong

Next ==
  \/ Upgrade \/ PingStep \/ ReadStep \/ ReadUnasked
  \/ \E w \in Writers : WriteStart(w) \/ WriteLock(w) \/ Written(w)
  \/ Close \/ CloseReturn \/ PeerDies \/ Tick

Spec == Init /\ [][Next]_vars

\* Goroutines run, a mutex that is released again and again is obtained, time goes
\* on, and the codec is closed when reading has failed.
Fairness ==
  /\ SF_vars(PingStep) /\ WF_vars(ReadStep) /\ SF_vars(Tick)
  /\ \A w \in Writers : SF_vars(WriteLock(w)) /\ WF_vars((left = 0 \/ Broken) /\ Written(w))
  /\ WF_vars(rpc \in {"timeout", "failed"} /\ Close) /\ WF_vars(CloseReturn)

FairSpec == Spec /\ Fairness

-----------------------------------------------------------------------------
(* Properties.                                                             *)

\* The connection to a peer that answers pings within wsPongTimeout is not given
\* up, whatever is written meanwhile and whether the pong meets pingLoop before
\* or after it has set the read deadline, as long as writing works.
LivePeerKept == rpc = "timeout" => ~alive \/ writeErr

\* A peer that has died is noticed, even if messages are written to it all the
\* time, which puts off the ping as long as the network takes them.  As the next
\* ping is due when the deadline passes, pingLoop may move the deadline on before
\* the reader runs; the one way not to notice is that it wins this race for ever.
DeadPeerNoticed ==
  \/ (stage = "open" /\ ~alive) ~> (rpc \in {"timeout", "failed"})
  \/ []<><<rpc = "read" /\ deadline = 0 /\ deadline' = PongTimeout>>_vars

\* close returns and ends pingLoop and the read loop, also when the one is waiting
\* for the encoder and the other for pingLoop to take a pong.
CloseEndsAll == closed ~> (closer = "done" /\ ppc = "done" /\ rpc \in {"timeout", "failed"})

\* Any text that says the same origin: the parts that a rule gives are those of the
\* browser, in upper or lower case.
Covers(rule, o) ==
  /\ rule.scheme \in {"", o.scheme} /\ rule.host \in {"", o.host} /\ rule.port \in {"", o.port}

\* A browser is let in exactly if an allowed origin covers its own, and by default
\* exactly from the local host; but a rule of a bare host name in upper case
\* covers nothing, and neither does a port without a scheme after a number or alone.
OriginChecked ==
  stage # "new" /\ origin # NoOrigin /\ Any \notin spec =>
    LET rules == {r \in IF spec = {} THEN LocalHosts ELSE spec :
                    ~ParseError(r) /\ ~(r.scheme = "" /\ r.port = "" /\ r.upper)}
    IN (stage = "open") <=> (~ParseError(origin) /\ \E r \in rules : Covers(r, origin))

=============================================================================
