---------------------------- MODULE MCClientSub ----------------------------
(* Instances of ClientSub for TLC.                                         *)
EXTENDS ClientSub, TLC

CONSTANTS s1, s2, s3, u1, u2

\* Either s1 alone, on a client that connects again once: its request may be
\* answered twice, its buffer overflow, and two goroutines unsubscribe it; or s2
\* and s3, which gets a value that does not unmarshal and so unsubscribes while
\* dispatch serves s2 too, share a connection until it is lost.
ManyUnsub == (s1 :> {u1, u2}) @@ (s2 :> {}) @@ (s3 :> {})
ManyNotes == (s1 :> 3) @@ (s2 :> 1) @@ (s3 :> 1)
ManyBad   == (s1 :> {}) @@ (s2 :> {}) @@ (s3 :> {1})

Made == {s \in Subs : subscriber[s] = "idle"}
MCInit ==
  /\ Init
  /\ \/ dials = MaxDials /\ Made = {s1}
     \/ dials = 0 /\ Made = {s2, s3}
MCSpec == MCInit /\ [][Next]_vars /\ Fairness
=============================================================================
