---------------------------- MODULE MCServerSub ----------------------------
(* Instances of ServerSub for TLC.                                         *)
EXTENDS ServerSub, FiniteSets

CONSTANTS s1, s2, s3

\* The second of three values of s1 does not marshal, nor does the answer to s3.
MCUnfit == {<<s1, 2>>, <<s3, 0>>}

\* A connection sees any two of the three subscribe requests.
TwoRequests == Cardinality({s \in Subs : pc[s] # "idle"}) <= 2
MCSpec == Init /\ [][Next /\ TwoRequests']_vars
=============================================================================
