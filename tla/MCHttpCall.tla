---------------------------- MODULE MCHttpCall ----------------------------
(* Instances of HttpCall for TLC.                                         *)
EXTENDS HttpCall, SequencesExt

Request(b, m) == [batch |-> b, msgs |-> m]

\* Every batch of up to four messages, and every single message.
SmallRequests ==
  {Request(TRUE, m) : m \in SeqOf(Kinds, 4)} \cup {Request(FALSE, <<k>>) : k \in Kinds}

\* Every HTTP request with a body of at most one unit more than the limit allows;
\* only GET requests have a query, and other methods than POST no content type.
SmallWebs ==
  {w \in [method : {"GET", "POST", "PUT", "OPTIONS"}, query : BOOLEAN, known : BOOLEAN,
          size : 0..(BodyLimit + 1), accepted : BOOLEAN, body : {"empty", "json", "broken"}] :
     /\ (w.size = 0) <=> (w.body = "empty")
     /\ w.query => w.method = "GET"
     /\ w.accepted => w.method = "POST"}
=============================================================================
