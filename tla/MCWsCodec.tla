----------------------------- MODULE MCWsCodec -----------------------------
(* Instances of WsCodec for TLC.                                           *)
EXTENDS WsCodec

CONSTANT w1

Text(s, h, p, u) == [scheme |-> s, host |-> h, port |-> p, upper |-> u]
Local == {Text("http", "name", "", FALSE)}

\* Browsers send scheme, host and perhaps port; other programs send anything.
SomeOrigins ==
  {NoOrigin, Text("http", "name", "", FALSE), Text("http", "name", "80", TRUE),
   Text("https", "other", "", FALSE), Text("", "number", "80", FALSE)}

SomeSpecs ==
  {{}, {Any}, {Text("http", "name", "", TRUE)}, {Text("", "name", "", TRUE)},
   {Text("", "name", "80", TRUE)}, {Text("https", "", "", FALSE), Text("", "name", "", FALSE)},
   {Text("", "number", "80", FALSE), Text("", "", "80", FALSE)}}
=============================================================================
