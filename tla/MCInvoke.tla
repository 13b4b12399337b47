------------------------------ MODULE MCInvoke ------------------------------
(* Instances of Invoke for TLC.                                            *)
EXTENDS Invoke, TLC

CONSTANTS g1, g2, m1, m2, m3, h1

Method(ctx, ins, outs) == [ctx |-> ctx, ins |-> ins, outs |-> outs]

\* "eth" and "eth2" share a method name with different parameters; "none" has no
\* suitable method.
SmallReceivers ==
  [rpc |-> [modules |-> Method(FALSE, <<>>, <<"val">>)],
   eth |-> [get |-> Method(TRUE, <<"num", "opt">>, <<"val", "err">>),
            heads |-> Method(TRUE, <<"bnh">>, <<"sub", "err">>),
            three |-> Method(FALSE, <<>>, <<"val", "val", "err">>)],
   eth2 |-> [get |-> Method(FALSE, <<"bnh">>, <<"err">>), ping |-> Method(TRUE, <<>>, <<>>)],
   none |-> [swapped |-> Method(TRUE, <<>>, <<"err", "val">>)]]

\* The numbers with names and the boundaries, in the forms callers can give them.
Nums == {<<"num", n>> : n \in -5..0 \cup {MaxInt64}}
Ors == {<<"bnh", n, h, n = Nil>> : n \in {Nil, -5, -4}, h \in {Nil, h1}}
Raws == {<<"raw", <<"hex", n>>>> : n \in {MaxInt64 + 1, MaxUint64, MaxUint64 + 1}}
        \cup {<<"raw", <<"hash", h1>>>>, <<"raw", <<"junk">>>>}
SomeValues == Nums \cup Ors \cup Raws \cup {<<"nil">>}

Msg(k, s, m, p, a) == [kind |-> k, service |-> s, method |-> m, params |-> p, args |-> a, allow |-> TRUE]

Gets == {Msg("call", "eth", "get", "array", a) : a \in {<<v>> : v \in SomeValues} \cup {<<>>}
           \cup {<<v, w>> : v \in {<<"num", 3>>}, w \in {<<"nil">>, <<"num", -1>>}}
           \cup {<<<<"num", 3>>, <<"nil">>, <<"nil">>>>}}
Heads == {Msg("subscribe", "eth", "heads", p, a) : p \in {"array", "absent"},
            a \in {<<<<"bnh", Nil, h1, TRUE>>>>, <<>>}}
         \cup {Msg("subscribe", "eth", m, "array", <<>>) : m \in {"tails", Nil}}
Others == {Msg("call", "eth", "ping", p, <<>>) : p \in {"absent", "other"}}
          \cup {Msg("call", Nil, "get", "absent", <<>>), Msg("call", "none", "swapped", "absent", <<>>),
                [Msg("subscribe", "eth", "heads", "array", <<>>) EXCEPT !.allow = FALSE]}

SmallMessages ==
  (g1 :> Gets \cup Heads \cup Others) @@ (g2 :> {Msg("call", "rpc", "modules", "absent", <<>>)})

SmallLists == {<<>>, <<m1>>, <<m2, m3>>}
=============================================================================
