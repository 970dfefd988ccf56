--------------------------- MODULE MCOrderExecution ---------------------------
(***************************************************************************)
(* Orders for TLC: every path, with fallbacks and without, a fanout wider  *)
(* than its max, and a model no provider of the registry has.              *)
(***************************************************************************)
EXTENDS OrderExecution

Text ==
  [models |-> <<"a">>, fallbacks |-> <<>>, parallel |-> "none", max |-> 0,
   output |-> "text"]

MCOrders ==
  {Text,
   [Text EXCEPT !.fallbacks = <<"b">>],
   [Text EXCEPT !.output = "tokens", !.models = <<"x">>, !.fallbacks = <<"b">>],
   [Text EXCEPT !.output = "json", !.fallbacks = <<"b">>],
   [Text EXCEPT !.output = "json", !.fallbacks = <<"x", "b">>],
   [Text EXCEPT !.parallel = "race", !.models = <<"a", "b">>],
   [Text EXCEPT !.parallel = "race", !.models = <<"a", "x">>,
                !.output = "json"],
   [Text EXCEPT !.parallel = "fanout", !.models = <<"a", "b", "x">>, !.max = 2]}

MCCauses == {{}, {"timeout", "model"}, {"invalid"}}
=============================================================================
