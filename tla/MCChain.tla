------------------------------- MODULE MCChain -------------------------------
(* Three loops; b and c trigger each other in a circle and c also listens to  *)
(* the artifact of another loop.                                              *)
EXTENDS Chain, TLC

CONSTANTS a, b, c, e, f, published

MCOrder == <<a, b, c>>
MCOn == a :> {f} @@ b :> {e} @@ c :> {f, published}

Nothing == [events |-> <<>>, sent |-> FALSE, keys |-> 0, artifact |-> FALSE, proposals |-> 0]
Full(evs) == [events |-> evs, sent |-> TRUE, keys |-> 1, artifact |-> TRUE, proposals |-> 1]
MCOutputs == {Full(<<>>), Full(<<f, e>>), [Nothing EXCEPT !.events = <<e>>]}
=============================================================================
