---------------------------- MODULE MCRateLimiter -----------------------------
(* A direct sender and one behind a proxy that forges the address of the other. *)
EXTENDS RateLimiter
MCForged == {<<>>, <<"direct">>, <<"direct", "">>}
MCEvents == [e \in ExpensiveEndpoints |-> 2]
===============================================================================
