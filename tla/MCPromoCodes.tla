----------------------------- MODULE MCPromoCodes -----------------------------
(***************************************************************************)
(* A code for everyone, one for a single user and one worth nothing; two   *)
(* users, one of them with two keys and a retry; two connections.          *)
(***************************************************************************)
EXTENDS PromoCodes

Keys == {"k1", "k2", "k3"}
Calls == {"a", "retry", "b", "c"}
KeyOfCall == [a |-> "k1", retry |-> "k1", b |-> "k2", c |-> "k3"]

Users == {"u", "v"}
UserOfCall == [a |-> "u", retry |-> "u", b |-> "u", c |-> "v"]

Codes == {"gift", "single", "empty"}
WorthOf == [gift |-> 2, single |-> 1, empty |-> 0]
DatedCodes == {"single"}
LimitOf == [gift |-> None, single |-> 1, empty |-> None]
AsksOf == [a |-> {"gift"}, retry |-> {"gift"}, b |-> Codes, c |-> {"single", "empty"}]
=============================================================================
