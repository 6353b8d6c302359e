------------------------------ MODULE MCDeposits ------------------------------
(***************************************************************************)
(* One buyer, two checkouts of their own and a retry of the first under    *)
(* the same key.  The first gets every kind of event, the second only its  *)
(* payment; two handlers.                                                  *)
(***************************************************************************)
EXTENDS Deposits

Users == {"u"}
Packages == [spark |-> 5, rookie |-> 10]
Intents == {"i1", "i2", "retry"}
C(key, package) == [user |-> "u", key |-> key, package |-> package]
Calls == [i \in Intents |-> IF i = "i2" THEN C("k2", "rookie") ELSE C("k1", "spark")]

E(intent, type, matches) == [intent |-> intent, type |-> type, matches |-> matches]
Events == {E("i1", "session.completed", TRUE), E("i1", "session.completed", FALSE),
           E("i1", "session.failed", TRUE), E("i1", "session.expired", TRUE),
           E("i2", "session.completed", TRUE), E("retry", "session.completed", TRUE)}
=============================================================================
