----------------------------- MODULE MCDailyBonus -----------------------------
(***************************************************************************)
(* Three days; two calls under one key, two more under keys of their own,  *)
(* each able to begin on any day and to commit on a later one.             *)
(***************************************************************************)
EXTENDS DailyBonus

Keys == {"k1", "k2", "k3"}
Calls == {"a", "retry", "b", "c"}
KeyOfCall == [a |-> "k1", retry |-> "k1", b |-> "k2", c |-> "k3"]
=============================================================================
