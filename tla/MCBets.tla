-------------------------------- MODULE MCBets --------------------------------
(***************************************************************************)
(* Three markets, the smallest entry there is, submitted twice with one    *)
(* key by a client that changed its mind; two workers.  m1 is resolved     *)
(* alone or in bulk with m2, m2 both ways and m3 is voided, m2 perhaps too *)
(* so that every outcome of an entry is reached, and every pair of the     *)
(* last picks of an entry is settled by two workers at once.               *)
(***************************************************************************)
EXTENDS Bets

Markets == {"m1", "m2", "m3"}
Users == {"u"}
Requests == {"r1", "r2"}
AllOn(direction) == [m \in Markets |-> direction]
Slips == [r \in Requests |->
  IF r = "r1" THEN [user |-> "u", key |-> "k", stake |-> 1, picks |-> AllOn("yes")]
  ELSE [user |-> "u", key |-> "k", stake |-> 2, picks |-> AllOn("no")]]
Cash == [u \in Users |-> 1]

Batches == {[m1 |-> "resolved_yes", m2 |-> "resolved_yes"], [m2 |-> "resolved_no"]}
AdminCalls == {[market |-> "m3", final |-> "void"], [market |-> "m2", final |-> "void"]}
=============================================================================
