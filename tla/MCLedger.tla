------------------------------- MODULE MCLedger -------------------------------
(***************************************************************************)
(* Jobs for the wallet ledger: the smallest ones that collide.  Two jobs   *)
(* share a user's row, one has two posts (a deposit with its first-        *)
(* purchase bonus), one spends, one is the amount post refuses, and one is *)
(* posted under the same id for another user.                              *)
(***************************************************************************)
EXTENDS Ledger

P(i, c, a) == [id |-> i, currency |-> c, amount |-> a]

Users == {"u", "v"}
TwoCurrencies == {"cashable", "locked"}
Ids == {"deposit", "first_purchase", "daily", "stake", "zero"}

Deposit == [user |-> "u", posts |-> <<P("deposit", "locked", 2), P("first_purchase", "locked", 2)>>]
Daily == [user |-> "u", posts |-> <<P("daily", "cashable", 1)>>]
Stake == [user |-> "u", posts |-> <<P("stake", "cashable", -1)>>]
Other == [user |-> "v", posts |-> <<P("daily", "cashable", 1)>>]
Zero == [user |-> "u", posts |-> <<P("zero", "cashable", 0)>>]

Jobs == {Deposit, Daily, Stake, Zero, Other}
=============================================================================
