------------------------------ MODULE MCPaging ------------------------------
(***************************************************************************)
(* A deposit with its first-purchase bonus (two rows of one transaction),  *)
(* a stake, and a payout, within two milliseconds of two instants each.    *)
(***************************************************************************)
EXTENDS Paging

CONSTANTS deposit, stake, payout

Txs == {deposit, stake, payout}

\* The ids of the rows are in no order with respect to their times.
TxPosts ==
  [t \in Txs |->
     CASE t = deposit -> {[id |-> 1, kind |-> "deposit_purchase"],
                          [id |-> 4, kind |-> "deposit_first_purchase_bonus"]}
       [] t = stake   -> {[id |-> 2, kind |-> "bet_stake"]}
       [] t = payout  -> {[id |-> 3, kind |-> "bet_payout"]}]
=============================================================================
