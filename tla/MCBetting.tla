----------------------------- MODULE MCBetting -----------------------------
(***************************************************************************)
(* The entries of MCBets, or the exposure of one market: the second is a   *)
(* closer look at AutoClose, and a behaviour is one of either.  The limits *)
(* are those of the code; three entries on one side reach the cap exactly, *)
(* the smallest of them reaches the least stake exactly.                   *)
(***************************************************************************)
EXTENDS MCBets, Exposure

Tickets == {"y1", "y2", "y3", "n1"}
TicketData == [t \in Tickets |->
  [stake |-> IF t = "y3" THEN 5000 ELSE 10000,
   picks |-> 6,
   direction |-> IF t = "n1" THEN "no" ELSE "yes"]]

BettingInit == Init /\ ExposureInit

BettingNext ==
  \/ ExposureInit /\ Next /\ UNCHANGED exposureVars
  \/ Init /\ ExposureNext /\ UNCHANGED vars

BettingSpec ==
  /\ BettingInit /\ [][BettingNext]_<<vars, exposureVars>>
  /\ \A w \in Worker : SF_vars(SettleLoop(w))
=============================================================================
