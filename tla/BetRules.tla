------------------------------- MODULE BetRules -------------------------------
(***************************************************************************)
(* The rules of an entry, without state: bets/bets.constants.ts and the    *)
(* decisions of bets/bets.settlement.service.ts.                           *)
(***************************************************************************)
EXTENDS Integers, FiniteSets

CONSTANTS Market

MinPicks == 3
MaxPicks == 6
MinEffective == 2

PayoutMultipliersX100 == [n \in 2..6 |->
  CASE n = 2 -> 300 [] n = 3 -> 500 [] n = 4 -> 1000 [] n = 5 -> 2000 [] n = 6 -> 4000]

\* getMultiplierX100 and computePotentialPayout
Payout(stake, picks) == (stake * PayoutMultipliersX100[picks]) \div 100

\* What a market is final at for an upsert, and for settlement.
Resolved == {"resolved_yes", "resolved_no"}
Terminal == Resolved \cup {"void", "abandoned"}

PickOutcome(direction, final) ==
  CASE final \in {"void", "abandoned"} -> "void"
    [] final = "resolved_yes" -> IF direction = "yes" THEN "won" ELSE "lost"
    [] final = "resolved_no" -> IF direction = "no" THEN "won" ELSE "lost"

\* picks: the status of an entry's pick on each market, "none" without one.
With(picks, status) == {m \in Market : picks[m] = status}

\* effectivePicks: when none is lost or pending, those that are not void.
Effective(picks) == Cardinality(With(picks, "won"))

\* Bug: hasPending is looked at before hasLost
EntryOutcome_PendingFirst(picks) ==
  IF With(picks, "pending") # {} THEN "pending"
  ELSE IF With(picks, "lost") # {} THEN "lost"
  ELSE IF Effective(picks) < MinEffective THEN "void" ELSE "won"

\* settleEntry: lost as soon as a pick is, else undecided while one is open.
EntryOutcome(picks) ==
  IF With(picks, "lost") # {} THEN "lost"
  ELSE IF With(picks, "pending") # {} THEN "pending"
  ELSE IF Effective(picks) < MinEffective THEN "void" ELSE "won"
=============================================================================
