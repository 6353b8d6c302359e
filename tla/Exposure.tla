------------------------------ MODULE Exposure ------------------------------
(***************************************************************************)
(* bets/market-exposure.service.ts for one market: the exposure is summed  *)
(* by one statement and the market closed by another, for each entry after *)
(* its commit, by a call nobody waits for; meanwhile entries are placed    *)
(* and settled and workers write the market's status.  AutoClose of module *)
(* Bets is what is left of this when amounts are forgotten.                *)
(***************************************************************************)
EXTENDS BetRules, FiniteSetsExt, Functions

CONSTANTS
  Ticket,         \* entries with a pick on the market
  TicketOf,       \* their data: [stake, picks, direction]
  MinStakeCents, MaxSidePayoutCents  \* EXPOSURE_MIN_STAKE_CENTS, _MAX_SIDE_PAYOUT_CENTS

ASSUME TicketAssumption ==
  TicketOf \in [Ticket -> [stake : Nat, picks : MinPicks..MaxPicks, direction : {"yes", "no"}]]

ASSUME LimitsAssumption == MinStakeCents \in Nat /\ MaxSidePayoutCents \in Nat

VARIABLES
  listing,  \* markets.status: "open", "closed" (or "proposed"), "final"
  stand,    \* an entry: not begun, its market seen open, pending, or decided
  check,    \* what the exposure check of its placement is at
  loose     \* history: the limits that something else than a placement may
            \*   have put the market over since exposure was last summed

exposureVars == <<listing, stand, check, loose>>

Limit == {"skew", "cap"}

ExposureInit ==
  /\ listing = "open"
  /\ stand = [t \in Ticket |-> "new"]
  /\ check = [t \in Ticket |-> "none"]
  /\ loose = {}

-----------------------------------------------------------------------------
(* computeExposure: the pending picks of pending entries. *)

Counted == {t \in Ticket : stand[t] = "pending"}

StakeOf(t) == TicketOf[t].stake
PayoutOf(t) == Payout(TicketOf[t].stake, TicketOf[t].picks)

TotalStake(S) == SumFunctionOnSet([t \in Ticket |-> StakeOf(t)], S)
SidePayout(S, d) ==
  SumFunctionOnSet([t \in Ticket |-> PayoutOf(t)], {t \in S : TicketOf[t].direction = d})
Dominant(S) == Max({SidePayout(S, "yes"), SidePayout(S, "no")})

Skewed(S) == 100 * Dominant(S) >= 80 * (SidePayout(S, "yes") + SidePayout(S, "no"))
Capped(S) == Dominant(S) >= MaxSidePayoutCents

Over(limit, S) ==
  /\ S # {} /\ TotalStake(S) >= MinStakeCents
  /\ IF limit = "skew" THEN Skewed(S) ELSE Capped(S)

Tripped(S) == \E limit \in Limit : Over(limit, S)

-----------------------------------------------------------------------------
\* placeEntry before its transaction.
SeeOpen(t) ==
  /\ stand[t] = "new" /\ listing = "open"
  /\ stand' = [stand EXCEPT ![t] = "seen"]
  /\ UNCHANGED <<listing, check, loose>>

\* Bug: the exposure is summed before the entry is committed.
Commits_ChecksFirst(t) ==
  /\ stand[t] = "seen"
  /\ stand' = [stand EXCEPT ![t] = "pending"]
  /\ check' = [check EXCEPT ![t] = IF Tripped(Counted) THEN "close" ELSE "done"]
  /\ UNCHANGED <<listing, loose>>

\* The entry is committed, then the check is started.
Commits(t) ==
  /\ stand[t] = "seen"
  /\ stand' = [stand EXCEPT ![t] = "pending"]
  /\ check' = [check EXCEPT ![t] = "sum"]
  /\ UNCHANGED <<listing, loose>>

ComputeExposure(t) ==
  /\ check[t] = "sum"
  /\ check' = [check EXCEPT ![t] = IF Tripped(Counted) THEN "close" ELSE "done"]
  /\ loose' = {}
  /\ UNCHANGED <<listing, stand>>

CloseIfOpen(t) ==
  /\ check[t] = "close"
  /\ listing' = IF listing = "open" THEN "closed" ELSE listing
  /\ check' = [check EXCEPT ![t] = "done"]
  /\ UNCHANGED <<stand, loose>>

\* The error is logged, or the process dies.
CheckFails(t) ==
  /\ check[t] \in {"sum", "close"}
  /\ check' = [check EXCEPT ![t] = "done"]
  /\ loose' = Limit
  /\ UNCHANGED <<listing, stand>>

-----------------------------------------------------------------------------
\* The entry, or its pick on the market, is decided: what is left on the two
\* sides may be more uneven, but is not more.
Decides(t) ==
  /\ stand[t] = "pending"
  /\ stand' = [stand EXCEPT ![t] = "decided"]
  /\ loose' = loose \cup {"skew"}
  /\ UNCHANGED <<listing, check>>

\* upsert, upsertBulk: a worker writes the status it was asked to write.  Which
\* markets it leaves alone rests on an earlier read (module Bets).
Upsert(status) ==
  /\ listing # status
  /\ listing' = status
  /\ loose' = IF status = "open" THEN Limit ELSE loose
  /\ UNCHANGED <<stand, check>>

ExposureNext ==
  \/ \E t \in Ticket : \/ SeeOpen(t) \/ Commits(t) \/ Decides(t)
                       \/ ComputeExposure(t) \/ CloseIfOpen(t) \/ CheckFails(t)
  \/ \E status \in {"open", "closed", "final"} : Upsert(status)

ExposureSpec == ExposureInit /\ [][ExposureNext]_exposureVars

-----------------------------------------------------------------------------
(***************************************************************************)
(* Checks that overlap do not miss each other's entries: once no check is  *)
(* under way, a market that is open is within its limits - unless a check  *)
(* failed, a worker opened it again or, for the skew, an entry was decided *)
(* since exposure was last summed, for then nobody looks.                  *)
(***************************************************************************)
LimitsHoldWhenChecked ==
  listing = "open" /\ (\A t \in Ticket : check[t] \in {"none", "done"}) =>
    \A limit \in Limit \ loose : ~Over(limit, Counted)
=============================================================================
