--------------------------------- MODULE Bets ---------------------------------
(***************************************************************************)
(* Prediction-market entries, from placement to settlement:                *)
(*   bets/bets.service.ts             placeEntry                           *)
(*   bets/bets.settlement.service.ts  settlePicksForMarket, settleEntry    *)
(*   markets/markets.service.ts       upsert, upsertBulk                   *)
(*   bets/bets.controller.ts          settleMarket                         *)
(*                                                                         *)
(* A transaction whose only shared rows are locked until its commit is one *)
(* step; the ledger posts in it are the one-step promise of module Wallet, *)
(* for one currency.  What the code does in several steps - checks before  *)
(* a transaction, reads before an upsert, the settlement loop over the     *)
(* entries of a market - is in several steps here.  That a market with     *)
(* open bets may be closed by bets/market-exposure.service.ts is all this  *)
(* module knows of it.                                                     *)
(***************************************************************************)
EXTENDS BetRules, Functions

CONSTANTS User,
          Request,    \* calls of placeEntry, each with the entry id it would use
          Slip,       \* its body: [user, key, stake, picks], picks: market -> direction
          Worker, NoRequest, NoMarket,
          Batch,      \* bodies of the upsert endpoints: functions market -> status
          AdminCall,  \* calls of settle-market: [market, final]
          InitialCash

ASSUME CashAssumption == InitialCash \in [User -> Nat]

ASSUME SlipAssumption ==
  \A r \in Request : /\ Slip[r].user \in User
                     /\ Slip[r].stake \in Nat \ {0}
                     /\ DOMAIN Slip[r].picks \subseteq Market
                     /\ IsFiniteSet(DOMAIN Slip[r].picks)
                     /\ Cardinality(DOMAIN Slip[r].picks) \in MinPicks..MaxPicks
                     /\ Slip[r].picks \in [DOMAIN Slip[r].picks -> {"yes", "no"}]

ASSUME FreshAssumption == NoRequest \notin Request

VARIABLES
  market,  \* markets.status
  entry,   \* bet_entries.status, "none" before the entry exists
  pick,    \* bet_picks.status of each entry
  cash,    \* balances.sweeps_cashable_cents
  posted,  \* wallet_ledger: the (kind, entry) that were posted
  rpc,     \* where each placeEntry call is
  wpc,     \* where each worker request is
  batch,   \* what it has still to write, then to settle
  target,  \* the market it settles
  todo,    \* the entries it has still to settle for that market
  cur,     \* the entry whose row it has locked
  snap     \* what it read there: the entry's status and picks

workerVars == <<wpc, batch, target, todo, cur, snap>>
vars == <<market, entry, pick, cash, posted, rpc, workerVars>>

MarketStatus == {"proposed", "open", "closed"} \cup Terminal
PickStatus == {"none", "pending", "won", "lost", "void"}
EntryStatus == {"none", "pending", "won", "lost", "void"}

ASSUME BatchAssumption ==
  /\ \A b \in Batch : DOMAIN b \subseteq Market /\ b \in [DOMAIN b -> MarketStatus]
  /\ \A call \in AdminCall : call.market \in Market

Kind == {"bet_stake", "bet_payout", "bet_refund"}
NoPicks == [m \in Market |-> "none"]
NoSnap == [status |-> "none", picks |-> NoPicks]
NoBatch == [m \in {} |-> "open"]

TypeOK ==
  /\ market \in [Market -> MarketStatus]
  /\ entry \in [Request -> EntryStatus]
  /\ pick \in [Request -> [Market -> PickStatus]]
  /\ cash \in [User -> Nat]
  /\ posted \subseteq Kind \X Request
  /\ rpc \in [Request -> {"new", "looked", "checked", "placed", "replayed", "rejected"}]
  /\ wpc \in [Worker -> {"idle", "write", "collect", "loop", "settle"}]
  /\ \A w \in Worker : /\ DOMAIN batch[w] \subseteq Market
                       /\ \A m \in DOMAIN batch[w] : batch[w][m] \in MarketStatus
  /\ target \in [Worker -> Market \cup {NoMarket}]
  /\ todo \in [Worker -> SUBSET Request]
  /\ cur \in [Worker -> Request \cup {NoRequest}]
  /\ snap \in [Worker -> [status : EntryStatus, picks : [Market -> PickStatus]]]

Init ==
  /\ market = [m \in Market |-> "open"]
  /\ entry = [r \in Request |-> "none"]
  /\ pick = [r \in Request |-> NoPicks]
  /\ cash = InitialCash
  /\ posted = {}
  /\ rpc = [r \in Request |-> "new"]
  /\ wpc = [w \in Worker |-> "idle"]
  /\ batch = [w \in Worker |-> NoBatch]
  /\ target = [w \in Worker |-> NoMarket]
  /\ todo = [w \in Worker |-> {}]
  /\ cur = [w \in Worker |-> NoRequest]
  /\ snap = [w \in Worker |-> NoSnap]

-----------------------------------------------------------------------------
(* LedgerService.post, inside the transaction of the step that calls it. *)

\* Bug: the overdraft check is dropped
CanPost_Unfunded(kind, r, amount) == <<kind, r>> \notin posted

CanPost(kind, r, amount) ==
  <<kind, r>> \notin posted /\ cash[Slip[r].user] + amount >= 0

Post(kind, r, amount) ==
  /\ posted' = posted \cup {<<kind, r>>}
  /\ cash' = [cash EXCEPT ![Slip[r].user] = @ + amount]

-----------------------------------------------------------------------------
(* placeEntry *)

SameKey(r, s) == Slip[r].user = Slip[s].user /\ Slip[r].key = Slip[s].key

\* Bug: the unique index is on the entry's id alone
KeyTaken_PerCall(r) == entry[r] # "none"

\* findEntryByIdemKey, and the unique index bet_entries_user_idem_uq
KeyTaken(r) == \E s \in Request : entry[s] # "none" /\ SameKey(r, s)

Answer(r, answer) ==
  /\ rpc' = [rpc EXCEPT ![r] = answer]
  /\ UNCHANGED <<market, entry, pick, cash, posted, workerVars>>

LookUpKey(r) ==
  /\ rpc[r] = "new"
  /\ Answer(r, IF KeyTaken(r) THEN "replayed" ELSE "looked")

AllOpen(r) == \A m \in DOMAIN Slip[r].picks : market[m] = "open"

CheckMarkets(r) ==
  /\ rpc[r] = "looked"
  /\ Answer(r, IF AllOpen(r) THEN "checked" ELSE "rejected")

PlaceEntry(r) ==
  /\ rpc[r] = "checked"
  /\ ~KeyTaken(r)
  /\ CanPost("bet_stake", r, -Slip[r].stake)
  /\ Post("bet_stake", r, -Slip[r].stake)
  /\ entry' = [entry EXCEPT ![r] = "pending"]
  /\ pick' = [pick EXCEPT ![r] =
       [m \in Market |-> IF m \in DOMAIN Slip[r].picks THEN "pending" ELSE "none"]]
  /\ rpc' = [rpc EXCEPT ![r] = "placed"]
  /\ UNCHANGED <<market, workerVars>>

\* The insert fails on the unique index: the entry of that key is the answer.
ReplayEntry(r) ==
  /\ rpc[r] = "checked"
  /\ KeyTaken(r)
  /\ Answer(r, "replayed")

RefuseStake(r) ==
  /\ rpc[r] = "checked"
  /\ ~KeyTaken(r)
  /\ ~CanPost("bet_stake", r, -Slip[r].stake)
  /\ Answer(r, "rejected")

\* The update checkAndCloseIfNeeded makes: it has read a pending pick of a
\* pending entry, and the market is open when it writes.
AutoClose(m) ==
  /\ market[m] = "open"
  /\ \E r \in Request : entry[r] # "none" /\ m \in DOMAIN Slip[r].picks
  /\ market' = [market EXCEPT ![m] = "closed"]
  /\ UNCHANGED <<entry, pick, cash, posted, rpc, workerVars>>

-----------------------------------------------------------------------------
(* upsert and upsertBulk: filter what is terminal, write, settle. *)

Without(f, m) == [n \in DOMAIN f \ {m} |-> f[n]]

UpsertRead(w, b) ==
  LET live == {m \in DOMAIN b : market[m] \notin Resolved} IN
  /\ wpc[w] = "idle"
  /\ live # {}
  /\ batch' = [batch EXCEPT ![w] = [m \in live |-> b[m]]]
  /\ wpc' = [wpc EXCEPT ![w] = "write"]
  /\ UNCHANGED <<market, entry, pick, cash, posted, rpc, target, todo, cur, snap>>

UpsertWrite(w) ==
  LET b == batch[w]
      settle == {m \in DOMAIN b : b[m] \in Resolved}
  IN
  /\ wpc[w] = "write"
  /\ market' = [m \in Market |-> IF m \in DOMAIN b THEN b[m] ELSE market[m]]
  /\ batch' = [batch EXCEPT ![w] = [m \in settle |-> b[m]]]
  /\ wpc' = [wpc EXCEPT ![w] = IF settle = {} THEN "idle" ELSE "collect"]
  /\ UNCHANGED <<entry, pick, cash, posted, rpc, target, todo, cur, snap>>

\* POST admin/settle-market: the status is the caller's, not the market's.
AdminSettle(w, call) ==
  /\ wpc[w] = "idle"
  /\ call.final \in Terminal
  /\ batch' = [batch EXCEPT ![w] = [m \in {call.market} |-> call.final]]
  /\ wpc' = [wpc EXCEPT ![w] = "collect"]
  /\ UNCHANGED <<market, entry, pick, cash, posted, rpc, target, todo, cur, snap>>

-----------------------------------------------------------------------------
(* settlePicksForMarket: the entries with a pending pick, one by one. *)

Collect(w, m) ==
  /\ wpc[w] = "collect"
  /\ m \in DOMAIN batch[w]
  /\ target' = [target EXCEPT ![w] = m]
  /\ todo' = [todo EXCEPT ![w] = {r \in Request : pick[r][m] = "pending"}]
  /\ wpc' = [wpc EXCEPT ![w] = "loop"]
  /\ UNCHANGED <<market, entry, pick, cash, posted, rpc, batch, cur, snap>>

\* Bug: the entry is read without FOR UPDATE
LockEntry_NoForUpdate(w, r) ==
  /\ wpc[w] = "loop"
  /\ r \in todo[w]
  /\ cur' = [cur EXCEPT ![w] = r]
  /\ snap' = [snap EXCEPT ![w] = [status |-> entry[r], picks |-> pick[r]]]
  /\ wpc' = [wpc EXCEPT ![w] = "settle"]
  /\ UNCHANGED <<market, entry, pick, cash, posted, rpc, batch, target, todo>>

\* settleEntry's SELECT .. FOR UPDATE, and its read of the entry's picks.
LockEntry(w, r) ==
  /\ wpc[w] = "loop"
  /\ r \in todo[w]
  /\ \A v \in Worker : cur[v] # r
  /\ cur' = [cur EXCEPT ![w] = r]
  /\ snap' = [snap EXCEPT ![w] = [status |-> entry[r], picks |-> pick[r]]]
  /\ wpc' = [wpc EXCEPT ![w] = "settle"]
  /\ UNCHANGED <<market, entry, pick, cash, posted, rpc, batch, target, todo>>

\* Bug: the row lock outlives the transaction
NextEntry_KeepsLock(w) ==
  /\ todo' = [todo EXCEPT ![w] = @ \ {cur[w]}]
  /\ wpc' = [wpc EXCEPT ![w] = "loop"]
  /\ UNCHANGED <<market, rpc, batch, target, cur, snap>>

\* The transaction of an entry ends, and the loop goes on.
NextEntry(w) ==
  /\ todo' = [todo EXCEPT ![w] = @ \ {cur[w]}]
  /\ cur' = [cur EXCEPT ![w] = NoRequest]
  /\ snap' = [snap EXCEPT ![w] = NoSnap]
  /\ wpc' = [wpc EXCEPT ![w] = "loop"]
  /\ UNCHANGED <<market, rpc, batch, target>>

AlreadySettled(w) ==
  /\ wpc[w] = "settle"
  /\ snap[w].status # "pending"
  /\ NextEntry(w)
  /\ UNCHANGED <<entry, pick, cash, posted>>

\* The picks with the outcome of this market filled in, from what was read.
Projected(w) ==
  LET m == target[w] IN
  IF snap[w].picks[m] = "pending"
  THEN [snap[w].picks EXCEPT ![m] = PickOutcome(Slip[cur[w]].picks[m], batch[w][m])]
  ELSE snap[w].picks

\* Bug: the payout is computed from the picks as placed, voids included
Settlement_AsPlaced(r, picks) ==
  CASE EntryOutcome(picks) = "won"  ->
         [kind |-> "bet_payout", amount |-> Payout(Slip[r].stake, Cardinality(DOMAIN Slip[r].picks))]
    [] EntryOutcome(picks) = "void" -> [kind |-> "bet_refund", amount |-> Slip[r].stake]
    [] OTHER                        -> [kind |-> "bet_stake", amount |-> 0]

\* Bug: markEntryVoid sets the status and refunds nothing
Settlement_NoRefund(r, picks) ==
  IF EntryOutcome(picks) = "won"
  THEN [kind |-> "bet_payout", amount |-> Payout(Slip[r].stake, Effective(picks))]
  ELSE [kind |-> "bet_stake", amount |-> 0]

\* The kind and amount settleEntry posts for an outcome, 0 for no post.
Settlement(r, picks) ==
  CASE EntryOutcome(picks) = "won"  -> [kind |-> "bet_payout", amount |-> Payout(Slip[r].stake, Effective(picks))]
    [] EntryOutcome(picks) = "void" -> [kind |-> "bet_refund", amount |-> Slip[r].stake]
    [] OTHER                        -> [kind |-> "bet_stake", amount |-> 0]

\* UPDATE of the pick (WHERE status = 'pending'), of the entry, and the post.
SettleEntry(w) ==
  LET r == cur[w]
      m == target[w]
      p == Projected(w)
      s == Settlement(r, p)
  IN
  /\ wpc[w] = "settle"
  /\ snap[w].status = "pending"
  /\ pick' = [pick EXCEPT ![r][m] = IF @ = "pending" THEN p[m] ELSE @]
  /\ entry' = IF EntryOutcome(p) = "pending" THEN entry
              ELSE [entry EXCEPT ![r] = EntryOutcome(p)]
  /\ IF s.amount = 0 THEN UNCHANGED <<cash, posted>>
     ELSE CanPost(s.kind, r, s.amount) /\ Post(s.kind, r, s.amount)
  /\ NextEntry(w)

\* An error in settleEntry is caught and logged; the loop goes on.
SettleFails(w) ==
  /\ wpc[w] = "settle"
  /\ NextEntry(w)
  /\ UNCHANGED <<entry, pick, cash, posted>>

MarketDone(w) ==
  LET rest == Without(batch[w], target[w]) IN
  /\ wpc[w] = "loop"
  /\ todo[w] = {}
  /\ batch' = [batch EXCEPT ![w] = rest]
  /\ target' = [target EXCEPT ![w] = NoMarket]
  /\ wpc' = [wpc EXCEPT ![w] = IF DOMAIN rest = {} THEN "idle" ELSE "collect"]
  /\ UNCHANGED <<market, entry, pick, cash, posted, rpc, todo, cur, snap>>

\* The process dies; Postgres rolls back what it had not committed.
Crash(w) ==
  /\ wpc[w] # "idle"
  /\ wpc' = [wpc EXCEPT ![w] = "idle"]
  /\ batch' = [batch EXCEPT ![w] = NoBatch]
  /\ target' = [target EXCEPT ![w] = NoMarket]
  /\ todo' = [todo EXCEPT ![w] = {}]
  /\ cur' = [cur EXCEPT ![w] = NoRequest]
  /\ snap' = [snap EXCEPT ![w] = NoSnap]
  /\ UNCHANGED <<market, entry, pick, cash, posted, rpc>>

-----------------------------------------------------------------------------
Place(r) == LookUpKey(r) \/ CheckMarkets(r) \/ PlaceEntry(r) \/ ReplayEntry(r) \/ RefuseStake(r)

SettleLoop(w) ==
  \/ \E m \in Market : Collect(w, m)
  \/ \E r \in Request : LockEntry(w, r)
  \/ AlreadySettled(w)
  \/ SettleEntry(w)
  \/ MarketDone(w)

Next ==
  \/ \E r \in Request : Place(r)
  \/ \E m \in Market : AutoClose(m)
  \/ \E w \in Worker :
       \/ \E b \in Batch : UpsertRead(w, b)
       \/ \E call \in AdminCall : AdminSettle(w, call)
       \/ UpsertWrite(w)
       \/ SettleLoop(w)
       \/ SettleFails(w)
       \/ Crash(w)

Spec == Init /\ [][Next]_vars

(***************************************************************************)
(* A worker request that is not cut short goes on.  Strong fairness: the   *)
(* lock of an entry's row is held by one settlement at a time, and         *)
(* Postgres hands it over in the order of the queue of waiters.            *)
(***************************************************************************)
FairSpec == Spec /\ \A w \in Worker : SF_vars(SettleLoop(w))

-----------------------------------------------------------------------------
EntriesOf(u) == {r \in Request : Slip[r].user = u /\ entry[r] # "none"}

(* What an entry has moved on the wallet, by its status. *)
Moved(r) ==
  CASE entry[r] \in {"pending", "lost"} -> -Slip[r].stake
    [] entry[r] = "won" -> Payout(Slip[r].stake, Effective(pick[r])) - Slip[r].stake
    [] OTHER -> 0

(***************************************************************************)
(* However placements and settlements interleave, fail or are repeated, a  *)
(* bettor's balance is what it was, less the stakes of the entries that    *)
(* exist, plus what the picks stored for each settled entry are worth.     *)
(***************************************************************************)
MoneyMatchesEntries ==
  \A u \in User :
    cash[u] = InitialCash[u] + SumFunctionOnSet([r \in Request |-> Moved(r)], EntriesOf(u))

(***************************************************************************)
(* The ledger posts of settleEntry and placeEntry are made once each and   *)
(* with the status they belong to: a stake for every entry, a payout for   *)
(* exactly those that are won, a refund for exactly those that are void.   *)
(***************************************************************************)
PostsMatchStatus ==
  \A r \in Request :
    /\ <<"bet_stake", r>> \in posted <=> entry[r] # "none"
    /\ <<"bet_payout", r>> \in posted <=> entry[r] = "won"
    /\ <<"bet_refund", r>> \in posted <=> entry[r] = "void"

(***************************************************************************)
(* Retries of a placement under one idempotency key, concurrent or later,  *)
(* never stake twice (unique index bet_entries_user_idem_uq).              *)
(***************************************************************************)
OneEntryPerKey ==
  \A r, s \in Request :
    entry[r] # "none" /\ entry[s] # "none" /\ SameKey(r, s) => r = s

(***************************************************************************)
(* The status of an entry is that of its picks as stored: lost as soon as  *)
(* one is lost, pending only while one is, void when too few are left -    *)
(* also when its markets are settled by different workers at once.         *)
(***************************************************************************)
StatusFollowsPicks ==
  \A r \in Request : entry[r] # "none" =>
    LET Has(status) == With(pick[r], status) # {} IN
    /\ entry[r] = "lost" <=> Has("lost")
    /\ entry[r] = "pending" <=> ~Has("lost") /\ Has("pending")
    /\ entry[r] = "won" => Effective(pick[r]) >= MinEffective
    /\ entry[r] = "void" => Effective(pick[r]) < MinEffective

(***************************************************************************)
(* What is settled is final: settling its market again, at the same or at  *)
(* another final status, changes neither a decided pick nor anything of    *)
(* an entry that is no longer pending.                                     *)
(***************************************************************************)
SettledIsFinal ==
  [][\A r \in Request :
       /\ entry[r] \in {"won", "lost", "void"} => UNCHANGED <<entry[r], pick[r]>>
       /\ \A m \in Market : pick[r][m] \in {"won", "lost", "void"} => UNCHANGED pick[r][m]]_vars

(***************************************************************************)
(* settlePicksForMarket returns: workers settling the same entries wait    *)
(* for each other's row locks but never for ever.                          *)
(***************************************************************************)
SettlementEnds == \A w \in Worker : wpc[w] = "collect" ~> wpc[w] = "idle"

(***************************************************************************)
(* "Market '..' is not open for betting": an entry is placed only on       *)
(* markets that are open.                                                  *)
(***************************************************************************)
EntriesOnlyOnOpenMarkets ==
  [][\A r \in Request : entry[r] = "none" /\ entry'[r] # "none" => AllOpen(r)]_vars

(***************************************************************************)
(* "Market .. is in terminal status '..' and cannot be updated".           *)
(***************************************************************************)
TerminalMarketsKeepStatus ==
  [][\A m \in Market : market[m] \in Resolved => market'[m] = market[m]]_vars
=============================================================================
