------------------------------ MODULE BetsProofs ------------------------------
(***************************************************************************)
(* Proofs about entries and their settlement, for any bettors, slips,      *)
(* markets, batches and any number of workers settling at once; and about  *)
(* the exposure of a market, for any tickets, stakes and limits.           *)
(***************************************************************************)
EXTENDS Bets, Exposure, SumTheorems

Picks == [Market -> PickStatus]
Batches == UNION {[S -> MarketStatus] : S \in SUBSET Market}

Types ==
  /\ TypeOK
  /\ batch \in [Worker -> Batches]

\* An entry has a pick on each market of its slip, and on no other.
PicksOK ==
  \A r \in Request : \A m \in Market :
    pick[r][m] # "none" <=> entry[r] # "none" /\ m \in DOMAIN Slip[r].picks

\* What a worker has still to settle are final markets, and picks on them.
QueueOK ==
  \A w \in Worker :
    /\ wpc[w] \in {"collect", "loop", "settle"} =>
         \A m \in DOMAIN batch[w] : batch[w][m] \in Terminal
    /\ wpc[w] \in {"loop", "settle"} =>
         /\ target[w] \in DOMAIN batch[w]
         /\ \A r \in todo[w] : pick[r][target[w]] # "none"

\* FOR UPDATE: a worker's entry is its own, and is as the worker read it.
LocksOK ==
  /\ \A w \in Worker : wpc[w] = "settle" =>
       /\ cur[w] \in todo[w]
       /\ snap[w].status = entry[cur[w]]
       /\ snap[w].picks = pick[cur[w]]
  /\ \A w \in Worker : wpc[w] # "settle" => cur[w] = NoRequest
  /\ \A v, w \in Worker : cur[v] = cur[w] /\ cur[v] # NoRequest => v = w

IInv ==
  /\ Types /\ PicksOK /\ QueueOK /\ LocksOK
  /\ PostsMatchStatus /\ OneEntryPerKey /\ StatusFollowsPicks

-----------------------------------------------------------------------------
(* The rules of an entry. *)

LEMMA PickOutcomeDecides ==
  ASSUME NEW d, NEW final \in Terminal
  PROVE  PickOutcome(d, final) \in {"won", "lost", "void"}
BY DEF PickOutcome, Terminal, Resolved

\* An entry has at most six picks that count, and its payout is not nothing.
LEMMA PayoutPositive ==
  ASSUME NEW r \in Request, NEW picks \in Picks,
         \A m \in Market : picks[m] # "none" => m \in DOMAIN Slip[r].picks
  PROVE  /\ Effective(picks) \in 0..MaxPicks
         /\ Effective(picks) >= MinEffective =>
              Payout(Slip[r].stake, Effective(picks)) \in Nat \ {0}
<1> DEFINE D == DOMAIN Slip[r].picks
           n == Effective(picks)
           stake == Slip[r].stake
<1>1. IsFiniteSet(D) /\ Cardinality(D) \in MinPicks..MaxPicks /\ stake \in Nat \ {0}
  BY SlipAssumption
<1>2. With(picks, "won") \subseteq D
  BY DEF With
<1>3. n \in Nat /\ n <= Cardinality(D)
  BY <1>1, <1>2, FS_Subset, FS_CardinalityType DEF Effective
<1>4. n \in 0..MaxPicks
  BY <1>1, <1>3 DEF MinPicks, MaxPicks
<1>. HIDE DEF n
<1>5. ASSUME n >= MinEffective PROVE Payout(stake, n) \in Nat \ {0}
  <2>1. n \in {2, 3, 4, 5, 6}
    BY <1>4, <1>5 DEF MaxPicks, MinEffective
  <2>2. PayoutMultipliersX100[n] \in {300, 500, 1000, 2000, 4000}
    BY <2>1 DEF PayoutMultipliersX100
  <2>3. /\ (stake * 300) \div 100 = 3 * stake
        /\ (stake * 500) \div 100 = 5 * stake
        /\ (stake * 1000) \div 100 = 10 * stake
        /\ (stake * 2000) \div 100 = 20 * stake
        /\ (stake * 4000) \div 100 = 40 * stake
    BY <1>1
  <2>. QED BY <1>1, <2>2, <2>3 DEF Payout
<1>. QED BY <1>4, <1>5 DEF n

LEMMA OutcomeRule ==
  ASSUME NEW picks \in Picks, Effective(picks) \in Int
  PROVE  /\ EntryOutcome(picks) \in {"pending", "won", "lost", "void"}
         /\ EntryOutcome(picks) = "lost" <=> With(picks, "lost") # {}
         /\ EntryOutcome(picks) = "pending" <=>
              With(picks, "lost") = {} /\ With(picks, "pending") # {}
         /\ EntryOutcome(picks) = "won" => Effective(picks) >= MinEffective
         /\ EntryOutcome(picks) = "void" => Effective(picks) < MinEffective
BY DEF EntryOutcome, MinEffective

LEMMA BatchType ==
  /\ \A b \in Batches : DOMAIN b \subseteq Market /\ b \in [DOMAIN b -> MarketStatus]
  /\ \A S \in SUBSET Market : \A f \in [S -> MarketStatus] : f \in Batches
BY DEF Batches

-----------------------------------------------------------------------------
(* Initially, and steps that leave the entries alone. *)

LEMMA InitInv == Init => IInv
<1>. SUFFICES ASSUME Init PROVE IInv
  OBVIOUS
<1>1. NoBatch \in Batches /\ DOMAIN NoBatch = {}
  BY DEF NoBatch, Batches
<1>2. NoSnap \in [status : EntryStatus, picks : Picks]
  BY DEF NoSnap, NoPicks, EntryStatus, PickStatus, Picks
<1>3. Types
  BY <1>1, <1>2, CashAssumption
     DEF Init, Types, TypeOK, MarketStatus, NoPicks, EntryStatus, PickStatus, Kind, Picks
<1>4. PicksOK /\ QueueOK /\ LocksOK
  BY DEF Init, PicksOK, QueueOK, LocksOK, NoPicks
<1>5. PostsMatchStatus /\ OneEntryPerKey /\ StatusFollowsPicks
  BY DEF Init, PostsMatchStatus, OneEntryPerKey, StatusFollowsPicks
<1>. QED BY <1>3, <1>4, <1>5 DEF IInv

LEMMA SameEntries ==
  ASSUME IInv, UNCHANGED <<entry, pick, posted>>
  PROVE  PicksOK' /\ PostsMatchStatus' /\ OneEntryPerKey' /\ StatusFollowsPicks'
BY DEF IInv, PicksOK, PostsMatchStatus, OneEntryPerKey, StatusFollowsPicks

LEMMA SameWorkers ==
  ASSUME IInv, UNCHANGED <<entry, pick, cash, posted, workerVars>>,
         market' \in [Market -> MarketStatus],
         rpc' \in [Request -> {"new", "looked", "checked", "placed", "replayed", "rejected"}]
  PROVE  IInv'
<1>1. Types'
  BY DEF IInv, Types, TypeOK, workerVars
<1>2. QueueOK' /\ LocksOK'
  BY DEF IInv, QueueOK, LocksOK, workerVars
<1>. QED BY <1>1, <1>2, SameEntries DEF IInv

LEMMA AnswersInv ==
  ASSUME IInv, NEW r \in Request,
         \/ LookUpKey(r) \/ CheckMarkets(r) \/ ReplayEntry(r) \/ RefuseStake(r)
  PROVE  IInv'
<1>1. PICK a \in {"looked", "checked", "replayed", "rejected"} : Answer(r, a)
  BY DEF LookUpKey, CheckMarkets, ReplayEntry, RefuseStake
<1>2. market' \in [Market -> MarketStatus]
  BY <1>1 DEF Answer, IInv, Types, TypeOK
<1>3. rpc' \in [Request -> {"new", "looked", "checked", "placed", "replayed", "rejected"}]
  BY <1>1 DEF Answer, IInv, Types, TypeOK
<1>. QED BY <1>1, <1>2, <1>3, SameWorkers DEF Answer

LEMMA AutoCloseInv ==
  ASSUME IInv, NEW m \in Market, AutoClose(m)
  PROVE  IInv'
<1>1. market' \in [Market -> MarketStatus]
  BY DEF AutoClose, IInv, Types, TypeOK, MarketStatus
<1>2. rpc' \in [Request -> {"new", "looked", "checked", "placed", "replayed", "rejected"}]
  BY DEF AutoClose, IInv, Types, TypeOK
<1>. QED BY <1>1, <1>2, SameWorkers DEF AutoClose

LEMMA PlaceInv ==
  ASSUME IInv, NEW r \in Request, PlaceEntry(r)
  PROVE  IInv'
<1> DEFINE D == DOMAIN Slip[r].picks
           u == Slip[r].user
           placed == [m \in Market |-> IF m \in D THEN "pending" ELSE "none"]
<1>1. /\ posted' = posted \cup {<<"bet_stake", r>>}
      /\ cash' = [cash EXCEPT ![u] = @ - Slip[r].stake]
      /\ entry' = [entry EXCEPT ![r] = "pending"]
      /\ pick' = [pick EXCEPT ![r] = placed]
      /\ UNCHANGED <<market, workerVars>>
      /\ rpc' = [rpc EXCEPT ![r] = "placed"]
      /\ cash[u] - Slip[r].stake >= 0
  <2>1. Slip[r].stake \in Nat /\ u \in User /\ cash[u] \in Nat
    BY SlipAssumption DEF IInv, Types, TypeOK
  <2>. QED BY <2>1 DEF PlaceEntry, Post, CanPost, IInv, Types, TypeOK
<1>2. \A s \in Request : entry[s] # "none" => ~SameKey(r, s) /\ ~SameKey(s, r)
  BY DEF PlaceEntry, KeyTaken, SameKey
<1>3. entry[r] = "none"
  BY <1>2 DEF SameKey
<1>4. D \subseteq Market /\ D # {} /\ u \in User /\ Slip[r].stake \in Nat
  <2>1. D # {}
    BY SlipAssumption, FS_EmptySet DEF MinPicks, MaxPicks
  <2>. QED BY <2>1, SlipAssumption
<1>5. placed \in Picks
  BY DEF Picks, PickStatus
<1>. HIDE DEF placed
<1>6. Types'
  BY <1>1, <1>4, <1>5 DEF IInv, Types, TypeOK, workerVars, EntryStatus, Kind, Picks
<1>7. /\ entry'[r] = "pending" /\ pick'[r] = placed
      /\ \A s \in Request : s # r => entry'[s] = entry[s] /\ pick'[s] = pick[s]
  BY <1>1 DEF IInv, Types, TypeOK
<1>8. \A m \in Market : placed[m] = IF m \in D THEN "pending" ELSE "none"
  BY DEF placed
<1>9. PicksOK'
  BY <1>7, <1>8 DEF IInv, PicksOK
<1>10. QueueOK'
  <2> SUFFICES ASSUME NEW w \in Worker, wpc[w] \in {"loop", "settle"}, NEW s \in todo[w]
               PROVE  pick'[s][target[w]] # "none"
    BY <1>1 DEF IInv, QueueOK, workerVars
  <2>1. s \in Request /\ target[w] \in Market /\ pick[s][target[w]] # "none"
    BY DEF IInv, QueueOK, Types, TypeOK
  <2>2. s # r
    BY <1>3, <2>1 DEF IInv, PicksOK
  <2>. QED BY <1>7, <2>1, <2>2
<1>11. LocksOK'
  <2> SUFFICES ASSUME NEW w \in Worker, wpc[w] = "settle"
               PROVE  entry'[cur[w]] = entry[cur[w]] /\ pick'[cur[w]] = pick[cur[w]]
    BY <1>1 DEF IInv, LocksOK, workerVars
  <2>1. cur[w] \in Request /\ target[w] \in Market /\ pick[cur[w]][target[w]] # "none"
    BY DEF IInv, QueueOK, LocksOK, Types, TypeOK
  <2>2. cur[w] # r
    BY <1>3, <2>1 DEF IInv, PicksOK
  <2>. QED BY <1>7, <2>1, <2>2
<1>12. PostsMatchStatus'
  BY <1>1, <1>3, <1>7 DEF IInv, PostsMatchStatus
<1>13. OneEntryPerKey'
  BY <1>2, <1>7 DEF IInv, OneEntryPerKey, SameKey
<1>14. StatusFollowsPicks'
  <2>1. With(placed, "lost") = {} /\ With(placed, "pending") # {}
    BY <1>4, <1>8 DEF With
  <2>. QED BY <1>7, <2>1 DEF IInv, StatusFollowsPicks
<1>. QED BY <1>6, <1>9, <1>10, <1>11, <1>12, <1>13, <1>14 DEF IInv

-----------------------------------------------------------------------------
(* A worker between the entries. *)

LEMMA UpsertReadInv ==
  ASSUME IInv, NEW w \in Worker, NEW b \in Batch, UpsertRead(w, b)
  PROVE  IInv'
<1> DEFINE live == {m \in DOMAIN b : market[m] \notin Resolved}
           rest == [m \in live |-> b[m]]
<1>1. rest \in Batches
  BY BatchAssumption, BatchType
<1>2. /\ batch' = [batch EXCEPT ![w] = rest] /\ wpc' = [wpc EXCEPT ![w] = "write"]
      /\ wpc[w] = "idle"
      /\ UNCHANGED <<market, entry, pick, cash, posted, rpc, target, todo, cur, snap>>
  BY DEF UpsertRead
<1>. HIDE DEF rest
<1>3. Types'
  BY <1>1, <1>2, BatchType DEF IInv, Types, TypeOK
<1>4. QueueOK' /\ LocksOK'
  BY <1>2 DEF IInv, Types, TypeOK, QueueOK, LocksOK
<1>. QED BY <1>2, <1>3, <1>4, SameEntries DEF IInv

LEMMA UpsertWriteInv ==
  ASSUME IInv, NEW w \in Worker, UpsertWrite(w)
  PROVE  IInv'
<1> DEFINE b == batch[w]
           settle == {m \in DOMAIN b : b[m] \in Resolved}
           rest == [m \in settle |-> b[m]]
<1>1. b \in Batches /\ DOMAIN b \subseteq Market /\ b \in [DOMAIN b -> MarketStatus]
  BY BatchType DEF IInv, Types
<1>2. rest \in Batches /\ DOMAIN rest = settle /\ \A m \in settle : rest[m] \in Terminal
  BY <1>1, BatchType DEF Terminal
<1>3. /\ batch' = [batch EXCEPT ![w] = rest] /\ wpc[w] = "write"
      /\ wpc' \in [Worker -> {"idle", "write", "collect", "loop", "settle"}]
      /\ wpc'[w] \in {"idle", "collect"}
      /\ \A v \in Worker : v # w => wpc'[v] = wpc[v]
      /\ market' = [m \in Market |-> IF m \in DOMAIN b THEN b[m] ELSE market[m]]
      /\ UNCHANGED <<entry, pick, cash, posted, rpc, target, todo, cur, snap>>
  BY DEF UpsertWrite, IInv, Types, TypeOK
<1>4. market' \in [Market -> MarketStatus]
  BY <1>1, <1>3 DEF IInv, Types, TypeOK
<1>. HIDE DEF rest, settle, b
<1>5. Types'
  BY <1>2, <1>3, <1>4, BatchType DEF IInv, Types, TypeOK
<1>6. QueueOK' /\ LocksOK'
  BY <1>2, <1>3 DEF IInv, Types, TypeOK, QueueOK, LocksOK
<1>. QED BY <1>3, <1>5, <1>6, SameEntries DEF IInv

LEMMA AdminSettleInv ==
  ASSUME IInv, NEW w \in Worker, NEW call \in AdminCall, AdminSettle(w, call)
  PROVE  IInv'
<1> DEFINE b == [m \in {call.market} |-> call.final]
<1>1. /\ batch' = [batch EXCEPT ![w] = b] /\ wpc' = [wpc EXCEPT ![w] = "collect"]
      /\ wpc[w] = "idle" /\ call.final \in Terminal
      /\ UNCHANGED <<market, entry, pick, cash, posted, rpc, target, todo, cur, snap>>
  BY DEF AdminSettle
<1>2. b \in Batches /\ \A m \in DOMAIN b : b[m] \in Terminal
  BY <1>1, BatchAssumption, BatchType DEF MarketStatus
<1>. HIDE DEF b
<1>3. Types'
  BY <1>1, <1>2, BatchType DEF IInv, Types, TypeOK
<1>4. QueueOK' /\ LocksOK'
  BY <1>1, <1>2 DEF IInv, Types, TypeOK, QueueOK, LocksOK
<1>. QED BY <1>1, <1>3, <1>4, SameEntries DEF IInv

LEMMA CollectInv ==
  ASSUME IInv, NEW w \in Worker, NEW m \in Market, Collect(w, m)
  PROVE  IInv'
<1>. USE DEF Collect
<1>1. Types'
  BY DEF IInv, Types, TypeOK
<1>2. QueueOK' /\ LocksOK'
  BY DEF IInv, Types, TypeOK, QueueOK, LocksOK
<1>. QED BY <1>1, <1>2, SameEntries DEF IInv

LEMMA LockInv ==
  ASSUME IInv, NEW w \in Worker, NEW r \in Request, LockEntry(w, r)
  PROVE  IInv'
<1>. USE DEF LockEntry
<1>1. Types'
  BY DEF IInv, Types, TypeOK, Picks
<1>2. QueueOK'
  BY DEF IInv, Types, TypeOK, QueueOK
<1>3. LocksOK'
  BY DEF IInv, Types, TypeOK, LocksOK
<1>. QED BY <1>1, <1>2, <1>3, SameEntries DEF IInv

LEMMA MarketDoneInv ==
  ASSUME IInv, NEW w \in Worker, MarketDone(w)
  PROVE  IInv'
<1> DEFINE b == batch[w]
           rest == Without(b, target[w])
<1>1. b \in Batches /\ DOMAIN b \subseteq Market /\ b \in [DOMAIN b -> MarketStatus]
  BY BatchType DEF IInv, Types
<1>2. \A m \in DOMAIN b : b[m] \in Terminal
  BY DEF MarketDone, IInv, QueueOK
<1>3. rest \in Batches /\ \A m \in DOMAIN rest : rest[m] \in Terminal
  BY <1>1, <1>2, BatchType DEF Without
<1>4. /\ batch' = [batch EXCEPT ![w] = rest] /\ wpc[w] = "loop"
      /\ wpc' \in [Worker -> {"idle", "write", "collect", "loop", "settle"}]
      /\ wpc'[w] \in {"idle", "collect"}
      /\ \A v \in Worker : v # w => wpc'[v] = wpc[v]
      /\ target' = [target EXCEPT ![w] = NoMarket]
      /\ UNCHANGED <<market, entry, pick, cash, posted, rpc, todo, cur, snap>>
  BY DEF MarketDone, IInv, Types, TypeOK
<1>. HIDE DEF rest, b
<1>5. Types'
  BY <1>3, <1>4, BatchType DEF IInv, Types, TypeOK
<1>6. QueueOK' /\ LocksOK'
  BY <1>3, <1>4 DEF IInv, Types, TypeOK, QueueOK, LocksOK
<1>. QED BY <1>4, <1>5, <1>6, SameEntries DEF IInv

LEMMA CrashInv ==
  ASSUME IInv, NEW w \in Worker, Crash(w)
  PROVE  IInv'
<1>1. NoBatch \in Batches
  BY DEF NoBatch, Batches
<1>2. NoSnap \in [status : EntryStatus, picks : Picks]
  BY DEF NoSnap, NoPicks, EntryStatus, PickStatus, Picks
<1>. USE DEF Crash
<1>3. Types'
  BY <1>1, <1>2, BatchType DEF IInv, Types, TypeOK, Picks
<1>4. QueueOK' /\ LocksOK'
  BY DEF IInv, Types, TypeOK, QueueOK, LocksOK
<1>. QED BY <1>3, <1>4, SameEntries DEF IInv

-----------------------------------------------------------------------------
(* A worker with the entry it has locked. *)

LEMMA LockedEntry ==
  ASSUME IInv, NEW w \in Worker, wpc[w] = "settle"
  PROVE  /\ cur[w] \in Request /\ target[w] \in Market
         /\ entry[cur[w]] # "none"
         /\ pick[cur[w]] \in Picks
         /\ target[w] \in DOMAIN Slip[cur[w]].picks
         /\ batch[w][target[w]] \in Terminal
<1>1. cur[w] \in Request /\ target[w] \in Market
  BY DEF IInv, Types, TypeOK, LocksOK, QueueOK
<1>2. pick[cur[w]][target[w]] # "none" /\ batch[w][target[w]] \in Terminal
  BY DEF IInv, LocksOK, QueueOK
<1>3. entry[cur[w]] # "none" /\ target[w] \in DOMAIN Slip[cur[w]].picks
  BY <1>1, <1>2 DEF IInv, PicksOK
<1>. QED BY <1>1, <1>2, <1>3 DEF IInv, Types, TypeOK, Picks

\* The transaction ends: what it wrote, it wrote to its own entry.
LEMMA NextEntryInv ==
  ASSUME IInv, NEW w \in Worker, wpc[w] = "settle", NextEntry(w),
         \A r \in Request : r # cur[w] => entry'[r] = entry[r] /\ pick'[r] = pick[r],
         \A r \in Request, m \in Market : pick[r][m] # "none" => pick'[r][m] # "none"
  PROVE  /\ QueueOK' /\ LocksOK'
         /\ wpc' \in [Worker -> {"idle", "write", "collect", "loop", "settle"}]
         /\ todo' \in [Worker -> SUBSET Request]
         /\ cur' \in [Worker -> Request \cup {NoRequest}]
         /\ snap' \in [Worker -> [status : EntryStatus, picks : [Market -> PickStatus]]]
<1>. USE DEF NextEntry
<1>1. NoSnap \in [status : EntryStatus, picks : Picks]
  BY DEF NoSnap, NoPicks, EntryStatus, PickStatus, Picks
<1>2. /\ wpc' \in [Worker -> {"idle", "write", "collect", "loop", "settle"}]
      /\ todo' \in [Worker -> SUBSET Request]
      /\ cur' \in [Worker -> Request \cup {NoRequest}]
      /\ snap' \in [Worker -> [status : EntryStatus, picks : [Market -> PickStatus]]]
  BY <1>1 DEF IInv, Types, TypeOK, Picks
<1>3. /\ wpc'[w] = "loop" /\ cur'[w] = NoRequest /\ todo'[w] \subseteq todo[w]
      /\ \A v \in Worker : v # w => /\ wpc'[v] = wpc[v] /\ todo'[v] = todo[v]
                                    /\ cur'[v] = cur[v] /\ snap'[v] = snap[v]
  BY DEF IInv, Types, TypeOK
<1>4. QueueOK'
  <2>1. \A v \in Worker : wpc'[v] \in {"collect", "loop", "settle"} =>
          /\ wpc[v] \in {"collect", "loop", "settle"}
          /\ \A m \in DOMAIN batch[v] : batch[v][m] \in Terminal
    BY <1>3 DEF IInv, QueueOK
  <2>2. ASSUME NEW v \in Worker, wpc'[v] \in {"loop", "settle"}
        PROVE  /\ target[v] \in DOMAIN batch[v]
               /\ \A r \in todo'[v] : pick'[r][target[v]] # "none"
    <3>1. wpc[v] \in {"loop", "settle"} /\ todo'[v] \subseteq todo[v]
      BY <1>3, <2>2
    <3>2. target[v] \in DOMAIN batch[v] /\ target[v] \in Market /\ todo[v] \subseteq Request
      BY <3>1 DEF IInv, QueueOK, Types, TypeOK
    <3>3. \A r \in todo[v] : pick[r][target[v]] # "none"
      BY <3>1 DEF IInv, QueueOK
    <3>. QED BY <3>1, <3>2, <3>3
  <2>. QED BY <2>1, <2>2 DEF QueueOK
<1>5. \A v \in Worker : v # w /\ wpc[v] = "settle" =>
        cur[v] \in Request /\ cur[v] # cur[w]
  BY FreshAssumption, LockedEntry DEF IInv, LocksOK
<1>6. LocksOK'
  BY <1>3, <1>5 DEF IInv, LocksOK
<1>. QED BY <1>2, <1>4, <1>6

LEMMA SkipInv ==
  ASSUME IInv, NEW w \in Worker, AlreadySettled(w) \/ SettleFails(w)
  PROVE  IInv'
<1>1. /\ wpc[w] = "settle" /\ NextEntry(w)
      /\ UNCHANGED <<entry, pick, cash, posted>>
      /\ UNCHANGED <<market, rpc, batch, target>>
  BY DEF AlreadySettled, SettleFails, NextEntry
<1>2. /\ QueueOK' /\ LocksOK'
      /\ wpc' \in [Worker -> {"idle", "write", "collect", "loop", "settle"}]
      /\ todo' \in [Worker -> SUBSET Request]
      /\ cur' \in [Worker -> Request \cup {NoRequest}]
      /\ snap' \in [Worker -> [status : EntryStatus, picks : [Market -> PickStatus]]]
  BY <1>1, NextEntryInv
<1>3. Types'
  BY <1>1, <1>2 DEF IInv, Types, TypeOK
<1>. QED BY <1>1, <1>2, <1>3, SameEntries DEF IInv

\* What settleEntry makes of the entry it holds.
LEMMA SettledEntry ==
  ASSUME IInv, NEW w \in Worker, SettleEntry(w)
  PROVE  LET r == cur[w]
             p == Projected(w)
         IN /\ r \in Request /\ entry[r] = "pending"
            /\ p \in Picks /\ pick' = [pick EXCEPT ![r] = p]
            /\ entry' = [entry EXCEPT ![r] = EntryOutcome(p)]
            /\ \A m \in Market : /\ p[m] # "none" <=> pick[r][m] # "none"
                                 /\ pick[r][m] # "pending" => p[m] = pick[r][m]
<1> DEFINE r == cur[w]
           m == target[w]
           p == Projected(w)
           o == PickOutcome(Slip[r].picks[m], batch[w][m])
<1>1. /\ wpc[w] = "settle" /\ snap[w].status = "pending"
      /\ pick' = [pick EXCEPT ![r][m] = IF @ = "pending" THEN p[m] ELSE @]
      /\ entry' = IF EntryOutcome(p) = "pending" THEN entry
                  ELSE [entry EXCEPT ![r] = EntryOutcome(p)]
  BY DEF SettleEntry
<1>2. /\ r \in Request /\ m \in Market /\ pick[r] \in Picks
      /\ entry[r] = "pending" /\ snap[w].picks = pick[r]
      /\ batch[w][m] \in Terminal
  BY <1>1, LockedEntry DEF IInv, LocksOK
<1>3. o \in {"won", "lost", "void"}
  BY <1>2, PickOutcomeDecides
<1>4. p = IF pick[r][m] = "pending" THEN [pick[r] EXCEPT ![m] = o] ELSE pick[r]
  BY <1>2 DEF Projected
<1>. HIDE DEF o, p
<1>5. /\ p \in Picks
      /\ \A n \in Market : /\ p[n] # "none" <=> pick[r][n] # "none"
                           /\ pick[r][n] # "pending" => p[n] = pick[r][n]
  BY <1>2, <1>3, <1>4 DEF Picks, PickStatus
<1>6. pick' = [pick EXCEPT ![r] = p]
  <2>1. pick \in [Request -> Picks]
    BY DEF IInv, Types, TypeOK, Picks
  <2>2. p = [pick[r] EXCEPT ![m] = IF @ = "pending" THEN p[m] ELSE @]
    BY <1>2, <1>3, <1>4 DEF Picks
  <2>3. pick' = [pick EXCEPT ![r] = [pick[r] EXCEPT ![m] = IF @ = "pending" THEN p[m] ELSE @]]
    BY <1>1, <1>2, <2>1
  <2>. QED BY <2>2, <2>3
<1>7. entry' = [entry EXCEPT ![r] = EntryOutcome(p)]
  BY <1>1, <1>2 DEF IInv, Types, TypeOK
<1>. QED BY <1>2, <1>5, <1>6, <1>7 DEF p

\* The post of a settlement, by the outcome.
LEMMA SettlementPosts ==
  ASSUME IInv, NEW w \in Worker, SettleEntry(w)
  PROVE  LET r == cur[w]
             o == EntryOutcome(Projected(w))
         IN /\ o = "won"  => posted' = posted \cup {<<"bet_payout", r>>}
            /\ o = "void" => posted' = posted \cup {<<"bet_refund", r>>}
            /\ o \in {"pending", "lost"} => posted' = posted
            /\ cash' \in [User -> Nat]
<1> DEFINE r == cur[w]
           p == Projected(w)
           o == EntryOutcome(p)
           s == Settlement(r, p)
<1>1. /\ r \in Request /\ p \in Picks
      /\ \A m \in Market : p[m] # "none" => m \in DOMAIN Slip[r].picks
  BY SettledEntry DEF IInv, PicksOK
<1>2. /\ Effective(p) \in 0..MaxPicks
      /\ Effective(p) >= MinEffective => Payout(Slip[r].stake, Effective(p)) \in Nat \ {0}
  BY <1>1, PayoutPositive
<1>3. /\ o \in {"pending", "won", "lost", "void"}
      /\ o = "won" => Effective(p) >= MinEffective
  BY <1>1, <1>2, OutcomeRule
<1>4. Slip[r].stake \in Nat \ {0} /\ Slip[r].user \in User
  BY <1>1, SlipAssumption
<1>5. IF s.amount = 0 THEN UNCHANGED <<cash, posted>>
      ELSE CanPost(s.kind, r, s.amount) /\ Post(s.kind, r, s.amount)
  BY DEF SettleEntry
<1>. HIDE DEF p
<1>6. /\ o = "won"  => s.kind = "bet_payout" /\ s.amount \in Nat \ {0}
      /\ o = "void" => s.kind = "bet_refund" /\ s.amount \in Nat \ {0}
      /\ o \in {"pending", "lost"} => s.amount = 0
  BY <1>2, <1>3, <1>4 DEF Settlement
<1>7. s.amount \in Nat
  BY <1>3, <1>6
<1>. HIDE DEF s, o
<1>8. cash' \in [User -> Nat]
  <2>1. cash \in [User -> Nat]
    BY DEF IInv, Types, TypeOK
  <2>2. CASE s.amount = 0
    BY <1>5, <2>1, <2>2
  <2>3. CASE s.amount # 0
    <3>1. cash' = [cash EXCEPT ![Slip[r].user] = @ + s.amount]
      BY <1>5, <2>3 DEF Post
    <3>2. cash[Slip[r].user] + s.amount \in Nat
      BY <1>4, <1>7, <2>1
    <3>. QED BY <1>4, <2>1, <3>1, <3>2
  <2>. QED BY <2>2, <2>3
<1>9. /\ o = "won"  => posted' = posted \cup {<<"bet_payout", r>>}
      /\ o = "void" => posted' = posted \cup {<<"bet_refund", r>>}
      /\ o \in {"pending", "lost"} => posted' = posted
  BY <1>5, <1>6 DEF Post
<1>. QED BY <1>8, <1>9 DEF o, p

LEMMA SettleInv ==
  ASSUME IInv, NEW w \in Worker, SettleEntry(w)
  PROVE  IInv'
<1> DEFINE r == cur[w]
           p == Projected(w)
           o == EntryOutcome(p)
<1>1. /\ r \in Request /\ entry[r] = "pending" /\ p \in Picks
      /\ pick' = [pick EXCEPT ![r] = p]
      /\ entry' = [entry EXCEPT ![r] = o]
      /\ \A m \in Market : p[m] # "none" <=> pick[r][m] # "none"
  BY SettledEntry
<1>2. \A m \in Market : p[m] # "none" <=> m \in DOMAIN Slip[r].picks
  BY <1>1 DEF IInv, PicksOK
<1>3. Effective(p) \in Int
  BY <1>1, <1>2, PayoutPositive
<1>4. /\ o \in {"pending", "won", "lost", "void"}
      /\ o = "lost" <=> With(p, "lost") # {}
      /\ o = "pending" <=> With(p, "lost") = {} /\ With(p, "pending") # {}
      /\ o = "won" => Effective(p) >= MinEffective
      /\ o = "void" => Effective(p) < MinEffective
  BY <1>1, <1>3, OutcomeRule
<1>5. /\ o = "won"  => posted' = posted \cup {<<"bet_payout", r>>}
      /\ o = "void" => posted' = posted \cup {<<"bet_refund", r>>}
      /\ o \in {"pending", "lost"} => posted' = posted
      /\ cash' \in [User -> Nat]
  BY SettlementPosts
<1>6. wpc[w] = "settle" /\ NextEntry(w) /\ UNCHANGED <<market, rpc, batch, target>>
  BY DEF SettleEntry, NextEntry
<1>. HIDE DEF o, p
<1>7. /\ entry'[r] = o /\ pick'[r] = p
      /\ \A s \in Request : s # r => entry'[s] = entry[s] /\ pick'[s] = pick[s]
  BY <1>1 DEF IInv, Types, TypeOK
<1>8. /\ QueueOK' /\ LocksOK'
      /\ wpc' \in [Worker -> {"idle", "write", "collect", "loop", "settle"}]
      /\ todo' \in [Worker -> SUBSET Request]
      /\ cur' \in [Worker -> Request \cup {NoRequest}]
      /\ snap' \in [Worker -> [status : EntryStatus, picks : [Market -> PickStatus]]]
  BY <1>1, <1>6, <1>7, NextEntryInv
<1>9. Types'
  <2>1. entry' \in [Request -> EntryStatus] /\ pick' \in [Request -> Picks]
    BY <1>1, <1>4 DEF IInv, Types, TypeOK, EntryStatus, Picks
  <2>2. posted' \subseteq Kind \X Request
    BY <1>1, <1>4, <1>5 DEF IInv, Types, TypeOK, Kind
  <2>. QED BY <1>5, <1>6, <1>8, <2>1, <2>2 DEF IInv, Types, TypeOK, Picks
<1>10. PicksOK'
  BY <1>1, <1>2, <1>4, <1>7 DEF IInv, PicksOK
<1>11. PostsMatchStatus'
  <2> DEFINE Matches(P, e, s) ==
        /\ <<"bet_stake", s>> \in P <=> e # "none"
        /\ <<"bet_payout", s>> \in P <=> e = "won"
        /\ <<"bet_refund", s>> \in P <=> e = "void"
  <2>1. \A s \in Request : Matches(posted, entry[s], s)
    BY DEF IInv, PostsMatchStatus
  <2>2. ASSUME NEW s \in Request, s # r PROVE Matches(posted', entry'[s], s)
    <3>1. \A kind : <<kind, s>> \in posted' <=> <<kind, s>> \in posted
      BY <1>4, <1>5, <2>2
    <3>. QED BY <1>7, <2>1, <2>2, <3>1
  <2>3. Matches(posted', o, r)
    <3>1. /\ <<"bet_stake", r>> \in posted /\ <<"bet_payout", r>> \notin posted
          /\ <<"bet_refund", r>> \notin posted
      BY <1>1, <2>1
    <3>2. CASE o = "won"
      BY <1>5, <3>1, <3>2
    <3>3. CASE o = "void"
      BY <1>5, <3>1, <3>3
    <3>4. CASE o \in {"pending", "lost"}
      BY <1>5, <3>1, <3>4
    <3>. QED BY <1>4, <3>2, <3>3, <3>4
  <2>. HIDE DEF Matches
  <2>4. \A s \in Request : Matches(posted', entry'[s], s)
    BY <1>7, <2>2, <2>3
  <2>. QED BY <2>4 DEF PostsMatchStatus, Matches
<1>12. OneEntryPerKey'
  BY <1>1, <1>7 DEF IInv, OneEntryPerKey
<1>13. StatusFollowsPicks'
  <2> DEFINE Follows(e, picks) ==
        /\ e = "lost" <=> With(picks, "lost") # {}
        /\ e = "pending" <=> With(picks, "lost") = {} /\ With(picks, "pending") # {}
        /\ e = "won" => Effective(picks) >= MinEffective
        /\ e = "void" => Effective(picks) < MinEffective
  <2>1. \A s \in Request : entry[s] # "none" => Follows(entry[s], pick[s])
    BY DEF IInv, StatusFollowsPicks
  <2>2. Follows(o, p)
    BY <1>4
  <2>. HIDE DEF Follows
  <2>3. \A s \in Request : entry'[s] # "none" => Follows(entry'[s], pick'[s])
    BY <1>7, <2>1, <2>2
  <2>. QED BY <2>3 DEF StatusFollowsPicks, Follows
<1>. QED BY <1>8, <1>9, <1>10, <1>11, <1>12, <1>13 DEF IInv

LEMMA NextInv == IInv /\ [Next]_vars => IInv'
<1> SUFFICES ASSUME IInv, [Next]_vars PROVE IInv'
  OBVIOUS
<1>1. CASE UNCHANGED vars
  BY <1>1, SameWorkers DEF vars, IInv, Types, TypeOK
<1>2. ASSUME NEW r \in Request, Place(r) PROVE IInv'
  BY <1>2, AnswersInv, PlaceInv DEF Place
<1>3. ASSUME NEW m \in Market, AutoClose(m) PROVE IInv'
  BY <1>3, AutoCloseInv
<1>4. ASSUME NEW w \in Worker, NEW b \in Batch, UpsertRead(w, b) PROVE IInv'
  BY <1>4, UpsertReadInv
<1>5. ASSUME NEW w \in Worker, NEW call \in AdminCall, AdminSettle(w, call) PROVE IInv'
  BY <1>5, AdminSettleInv
<1>6. ASSUME NEW w \in Worker, UpsertWrite(w) \/ SettleFails(w) \/ Crash(w) PROVE IInv'
  BY <1>6, UpsertWriteInv, SkipInv, CrashInv
<1>7. ASSUME NEW w \in Worker, SettleLoop(w) PROVE IInv'
  BY <1>7, CollectInv, LockInv, SkipInv, SettleInv, MarketDoneInv DEF SettleLoop
<1>. QED BY <1>1, <1>2, <1>3, <1>4, <1>5, <1>6, <1>7 DEF Next

-----------------------------------------------------------------------------
Decided == {"won", "lost", "void"}

Final(r) ==
  /\ entry[r] \in Decided => UNCHANGED <<entry[r], pick[r]>>
  /\ \A m \in Market : pick[r][m] \in Decided => UNCHANGED pick[r][m]

LEMMA StepIsFinal ==
  ASSUME IInv, [Next]_vars, NEW r \in Request
  PROVE  Final(r)
<1>1. entry \in [Request -> EntryStatus] /\ pick \in [Request -> Picks]
  BY DEF IInv, Types, TypeOK, Picks
<1>2. CASE UNCHANGED <<entry, pick>>
  BY <1>2 DEF Final
<1>3. ASSUME NEW s \in Request, PlaceEntry(s) PROVE Final(r)
  <2>1. entry[s] = "none"
    BY <1>3 DEF PlaceEntry, KeyTaken, SameKey
  <2>2. \A m \in Market : pick[s][m] = "none"
    BY <2>1 DEF IInv, PicksOK
  <2>3. r # s => entry'[r] = entry[r] /\ pick'[r] = pick[r]
    BY <1>1, <1>3 DEF PlaceEntry
  <2>. QED BY <2>1, <2>2, <2>3 DEF Final, Decided
<1>4. ASSUME NEW w \in Worker, SettleEntry(w) PROVE Final(r)
  <2> DEFINE s == cur[w]
             p == Projected(w)
  <2>1. /\ s \in Request /\ entry[s] = "pending"
        /\ pick' = [pick EXCEPT ![s] = p]
        /\ entry' = [entry EXCEPT ![s] = EntryOutcome(p)]
        /\ \A m \in Market : pick[s][m] # "pending" => p[m] = pick[s][m]
    BY <1>4, SettledEntry
  <2>. HIDE DEF p
  <2>2. r # s => entry'[r] = entry[r] /\ pick'[r] = pick[r]
    BY <1>1, <2>1
  <2>3. pick'[s] = p
    BY <1>1, <2>1
  <2>. QED BY <2>1, <2>2, <2>3 DEF Final, Decided
<1>. QED BY <1>2, <1>3, <1>4
     DEF Next, Place, SettleLoop, vars, LookUpKey, CheckMarkets, ReplayEntry, RefuseStake, Answer,
         AutoClose, UpsertRead, UpsertWrite, AdminSettle, Collect, LockEntry, MarketDone, Crash,
         AlreadySettled, SettleFails

-----------------------------------------------------------------------------
\* In every reachable state IInv holds: also that the entry a worker has
\* locked is still as it read it, and that it settles final markets only.
THEOREM BetsInductive == Spec => []IInv
BY InitInv, NextInv, PTL DEF Spec

\* Type correctness of module Bets; no balance is negative.
THEOREM BetsTypeCorrect == Spec => []TypeOK
<1>1. IInv => TypeOK
  BY DEF IInv, Types
<1>. QED BY <1>1, BetsInductive, PTL

\* A payout is posted for exactly the entries that are won, a refund for
\* exactly those that are void, a stake for all (settleEntry, placeEntry).
THEOREM PostsAreByStatus == Spec => []PostsMatchStatus
<1>1. IInv => PostsMatchStatus
  BY DEF IInv
<1>. QED BY <1>1, BetsInductive, PTL

\* Retries of a placement under one key make one entry and stake once.
THEOREM PlacementsMakeOneEntry == Spec => []OneEntryPerKey
<1>1. IInv => OneEntryPerKey
  BY DEF IInv
<1>. QED BY <1>1, BetsInductive, PTL

\* The status of an entry is that of its picks, whoever settled them.
THEOREM StatusIsOfPicks == Spec => []StatusFollowsPicks
<1>1. IInv => StatusFollowsPicks
  BY DEF IInv
<1>. QED BY <1>1, BetsInductive, PTL

\* Settling a market again changes neither a decided pick nor anything of an
\* entry that is decided (the row lock and the status check of settleEntry).
THEOREM SettlementIsFinal == Spec => SettledIsFinal
<1>1. IInv /\ [Next]_vars => [\A r \in Request : Final(r)]_vars
  BY StepIsFinal
<1>2. IInv /\ [Next]_vars =>
        [\A r \in Request :
           /\ entry[r] \in {"won", "lost", "void"} => UNCHANGED <<entry[r], pick[r]>>
           /\ \A m \in Market : pick[r][m] \in {"won", "lost", "void"} => UNCHANGED pick[r][m]]_vars
  BY <1>1 DEF Final, Decided
<1>. QED BY <1>2, BetsInductive, PTL DEF Spec, SettledIsFinal

-----------------------------------------------------------------------------
(* What the entries have moved on the wallets. *)

Moves == [r \in Request |-> Moved(r)]

\* At any time a bettor has made finitely many entries, and they explain the
\* balance.
MoneyInv ==
  \A u \in User :
    /\ IsFiniteSet(EntriesOf(u))
    /\ cash[u] = InitialCash[u] + SumFunctionOnSet(Moves, EntriesOf(u))

MovesOK == \A r \in Request : Moves[r] \in Int

LEMMA MovesType == IInv => MovesOK
<1> SUFFICES ASSUME IInv, NEW r \in Request PROVE Moved(r) \in Int
  BY DEF MovesOK, Moves
<1>1. /\ Effective(pick[r]) \in 0..MaxPicks
      /\ Effective(pick[r]) >= MinEffective => Payout(Slip[r].stake, Effective(pick[r])) \in Nat
  BY PayoutPositive DEF IInv, Types, TypeOK, PicksOK, Picks
<1>2. /\ Slip[r].stake \in Nat /\ entry[r] \in EntryStatus
      /\ entry[r] = "won" => Effective(pick[r]) >= MinEffective
  BY SlipAssumption DEF IInv, Types, TypeOK, StatusFollowsPicks
<1>. QED BY <1>1, <1>2 DEF Moved, EntryStatus

LEMMA SameMoney ==
  ASSUME MoneyInv, UNCHANGED <<entry, pick, cash>>
  PROVE  MoneyInv'
BY DEF MoneyInv, EntriesOf, Moves, Moved, Payout, Effective, With

\* The stake of a new entry is one more amount in its bettor's sum.
LEMMA PlaceMoney ==
  ASSUME IInv, IInv', MoneyInv, NEW r \in Request, PlaceEntry(r)
  PROVE  MoneyInv'
<1> DEFINE v == Slip[r].user
           stake == Slip[r].stake
<1>1. /\ v \in User /\ stake \in Nat
      /\ entry[r] = "none" /\ entry'[r] = "pending"
      /\ \A s \in Request : s # r => entry'[s] = entry[s] /\ pick'[s] = pick[s]
      /\ cash' = [cash EXCEPT ![v] = @ - stake]
  <2>1. v \in User /\ stake \in Nat /\ cash[v] \in Nat
    BY SlipAssumption DEF IInv, Types, TypeOK
  <2>2. entry[r] = "none"
    BY DEF PlaceEntry, KeyTaken, SameKey
  <2>. QED BY <2>1, <2>2 DEF PlaceEntry, Post, IInv, Types, TypeOK
<1>2. /\ Moves'[r] = -stake
      /\ \A s \in Request : s # r => Moves'[s] = Moves[s]
  BY <1>1 DEF Moves, Moved, Payout, Effective, With
<1>3. \A s \in Request : Moves[s] \in Int /\ Moves'[s] \in Int
  <2>1. \A s \in Request : Moves[s] \in Int
    BY MovesType DEF MovesOK
  <2>. QED BY <1>1, <1>2, <2>1
<1> SUFFICES ASSUME NEW u \in User
             PROVE  /\ IsFiniteSet(EntriesOf(u)')
                    /\ cash'[u] = InitialCash[u] + SumFunctionOnSet(Moves', EntriesOf(u)')
  BY DEF MoneyInv
<1> DEFINE old == EntriesOf(u)
           new == EntriesOf(u)'
<1>4. IsFiniteSet(old) /\ old \subseteq Request
  BY DEF MoneyInv, EntriesOf
<1>5. /\ cash[u] = InitialCash[u] + SumFunctionOnSet(Moves, old)
      /\ cash[u] \in Nat /\ InitialCash[u] \in Nat
  BY CashAssumption DEF MoneyInv, IInv, Types, TypeOK
<1>6. r \notin old /\ new = IF u = v THEN old \cup {r} ELSE old
  BY <1>1 DEF EntriesOf
<1>. HIDE DEF old, new, Moves
<1>7. SumFunctionOnSet(Moves', old) = SumFunctionOnSet(Moves, old)
  BY <1>2, <1>4, <1>6, SumSame
<1>8. SumFunctionOnSet(Moves, old) \in Int
  BY <1>3, <1>4, SumIsInt
<1>9. CASE u # v
  BY <1>1, <1>4, <1>5, <1>6, <1>7, <1>9 DEF IInv, Types, TypeOK, old, new
<1>10. CASE u = v
  <2>1. new = old \cup {r} /\ IsFiniteSet(new)
    BY <1>4, <1>6, <1>10, FS_AddElement
  <2>2. SumFunctionOnSet(Moves', new) = SumFunctionOnSet(Moves', old) - stake
    <3>1. \A s \in old \cup {r} : Moves'[s] \in Int
      BY <1>3, <1>4
    <3>2. SumFunctionOnSet(Moves', old \cup {r}) = Moves'[r] + SumFunctionOnSet(Moves', old)
      BY <1>4, <1>6, <3>1, SumAdd
    <3>. QED BY <1>1, <1>2, <1>7, <1>8, <2>1, <3>2
  <2>3. cash'[u] = cash[u] - stake
    BY <1>1, <1>10 DEF IInv, Types, TypeOK
  <2>. QED BY <1>1, <1>5, <1>7, <1>8, <2>1, <2>2, <2>3 DEF new
<1>. QED BY <1>9, <1>10

\* What the settlement pays is what the entry's amount changes by.
LEMMA SettlementPays ==
  ASSUME IInv, IInv', NEW w \in Worker, SettleEntry(w)
  PROVE  LET r == cur[w] IN
         /\ r \in Request /\ Slip[r].user \in User
         /\ entry[r] # "none" /\ entry'[r] # "none"
         /\ \A s \in Request : s # r => entry'[s] = entry[s] /\ pick'[s] = pick[s]
         /\ cash' = [cash EXCEPT ![Slip[r].user] = @ + (Moves'[r] - Moves[r])]
<1> DEFINE r == cur[w]
           p == Projected(w)
           o == EntryOutcome(p)
           s == Settlement(r, p)
<1>1. /\ r \in Request /\ entry[r] = "pending" /\ p \in Picks
      /\ pick' = [pick EXCEPT ![r] = p]
      /\ entry' = [entry EXCEPT ![r] = o]
      /\ \A m \in Market : p[m] # "none" => m \in DOMAIN Slip[r].picks
  BY SettledEntry DEF IInv, PicksOK
<1>2. /\ Effective(p) \in 0..MaxPicks
      /\ Effective(p) >= MinEffective => Payout(Slip[r].stake, Effective(p)) \in Nat \ {0}
  BY <1>1, PayoutPositive
<1>3. /\ o \in {"pending", "won", "lost", "void"}
      /\ o = "won" => Effective(p) >= MinEffective
  BY <1>1, <1>2, OutcomeRule
<1>4. Slip[r].stake \in Nat \ {0} /\ Slip[r].user \in User
  BY <1>1, SlipAssumption
<1>5. IF s.amount = 0 THEN cash' = cash
      ELSE cash' = [cash EXCEPT ![Slip[r].user] = @ + s.amount]
  BY DEF SettleEntry, Post
<1>. HIDE DEF p
<1>6. s.amount = CASE o = "won"  -> Payout(Slip[r].stake, Effective(p))
                   [] o = "void" -> Slip[r].stake
                   [] OTHER      -> 0
  BY <1>3 DEF Settlement
<1>. HIDE DEF s, o
<1>7. /\ entry'[r] = o /\ pick'[r] = p
      /\ \A q \in Request : q # r => entry'[q] = entry[q] /\ pick'[q] = pick[q]
  BY <1>1 DEF IInv, Types, TypeOK
<1>8. Moves[r] = -Slip[r].stake
  BY <1>1 DEF Moves, Moved
<1>9. Moves'[r] = CASE o = "won"  -> Payout(Slip[r].stake, Effective(p)) - Slip[r].stake
                    [] o = "void" -> 0
                    [] OTHER      -> -Slip[r].stake
  BY <1>1, <1>3, <1>7 DEF Moves, Moved
<1>10. Moves'[r] - Moves[r] = s.amount /\ s.amount \in Int
  BY <1>2, <1>3, <1>4, <1>6, <1>8, <1>9
<1>11. cash' = [cash EXCEPT ![Slip[r].user] = @ + s.amount]
  <2>1. cash \in [User -> Nat]
    BY DEF IInv, Types, TypeOK
  <2>. QED BY <1>4, <1>5, <2>1
<1>. QED BY <1>1, <1>3, <1>4, <1>7, <1>10, <1>11

LEMMA SettleMoney ==
  ASSUME IInv, IInv', MoneyInv, NEW w \in Worker, SettleEntry(w)
  PROVE  MoneyInv'
<1> DEFINE r == cur[w]
           v == Slip[r].user
<1>1. /\ r \in Request /\ v \in User
      /\ entry[r] # "none" /\ entry'[r] # "none"
      /\ \A s \in Request : s # r => entry'[s] = entry[s] /\ pick'[s] = pick[s]
      /\ cash' = [cash EXCEPT ![v] = @ + (Moves'[r] - Moves[r])]
  BY SettlementPays
<1>2. \A s \in Request : s # r => Moves'[s] = Moves[s]
  BY <1>1 DEF Moves, Moved, Payout, Effective, With
<1>3. \A s \in Request : Moves[s] \in Int
  BY MovesType DEF MovesOK
<1>4. Moves'[r] \in Int
  <2>1. IInv'
    OBVIOUS
  <2>2. MovesOK'
    BY <2>1, MovesType, PTL
  <2>. QED BY <1>1, <2>2 DEF MovesOK
<1> SUFFICES ASSUME NEW u \in User
             PROVE  /\ IsFiniteSet(EntriesOf(u)')
                    /\ cash'[u] = InitialCash[u] + SumFunctionOnSet(Moves', EntriesOf(u)')
  BY DEF MoneyInv
<1> DEFINE E == EntriesOf(u)
<1>5. EntriesOf(u)' = E /\ (r \in E <=> u = v) /\ E \subseteq Request
  BY <1>1 DEF EntriesOf
<1>6. /\ cash[u] = InitialCash[u] + SumFunctionOnSet(Moves, E) /\ IsFiniteSet(E)
      /\ cash \in [User -> Nat] /\ InitialCash[u] \in Nat
  BY CashAssumption DEF MoneyInv, IInv, Types, TypeOK
<1>. HIDE DEF E, Moves
<1>7. SumFunctionOnSet(Moves, E) \in Int
  BY <1>3, <1>5, <1>6, SumIsInt
<1>8. CASE u # v
  <2>1. SumFunctionOnSet(Moves', E) = SumFunctionOnSet(Moves, E)
    BY <1>2, <1>5, <1>6, <1>8, SumSame
  <2>. QED BY <1>1, <1>5, <1>6, <1>8, <2>1
<1>9. CASE u = v
  <2>1. SumFunctionOnSet(Moves', E) = SumFunctionOnSet(Moves, E) + Moves'[r] - Moves[r]
    BY <1>2, <1>3, <1>4, <1>5, <1>6, <1>9, SumChange
  <2>2. cash'[u] = cash[u] + (Moves'[r] - Moves[r])
    BY <1>1, <1>6, <1>9
  <2>3. Moves[r] \in Int
    BY <1>1, <1>3
  <2>. QED BY <1>4, <1>5, <1>6, <1>7, <2>1, <2>2, <2>3
<1>. QED BY <1>8, <1>9

LEMMA MoneyInit == Init => MoneyInv
<1> SUFFICES ASSUME Init, NEW u \in User
             PROVE  /\ IsFiniteSet(EntriesOf(u))
                    /\ cash[u] = InitialCash[u] + SumFunctionOnSet(Moves, EntriesOf(u))
  BY DEF MoneyInv
<1>1. EntriesOf(u) = {} /\ cash[u] = InitialCash[u] /\ InitialCash[u] \in Nat
  BY CashAssumption DEF Init, EntriesOf
<1>. QED BY <1>1, FS_EmptySet, SumOfNone

LEMMA MoneyNext ==
  ASSUME IInv, IInv', MoneyInv, [Next]_vars
  PROVE  MoneyInv'
<1>1. ASSUME NEW r \in Request, PlaceEntry(r) PROVE MoneyInv'
  BY <1>1, PlaceMoney
<1>2. ASSUME NEW w \in Worker, SettleEntry(w) PROVE MoneyInv'
  BY <1>2, SettleMoney
<1>3. CASE UNCHANGED <<entry, pick, cash>>
  BY <1>3, SameMoney
<1>. QED BY <1>1, <1>2, <1>3
     DEF Next, Place, SettleLoop, vars, LookUpKey, CheckMarkets, ReplayEntry, RefuseStake, Answer,
         AutoClose, UpsertRead, UpsertWrite, AdminSettle, Collect, LockEntry, MarketDone, Crash,
         AlreadySettled, SettleFails

\* A bettor has what they began with, less the stakes of their entries, plus
\* what the picks stored for each settled entry are worth (placeEntry,
\* settleEntry), however many workers settle them and whatever fails.
THEOREM WalletsMatchEntries == Spec => []MoneyMatchesEntries
<1>1. IInv /\ IInv' /\ MoneyInv /\ [Next]_vars => MoneyInv'
  BY MoneyNext
<1>2. MoneyInv => MoneyMatchesEntries
  BY DEF MoneyInv, MoneyMatchesEntries, Moves
<1>. QED BY MoneyInit, <1>1, <1>2, BetsInductive, PTL DEF Spec

-----------------------------------------------------------------------------
(* The exposure of a market. *)

Pays == [t \in Ticket |-> PayoutOf(t)]
Stakes == [t \in Ticket |-> StakeOf(t)]
Side(S, d) == {t \in S : TicketOf[t].direction = d}

LEMMA TicketAmounts ==
  ASSUME NEW t \in Ticket
  PROVE  Stakes[t] \in Nat /\ Pays[t] \in Nat
<1> DEFINE stake == TicketOf[t].stake
           n == TicketOf[t].picks
<1>1. stake \in Nat /\ n \in 3..6
  BY TicketAssumption DEF MinPicks, MaxPicks
<1>. HIDE DEF stake, n
<1>2. PayoutMultipliersX100[n] \in {500, 1000, 2000, 4000}
  BY <1>1 DEF PayoutMultipliersX100
<1>3. /\ (stake * 500) \div 100 = 5 * stake
      /\ (stake * 1000) \div 100 = 10 * stake
      /\ (stake * 2000) \div 100 = 20 * stake
      /\ (stake * 4000) \div 100 = 40 * stake
  BY <1>1
<1>4. Payout(stake, n) \in Nat
  BY <1>1, <1>2, <1>3 DEF Payout
<1>. QED BY <1>1, <1>4 DEF Stakes, Pays, StakeOf, PayoutOf, stake, n

\* With fewer tickets there is no more on either side, nor staked.
LEMMA ExposureGrows ==
  ASSUME NEW S \in SUBSET Ticket, IsFiniteSet(S), NEW U \in SUBSET S
  PROVE  /\ TotalStake(S) \in Nat /\ TotalStake(U) \in Nat /\ TotalStake(U) <= TotalStake(S)
         /\ Dominant(S) \in Nat /\ Dominant(U) \in Nat /\ Dominant(U) <= Dominant(S)
<1>1. IsFiniteSet(U)
  BY FS_Subset
<1>2. /\ TotalStake(S) \in Nat /\ TotalStake(U) \in Nat /\ TotalStake(U) <= TotalStake(S)
  <2>1. \A t \in S : Stakes[t] \in Nat
    BY TicketAmounts
  <2>. HIDE DEF Stakes
  <2>2. /\ SumFunctionOnSet(Stakes, S) \in Nat /\ SumFunctionOnSet(Stakes, U) \in Nat
        /\ SumFunctionOnSet(Stakes, U) <= SumFunctionOnSet(Stakes, S)
    BY <1>1, <2>1, SumIsNat, SumGrows
  <2>. QED BY <2>2 DEF TotalStake, Stakes
<1>3. ASSUME NEW d
      PROVE  /\ SidePayout(S, d) \in Nat /\ SidePayout(U, d) \in Nat
             /\ SidePayout(U, d) <= SidePayout(S, d)
  <2>1. /\ IsFiniteSet(Side(S, d)) /\ IsFiniteSet(Side(U, d))
        /\ Side(U, d) \subseteq Side(S, d) /\ Side(S, d) \subseteq S
    BY FS_Subset DEF Side
  <2>2. \A t \in Side(S, d) : Pays[t] \in Nat
    BY <2>1, TicketAmounts
  <2>3. /\ SumFunctionOnSet(Pays, Side(S, d)) \in Nat
        /\ SumFunctionOnSet(Pays, Side(U, d)) \in Nat
        /\ SumFunctionOnSet(Pays, Side(U, d)) <= SumFunctionOnSet(Pays, Side(S, d))
    BY <2>1, <2>2, SumIsNat, SumGrows
  <2>. QED BY <2>3 DEF SidePayout, Pays, Side
<1>4. ASSUME NEW T \in {S, U}
      PROVE  /\ Dominant(T) \in {SidePayout(T, "yes"), SidePayout(T, "no")}
             /\ SidePayout(T, "yes") <= Dominant(T) /\ SidePayout(T, "no") <= Dominant(T)
  <2> DEFINE y == SidePayout(T, "yes")
             n == SidePayout(T, "no")
  <2>1. y \in Nat /\ n \in Nat
    BY <1>3
  <2>. HIDE DEF y, n
  <2>2. \E x \in {y, n} : \A z \in {y, n} : x >= z
    BY <2>1
  <2>3. Max({y, n}) \in {y, n} /\ \A z \in {y, n} : Max({y, n}) >= z
    BY <2>2 DEF Max
  <2>. QED BY <2>1, <2>3 DEF Dominant, y, n
<1>. QED BY <1>2, <1>3, <1>4

(***************************************************************************)
(* What the checks that are done, failed or still under way leave: an open *)
(* market is within the limits, or an entry's check has still to sum or to *)
(* close it.                                                               *)
(***************************************************************************)
ExposureInv ==
  /\ stand \in [Ticket -> {"new", "seen", "pending", "decided"}]
  /\ check \in [Ticket -> {"none", "sum", "close", "done"}]
  /\ IsFiniteSet(Counted)
  /\ listing = "open" =>
       \A limit \in Limit \ loose :
         \/ \E t \in Ticket : check[t] \in {"sum", "close"}
         \/ ~Over(limit, Counted)

LEMMA ExposureInitInv == ExposureInit => ExposureInv
<1> SUFFICES ASSUME ExposureInit PROVE ExposureInv
  OBVIOUS
<1>1. Counted = {}
  BY DEF ExposureInit, Counted
<1>. QED BY <1>1, FS_EmptySet DEF ExposureInit, ExposureInv, Over

LEMMA ExposureNextInv ==
  ASSUME ExposureInv, [ExposureNext]_exposureVars
  PROVE  ExposureInv'
<1>. USE DEF ExposureInv
<1>1. CASE UNCHANGED exposureVars
  BY <1>1 DEF exposureVars, Counted, Over, Capped, Skewed
<1>2. ASSUME NEW t \in Ticket, SeeOpen(t) PROVE ExposureInv'
  <2>1. Counted' = Counted
    BY <1>2 DEF SeeOpen, Counted
  <2>. QED BY <1>2, <2>1 DEF SeeOpen, Over
<1>3. ASSUME NEW t \in Ticket, Commits(t) PROVE ExposureInv'
  <2>1. Counted' = Counted \cup {t}
    BY <1>3 DEF Commits, Counted
  <2>2. IsFiniteSet(Counted')
    BY <2>1, FS_AddElement
  <2>. QED BY <1>3, <2>2 DEF Commits
<1>4. ASSUME NEW t \in Ticket, ComputeExposure(t) PROVE ExposureInv'
  <2>1. Counted' = Counted
    BY <1>4 DEF ComputeExposure, Counted
  <2>2. check'[t] = IF Tripped(Counted) THEN "close" ELSE "done"
    BY <1>4 DEF ComputeExposure
  <2>3. ~Tripped(Counted) => \A limit \in Limit : ~Over(limit, Counted)
    BY DEF Tripped
  <2>. QED BY <1>4, <2>1, <2>2, <2>3 DEF ComputeExposure
<1>5. ASSUME NEW t \in Ticket, CloseIfOpen(t) PROVE ExposureInv'
  <2>1. Counted' = Counted /\ listing' # "open"
    BY <1>5 DEF CloseIfOpen, Counted
  <2>. QED BY <1>5, <2>1 DEF CloseIfOpen
<1>6. ASSUME NEW t \in Ticket, CheckFails(t) PROVE ExposureInv'
  <2>1. Counted' = Counted
    BY <1>6 DEF CheckFails, Counted
  <2>. QED BY <1>6, <2>1 DEF CheckFails
<1>7. ASSUME NEW t \in Ticket, Decides(t) PROVE ExposureInv'
  <2>1. Counted' = Counted \ {t} /\ Counted \subseteq Ticket
    BY <1>7 DEF Decides, Counted
  <2>2. IsFiniteSet(Counted')
    BY <2>1, FS_RemoveElement
  <2>3. Over("cap", Counted') => Over("cap", Counted)
    <3> DEFINE S == Counted
               U == S \ {t}
    <3>1. /\ TotalStake(S) \in Nat /\ TotalStake(U) \in Nat /\ TotalStake(U) <= TotalStake(S)
          /\ Dominant(S) \in Nat /\ Dominant(U) \in Nat /\ Dominant(U) <= Dominant(S)
      BY <2>1, ExposureGrows
    <3>. QED BY <2>1, <3>1, LimitsAssumption DEF Over, Capped
  <2>4. loose' = loose \cup {"skew"} /\ check' = check /\ listing' = listing
    BY <1>7 DEF Decides
  <2>5. \A limit \in Limit \ loose' : limit = "cap" /\ limit \notin loose
    BY <2>4 DEF Limit
  <2>. QED BY <1>7, <2>2, <2>3, <2>4, <2>5 DEF Decides
<1>8. ASSUME NEW status \in {"open", "closed", "final"}, Upsert(status) PROVE ExposureInv'
  <2>1. Counted' = Counted
    BY <1>8 DEF Upsert, Counted
  <2>. QED BY <1>8, <2>1 DEF Upsert
<1>. QED BY <1>1, <1>2, <1>3, <1>4, <1>5, <1>6, <1>7, <1>8 DEF ExposureNext

\* Whichever checks overlap, once none is under way an open market is within
\* its limits, but for what failed, was opened again or was decided since
\* (checkAndCloseIfNeeded sums after its entry's commit).
THEOREM ChecksMissNothing == ExposureSpec => []LimitsHoldWhenChecked
<1>1. ExposureInv /\ [ExposureNext]_exposureVars => ExposureInv'
  BY ExposureNextInv
<1>2. ExposureInv => LimitsHoldWhenChecked
  BY DEF ExposureInv, LimitsHoldWhenChecked
<1>. QED BY ExposureInitInv, <1>1, <1>2, PTL DEF ExposureSpec
=============================================================================
