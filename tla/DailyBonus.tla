------------------------------ MODULE DailyBonus ------------------------------
(***************************************************************************)
(* wallet/daily-bonus.service.ts: claim runs claimWithin as the handler of *)
(* an idempotent call.  "today" is read when a call begins and the clock   *)
(* goes on, so a call may commit on a later day.  claimWithin holds the    *)
(* lock of the user's daily_bonus_state row from its first read to its     *)
(* commit: one step.  All calls are those of one user.                     *)
(***************************************************************************)
EXTENDS Idempotency

CONSTANTS LastDay,                 \* bound of the clock
          BaseAward, Increment, MaxAward

ASSUME DayAssumption == LastDay \in Nat \ {0}
ASSUME AwardAssumption ==
  BaseAward \in Nat /\ Increment \in Nat /\ MaxAward \in Nat /\ BaseAward <= MaxAward
ASSUME NoneAssumption == None \notin [streak : Nat, award : Nat]

VARIABLES
  day,    \* the UTC date
  bonus,  \* daily_bonus_state: [last, streak, total], last = 0 for NULL
  paid    \* ledger rows daily_bonus:<date>: date -> amount

vars == <<idemVars, day, bonus, paid>>

Min2(a, b) == IF a < b THEN a ELSE b

\* Bug: the award is not capped.
Award_Uncapped(streak) == BaseAward + (streak - 1) * Increment

\* dailyBonusSweepsForStreak
Award(streak) == Min2(BaseAward + (streak - 1) * Increment, MaxAward)

TypeOK ==
  /\ IdemTypeOK
  /\ day \in 1..LastDay
  /\ bonus \in [last : 0..LastDay, streak : Nat, total : Nat]
  /\ DOMAIN paid \subseteq 1..LastDay
  /\ \A d \in DOMAIN paid : paid[d] \in BaseAward..MaxAward

Init ==
  /\ IdemInit
  /\ day = 1
  /\ bonus = [last |-> 0, streak |-> 0, total |-> 0]
  /\ paid = [d \in {} |-> 0]

-----------------------------------------------------------------------------
Tick ==
  /\ day < LastDay
  /\ day' = day + 1
  /\ UNCHANGED <<idemVars, bonus, paid>>

Claim(c) == Begin(c, day) /\ UNCHANGED <<day, bonus, paid>>

\* Bug: a missed day does not end the streak.
NextStreak_NeverResets(today) == bonus.streak + 1

\* computeNextStreak, for a day that is not bonus.last
NextStreak(today) ==
  IF bonus.last # 0 /\ bonus.last = today - 1 THEN bonus.streak + 1 ELSE 1

\* Bug: the ledger post has no idempotency key of its own.
Duplicate_Never(today) == FALSE

\* LedgerService.post: the unique index (user, kind, daily_bonus:<date>).
Duplicate(today) == today \in DOMAIN paid

CanClaim(today) == bonus.last # today /\ ~Duplicate(today)

\* claimWithin, up to its commit.
ClaimWithin(c) ==
  LET today == payload[c]
      streak == NextStreak(today)
  IN
  /\ CanClaim(today)
  /\ HandlerReturns(c, [streak |-> streak, award |-> Award(streak)])
  /\ paid' = [d \in DOMAIN paid \cup {today} |-> IF d = today THEN Award(streak) ELSE paid[d]]
  /\ bonus' = [last |-> today, streak |-> streak, total |-> bonus.total + 1]
  /\ UNCHANGED day

Next ==
  \/ Tick
  \/ \E c \in Call : \/ Claim(c)
                     \/ ClaimWithin(c)
                     \/ Execute(c) /\ UNCHANGED <<day, bonus, paid>>

Spec == Init /\ [][Next]_vars

-----------------------------------------------------------------------------
(***************************************************************************)
(* Nobody is rewarded for a streak they did not have: every day it counts, *)
(* back from the last claimed one, was claimed and paid - also when claims *)
(* of different days commit in the wrong order.                            *)
(***************************************************************************)
NoUnearnedStreak == \A k \in 0..(bonus.streak - 1) : bonus.last - k \in DOMAIN paid

(***************************************************************************)
(* The claims counted for the user are the days paid by the ledger: no day *)
(* is claimed twice, under whatever keys, and none is counted unpaid.      *)
(***************************************************************************)
ClaimsAreDaysPaid == bonus.total = Cardinality(DOMAIN paid)
=============================================================================
