------------------------------ MODULE PromoCodes ------------------------------
(***************************************************************************)
(* wallet/promo-codes.service.ts: redeem runs redeemWithin as the handler  *)
(* of an idempotent call.  redeemWithin locks the promo_codes row, so what *)
(* it writes (redemption, count, ledger row) is seen from its commit on.   *)
(*                                                                         *)
(* Calls share the pool of connections of database.module.ts.  A statement *)
(* of execute needs one while it runs; the handler's transaction keeps one *)
(* from BEGIN to its end; and fetchBalance, inside that transaction, asks  *)
(* the pool for a second one.                                              *)
(***************************************************************************)
EXTENDS Idempotency

CONSTANTS Code, User,
          UserOf,   \* the user of each call
          Asks,     \* the codes each call may name
          Worth,    \* sweeps_cents of each code
          Dated,    \* the codes that may start, expire or be switched off
          Limit,    \* max_redemptions of each code, None for NULL
          Pool      \* connections of the pool

ASSUME PromoAssumption ==
  /\ IsFiniteSet(User) /\ UserOf \in [Call -> User]
  /\ Dated \subseteq Code
  /\ Asks \in [Call -> SUBSET Code]
  /\ Worth \in [Code -> Nat]
  /\ Limit \in [Code -> Nat \cup {None}]
  /\ None \notin Nat /\ None \notin Code
  /\ Pool \in Nat \ {0}

VARIABLES
  usable,      \* codes that are active, started and not expired
  count,       \* redemption_count of each code
  redemptions, \* promo_redemptions: <<user, code>>
  credited,    \* ledger amounts posted to each <<user, code>>
  stage,       \* where each call's handler is
  seen         \* redemption_count in the row it read

promoVars == <<usable, count, redemptions, credited, stage, seen>>
vars == <<idemVars, promoVars>>

InTransaction == {"open", "locked", "balance"}

TypeOK ==
  /\ IdemTypeOK
  /\ usable \subseteq Code
  /\ count \in [Code -> Nat]
  /\ redemptions \subseteq User \X Code
  /\ credited \in [User \X Code -> Nat]
  /\ stage \in [Call -> {"none"} \cup InTransaction]
  /\ seen \in [Call -> Nat]
  /\ \A c \in Call : stage[c] # "none" => pc[c] = "handler" /\ payload[c] \in Code

Init ==
  /\ IdemInit
  /\ usable \in {Code \ s : s \in SUBSET Dated}
  /\ count = [p \in Code |-> 0]
  /\ redemptions = {}
  /\ credited = [r \in User \X Code |-> 0]
  /\ stage = [c \in Call |-> "none"]
  /\ seen = [c \in Call |-> 0]

-----------------------------------------------------------------------------
Connected == {c \in Call : stage[c] # "none"}
ConnectionFree == Cardinality(Connected) < Pool

\* A code starts, expires or is switched off.
Turn(p) ==
  /\ usable' = IF p \in usable THEN usable \ {p} ELSE usable \cup {p}
  /\ UNCHANGED <<idemVars, count, redemptions, credited, stage, seen>>

Redeem(c, p) == Begin(c, p) /\ UNCHANGED promoVars

\* The statements of execute around its handler.
Statement(c) ==
  /\ ConnectionFree
  /\ FindAbsent(c) \/ FindExisting(c) \/ InsertKey(c) \/ InsertCollides(c) \/ StoreResponse(c)
  /\ UNCHANGED promoVars

\* db.transaction: BEGIN on a connection of its own.
Open(c) ==
  /\ pc[c] = "handler"
  /\ stage[c] = "none"
  /\ ConnectionFree
  /\ stage' = [stage EXCEPT ![c] = "open"]
  /\ UNCHANGED <<idemVars, usable, count, redemptions, credited, seen>>

HoldsCode(c, p) == stage[c] \in {"locked", "balance"} /\ payload[c] = p

\* Bug: the code is read without FOR UPDATE.
LockCode_NoForUpdate(c) ==
  /\ stage[c] = "open"
  /\ seen' = [seen EXCEPT ![c] = count[payload[c]]]
  /\ stage' = [stage EXCEPT ![c] = "locked"]
  /\ UNCHANGED <<idemVars, usable, count, redemptions, credited>>

LockCode(c) ==
  /\ stage[c] = "open"
  /\ \A d \in Call : ~HoldsCode(d, payload[c])
  /\ seen' = [seen EXCEPT ![c] = count[payload[c]]]
  /\ stage' = [stage EXCEPT ![c] = "locked"]
  /\ UNCHANGED <<idemVars, usable, count, redemptions, credited>>

Redemption(c) == <<UserOf[c], payload[c]>>

\* Bug: neither the lookup nor the unique index of promo_redemptions.
AlreadyRedeemed_Never(c) == FALSE

AlreadyRedeemed(c) == Redemption(c) \in redemptions

Exhausted(c) == Limit[payload[c]] # None /\ seen[c] >= Limit[payload[c]]

CanRedeem(c) == payload[c] \in usable /\ ~Exhausted(c) /\ ~AlreadyRedeemed(c)

\* Bug: the connection of a transaction that rolled back is not released.
Rollback_Leaks(c) ==
  /\ HandlerThrows(c) \/ Dies(c)
  /\ UNCHANGED promoVars

\* The transaction ends without a commit and releases what it holds.
Rollback(c) ==
  /\ HandlerThrows(c) \/ Dies(c)
  /\ stage' = [stage EXCEPT ![c] = "none"]
  /\ seen' = [seen EXCEPT ![c] = 0]
  /\ UNCHANGED <<usable, count, redemptions, credited>>

Refuse(c) ==
  /\ stage[c] = "locked"
  /\ ~CanRedeem(c)
  /\ Rollback(c)

Commit(c) ==
  LET r == Redemption(c)
      p == payload[c]
  IN
  /\ HandlerReturns(c, p)
  /\ redemptions' = redemptions \cup {r}
  /\ count' = [count EXCEPT ![p] = @ + 1]
  /\ credited' = [credited EXCEPT ![r] = @ + Worth[p]]
  /\ stage' = [stage EXCEPT ![c] = "none"]
  /\ seen' = [seen EXCEPT ![c] = 0]
  /\ UNCHANGED usable

\* Insert the redemption, count it, post what the code is worth.
Grant(c) ==
  /\ stage[c] = "locked"
  /\ CanRedeem(c)
  /\ Worth[payload[c]] > 0
  /\ Commit(c)

\* A code worth nothing posts nothing: the balance is fetched instead ...
GrantNothing(c) ==
  /\ stage[c] = "locked"
  /\ CanRedeem(c)
  /\ Worth[payload[c]] = 0
  /\ stage' = [stage EXCEPT ![c] = "balance"]
  /\ UNCHANGED <<idemVars, usable, count, redemptions, credited, seen>>

\* ... through the pool, while the transaction keeps its own connection.
FetchBalance(c) ==
  /\ stage[c] = "balance"
  /\ ConnectionFree
  /\ Commit(c)

\* What a call does on its own; the rest (Dies, an error) may happen to it.
Step(c) ==
  \/ Statement(c) \/ Open(c) \/ LockCode(c) \/ Refuse(c)
  \/ Grant(c) \/ GrantNothing(c) \/ FetchBalance(c)

Next ==
  \/ \E p \in Dated : Turn(p)
  \/ \E c \in Call : \/ \E p \in Asks[c] : Redeem(c, p)
                     \/ Step(c)
                     \/ Rollback(c)

Spec == Init /\ [][Next]_vars
FairSpec == Spec /\ \A c \in Call : SF_vars(Step(c))

-----------------------------------------------------------------------------
Redeemers(p) == {u \in User : <<u, p>> \in redemptions}

(***************************************************************************)
(* redemption_count is the number of users who redeemed the code, and the  *)
(* limit holds, although users redeem concurrently and the check and the   *)
(* increment are different statements.                                     *)
(***************************************************************************)
LimitHolds ==
  \A p \in Code : /\ count[p] = Cardinality(Redeemers(p))
                  /\ Limit[p] # None => count[p] <= Limit[p]

(***************************************************************************)
(* A user is credited what a code is worth once, under whatever keys and   *)
(* however often the call is repeated, and only with a redemption on file. *)
(***************************************************************************)
CreditedOnce ==
  \A u \in User, p \in Code :
    credited[<<u, p>>] = IF <<u, p>> \in redemptions THEN Worth[p] ELSE 0

\* Every connection is in a transaction that waits for a second one, or for
\* the lock of one that does.
Starved ==
  LET waiting == {c \in Call : stage[c] = "balance"} IN
  /\ ~ConnectionFree
  /\ \A c \in Connected \ waiting :
       stage[c] = "open" /\ \E d \in waiting : HoldsCode(d, payload[c])

(***************************************************************************)
(* Every redemption is answered: no lock and no connection is leaked.  The *)
(* one way out is that redemptions of codes worth nothing take the whole   *)
(* pool, and stay.                                                         *)
(***************************************************************************)
EveryRedemptionEnds ==
  \/ <>[]Starved
  \/ \A c \in Call : pc[c] # "new" ~> pc[c] = "ended"

-----------------------------------------------------------------------------
(* The inductive invariant. *)

OneHolder ==
  \A c, d \in Call : \A p \in Code : HoldsCode(c, p) /\ HoldsCode(d, p) => c = d

\* The row it read is still the row of the code ...
ReadIsCurrent ==
  \A c \in Call : stage[c] \in {"locked", "balance"} => seen[c] = count[payload[c]]

\* ... and the checks made on it still hold when it commits.
ChecksHold ==
  \A c \in Call : stage[c] = "balance" =>
    ~Exhausted(c) /\ ~AlreadyRedeemed(c) /\ Worth[payload[c]] = 0

(***************************************************************************)
(* Why the limit holds: whoever is past LockCode is alone with the code.   *)
(***************************************************************************)
IInv ==
  /\ TypeOK
  /\ OneHolder
  /\ ReadIsCurrent
  /\ ChecksHold
  /\ LimitHolds
  /\ CreditedOnce
=============================================================================
