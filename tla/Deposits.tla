------------------------------- MODULE Deposits -------------------------------
(***************************************************************************)
(* Coin purchases: wallet/deposits.service.ts, from createCheckout to the  *)
(* events of the payment provider (handleProviderEvent).                   *)
(*                                                                         *)
(* Every call of createCheckout would create an intent of its own and is   *)
(* named by it.  An event may be delivered any number of times, late and   *)
(* in any order.  The handler of a completion locks the intent's row, so   *)
(* it is two steps: the locked read, and what it commits.  Its ledger      *)
(* posts are the one-step promise of module Wallet.                        *)
(***************************************************************************)
EXTENDS Integers, FiniteSetsExt

CONSTANTS User,
          Intent,   \* calls of createCheckout
          Call,     \* their arguments: [user, key, package]
          Sweeps,   \* what a package is worth: package -> Nat
          Event,    \* provider events: [intent, type, matches (the price)]
          Handler, NoEvent

ASSUME CallAssumption ==
  \A i \in Intent : /\ Call[i].user \in User
                    /\ Call[i].package \in DOMAIN Sweeps
                    /\ Sweeps[Call[i].package] \in Nat

ASSUME EventAssumption ==
  /\ NoEvent \notin Event
  /\ \A e \in Event : /\ e.intent \in Intent
                      /\ e.type \in {"session.completed", "session.failed", "session.expired"}
                      /\ e.matches \in BOOLEAN

FirstPurchaseBonusMultiplier == 2

VARIABLES
  status,    \* deposit_intents.status, "none" before the row exists
  first,     \* first_purchase_applied
  session,   \* provider_session_id is set
  cpc,       \* where each createCheckout call is
  hpc,       \* where each handler is
  event,     \* the event it handles
  seen,      \* the status it read under the row's lock
  locked,    \* balances.sweeps_locked_cents
  posted     \* ledger rows: (kind, intent)

checkoutVars == <<first, session, cpc>>
handlerVars == <<hpc, event, seen>>
vars == <<status, checkoutVars, handlerVars, locked, posted>>

Status == {"none", "pending", "completed", "failed", "expired"}
Kind == {"deposit_purchase", "deposit_first_purchase_bonus"}

TypeOK ==
  /\ status \in [Intent -> Status]
  /\ first \in [Intent -> BOOLEAN]
  /\ session \in [Intent -> BOOLEAN]
  /\ cpc \in [Intent -> {"new", "looked", "offered", "inserted", "answered", "replayed", "refused"}]
  /\ hpc \in [Handler -> {"idle", "locked"}]
  /\ event \in [Handler -> Event \cup {NoEvent}]
  /\ seen \in [Handler -> Status]
  /\ locked \in [User -> Nat]
  /\ posted \subseteq Kind \X Intent

Init ==
  /\ status = [i \in Intent |-> "none"]
  /\ first = [i \in Intent |-> FALSE]
  /\ session = [i \in Intent |-> FALSE]
  /\ cpc = [i \in Intent |-> "new"]
  /\ hpc = [h \in Handler |-> "idle"]
  /\ event = [h \in Handler |-> NoEvent]
  /\ seen = [h \in Handler |-> "none"]
  /\ locked = [u \in User |-> 0]
  /\ posted = {}

Base(i) == Sweeps[Call[i].package]
Bonus(i) == IF first[i] THEN Base(i) * (FirstPurchaseBonusMultiplier - 1) ELSE 0

-----------------------------------------------------------------------------
(* createCheckout *)

SameKey(i, j) == Call[i].user = Call[j].user /\ Call[i].key = Call[j].key

\* Bug: the unique index is on the intent's id alone.
Existing_PerCall(i) == {j \in {i} : status[j] # "none"}

\* findIntentByIdemKey; deposit_intents_user_idem_uq lets at most one be.
Existing(i) == {j \in Intent : status[j] # "none" /\ SameKey(i, j)}

\* toCheckoutResult: an intent whose call died early has no session to show.
Replay(i) == IF \A j \in Existing(i) : session[j] THEN "replayed" ELSE "refused"

Goto(i, where) ==
  /\ cpc' = [cpc EXCEPT ![i] = where]
  /\ UNCHANGED <<status, first, session, handlerVars, locked, posted>>

LookUpKey(i) ==
  /\ cpc[i] = "new"
  /\ Existing(i) = {}
  /\ Goto(i, "looked")

ReplayKey(i) ==
  /\ cpc[i] = "new"
  /\ Existing(i) # {}
  /\ Goto(i, IF \A j \in Existing(i) : Call[j].package = Call[i].package
             THEN Replay(i) ELSE "refused")

\* getFirstPurchaseOffer: what the insert below will store.
Completed(u) == {i \in Intent : Call[i].user = u /\ status[i] = "completed"}

ReadOffer(i) ==
  /\ cpc[i] = "looked"
  /\ cpc' = [cpc EXCEPT ![i] = "offered"]
  /\ first' = [first EXCEPT ![i] = Completed(Call[i].user) = {}]
  /\ UNCHANGED <<status, session, handlerVars, locked, posted>>

InsertIntent(i) ==
  /\ cpc[i] = "offered"
  /\ Existing(i) = {}
  /\ status' = [status EXCEPT ![i] = "pending"]
  /\ cpc' = [cpc EXCEPT ![i] = "inserted"]
  /\ UNCHANGED <<first, session, handlerVars, locked, posted>>

\* The insert fails on the unique index.
ReplayInsert(i) ==
  /\ cpc[i] = "offered"
  /\ Existing(i) # {}
  /\ Goto(i, Replay(i))

\* createCheckoutSession and the update that stores the session's id.
AttachSession(i) ==
  /\ cpc[i] = "inserted"
  /\ session' = [session EXCEPT ![i] = TRUE]
  /\ cpc' = [cpc EXCEPT ![i] = "answered"]
  /\ UNCHANGED <<status, first, handlerVars, locked, posted>>

\* The process dies, or the client goes, before the call answers.
CheckoutDies(i) ==
  /\ cpc[i] \in {"looked", "offered", "inserted"}
  /\ Goto(i, "refused")

-----------------------------------------------------------------------------
(* handleFailureEvent: one UPDATE .. WHERE status = 'pending', which waits *)
(* for the row's lock and then looks at the row again.                     *)

RowFree(i) == \A h \in Handler : hpc[h] = "locked" => event[h].intent # i

FailureStatus(type) == IF type = "session.expired" THEN "expired" ELSE "failed"

\* Bug: the update is not conditional on the status.
HandleFailure_Always(e) ==
  /\ e.type # "session.completed"
  /\ session[e.intent]
  /\ RowFree(e.intent)
  /\ status' = [status EXCEPT ![e.intent] = FailureStatus(e.type)]
  /\ UNCHANGED <<checkoutVars, handlerVars, locked, posted>>

HandleFailure(e) ==
  /\ e.type # "session.completed"
  /\ session[e.intent]
  /\ RowFree(e.intent)
  /\ status[e.intent] = "pending"
  /\ status' = [status EXCEPT ![e.intent] = FailureStatus(e.type)]
  /\ UNCHANGED <<checkoutVars, handlerVars, locked, posted>>

-----------------------------------------------------------------------------
(* handleCompletedEvent *)

\* Bug: the intent is read without FOR UPDATE.
LockIntent_NoForUpdate(h, e) ==
  /\ hpc[h] = "idle"
  /\ e.type = "session.completed"
  /\ session[e.intent]
  /\ hpc' = [hpc EXCEPT ![h] = "locked"]
  /\ event' = [event EXCEPT ![h] = e]
  /\ seen' = [seen EXCEPT ![h] = status[e.intent]]
  /\ UNCHANGED <<status, checkoutVars, locked, posted>>

LockIntent(h, e) ==
  /\ hpc[h] = "idle"
  /\ e.type = "session.completed"
  /\ session[e.intent]
  /\ RowFree(e.intent)
  /\ hpc' = [hpc EXCEPT ![h] = "locked"]
  /\ event' = [event EXCEPT ![h] = e]
  /\ seen' = [seen EXCEPT ![h] = status[e.intent]]
  /\ UNCHANGED <<status, checkoutVars, locked, posted>>

HandlerEnds(h) ==
  /\ hpc' = [hpc EXCEPT ![h] = "idle"]
  /\ event' = [event EXCEPT ![h] = NoEvent]
  /\ seen' = [seen EXCEPT ![h] = "none"]
  /\ UNCHANGED checkoutVars

\* A replay of the event, or another event of a completed intent.
AlreadyCompleted(h) ==
  /\ hpc[h] = "locked"
  /\ seen[h] = "completed"
  /\ HandlerEnds(h)
  /\ UNCHANGED <<status, locked, posted>>

\* An error or the end of the process: the transaction is rolled back.
HandlerFails(h) ==
  /\ hpc[h] = "locked"
  /\ HandlerEnds(h)
  /\ UNCHANGED <<status, locked, posted>>

AmountMismatch(h) ==
  /\ hpc[h] = "locked"
  /\ seen[h] # "completed"
  /\ ~event[h].matches
  /\ status' = [status EXCEPT ![event[h].intent] = "failed"]
  /\ HandlerEnds(h)
  /\ UNCHANGED <<locked, posted>>

\* A post of zero is not made.
Posts(i) ==
  (IF Base(i) > 0 THEN {<<"deposit_purchase", i>>} ELSE {}) \cup
  (IF Bonus(i) > 0 THEN {<<"deposit_first_purchase_bonus", i>>} ELSE {})

Credit(i) == Base(i) + Bonus(i)

\* The posts and the update of the intent, whatever it was but completed.
Complete(h) ==
  LET i == event[h].intent IN
  /\ hpc[h] = "locked"
  /\ seen[h] # "completed"
  /\ event[h].matches
  /\ Posts(i) \cap posted = {}
  /\ posted' = posted \cup Posts(i)
  /\ locked' = [locked EXCEPT ![Call[i].user] = @ + Credit(i)]
  /\ status' = [status EXCEPT ![i] = "completed"]
  /\ HandlerEnds(h)

-----------------------------------------------------------------------------
Next ==
  \/ \E i \in Intent : \/ LookUpKey(i) \/ ReplayKey(i) \/ ReadOffer(i)
                       \/ InsertIntent(i) \/ ReplayInsert(i)
                       \/ AttachSession(i) \/ CheckoutDies(i)
  \/ \E e \in Event : HandleFailure(e)
  \/ \E h \in Handler : \/ \E e \in Event : LockIntent(h, e)
                        \/ AlreadyCompleted(h) \/ AmountMismatch(h)
                        \/ Complete(h) \/ HandlerFails(h)

Spec == Init /\ [][Next]_vars

-----------------------------------------------------------------------------
Bonused(u) == {i \in Intent : Call[i].user = u /\ <<"deposit_first_purchase_bonus", i>> \in posted}

(***************************************************************************)
(* What the buyer was given is what was paid: the locked sweeps are the    *)
(* sum, over the intents that are completed now, of the package and of the *)
(* bonus the intent promised - whatever events arrived twice, late, in the *)
(* wrong order or with the wrong amount.                                   *)
(***************************************************************************)
PaidMatchesIntents ==
  \A u \in User :
    locked[u] = SumFunctionOnSet([i \in Intent |-> Credit(i)], Completed(u))

(***************************************************************************)
(* Retries of a checkout under one idempotency key, concurrent or after a  *)
(* crash, make one intent.                                                 *)
(***************************************************************************)
OneIntentPerKey ==
  \A i, j \in Intent :
    status[i] # "none" /\ status[j] # "none" /\ SameKey(i, j) => i = j

(***************************************************************************)
(* A completed intent stays completed: no late failure, expiry or event    *)
(* with another amount takes it back, also one handled at the same time.   *)
(***************************************************************************)
CompletedIsFinal ==
  [][\A i \in Intent : status[i] = "completed" => status'[i] = "completed"]_vars

(***************************************************************************)
(* The first-purchase bonus is for the first purchase: a user gets it once *)
(* (the offer "flips off after a completed intent").                       *)
(***************************************************************************)
FirstPurchaseBonusOnce == \A u \in User : Cardinality(Bonused(u)) <= 1
=============================================================================
