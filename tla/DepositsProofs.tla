---------------------------- MODULE DepositsProofs ----------------------------
(***************************************************************************)
(* Proofs about coin purchases, for any users, checkout calls, packages,   *)
(* provider events and any number of handlers at work at once.             *)
(***************************************************************************)
EXTENDS Deposits, SumTheorems

\* An intent's row exists exactly from its insert on; a session comes later.
RowsOK ==
  /\ \A i \in Intent : cpc[i] \in {"new", "looked", "offered"} => status[i] = "none"
  /\ \A i \in Intent : cpc[i] \in {"inserted", "answered"} => status[i] # "none"
  /\ \A i \in Intent : session[i] => status[i] # "none"

\* FOR UPDATE: a handler's intent is its own, and is as the handler read it.
LocksOK ==
  /\ \A h \in Handler : hpc[h] = "locked" =>
       /\ event[h] \in Event
       /\ session[event[h].intent]
       /\ seen[h] = status[event[h].intent]
  /\ \A h, g \in Handler :
       hpc[h] = "locked" /\ hpc[g] = "locked" /\ event[h].intent = event[g].intent => h = g

\* What is posted is posted for intents that are completed.
PostsOK == \A p \in posted : status[p[2]] = "completed"

IInv == TypeOK /\ RowsOK /\ LocksOK /\ PostsOK /\ OneIntentPerKey

-----------------------------------------------------------------------------
LEMMA CreditType ==
  ASSUME TypeOK, NEW i \in Intent
  PROVE  /\ Call[i].user \in User /\ Credit(i) \in Nat
         /\ Posts(i) \subseteq Kind \X {i}
<1>1. Base(i) \in Nat /\ Call[i].user \in User
  BY CallAssumption DEF Base
<1>2. Bonus(i) \in Nat
  BY <1>1 DEF Bonus, FirstPurchaseBonusMultiplier
<1>3. Posts(i) \subseteq Kind \X {i}
  BY DEF Posts, Kind
<1>. QED BY <1>1, <1>2, <1>3 DEF Credit

LEMMA InitInv == Init => IInv
<1>. SUFFICES ASSUME Init PROVE IInv
  OBVIOUS
<1>1. TypeOK
  BY DEF Init, TypeOK, Status, Kind
<1>2. RowsOK /\ LocksOK /\ PostsOK /\ OneIntentPerKey
  BY DEF Init, RowsOK, LocksOK, PostsOK, OneIntentPerKey
<1>. QED BY <1>1, <1>2 DEF IInv

\* Steps of createCheckout that change no row.
LEMMA GotoInv ==
  ASSUME IInv, NEW i \in Intent, NEW where, Goto(i, where),
         \/ cpc[i] = "new" /\ where \in {"looked", "replayed", "refused"}
         \/ cpc[i] = "offered" /\ where \in {"replayed", "refused"}
         \/ where = "refused"
  PROVE  IInv'
<1>. USE DEF IInv, Goto, handlerVars
<1>1. TypeOK'
  BY DEF TypeOK
<1>2. RowsOK'
  BY DEF RowsOK, TypeOK
<1>3. LocksOK' /\ PostsOK' /\ OneIntentPerKey'
  BY DEF LocksOK, PostsOK, OneIntentPerKey
<1>. QED BY <1>1, <1>2, <1>3

LEMMA ReadOfferInv ==
  ASSUME IInv, NEW i \in Intent, ReadOffer(i)
  PROVE  IInv'
<1>. USE DEF IInv, ReadOffer, handlerVars
<1>1. TypeOK'
  BY DEF TypeOK
<1>2. RowsOK'
  BY DEF RowsOK, TypeOK
<1>3. LocksOK' /\ PostsOK' /\ OneIntentPerKey'
  BY DEF LocksOK, PostsOK, OneIntentPerKey
<1>. QED BY <1>1, <1>2, <1>3

LEMMA InsertInv ==
  ASSUME IInv, NEW i \in Intent, InsertIntent(i)
  PROVE  IInv'
<1>. USE DEF IInv, InsertIntent, handlerVars
<1>1. TypeOK'
  BY DEF TypeOK, Status
<1>2. RowsOK'
  BY DEF RowsOK, TypeOK
<1>3. /\ status[i] = "none" /\ ~session[i]
      /\ status'[i] = "pending"
      /\ \A j \in Intent : j # i => status'[j] = status[j]
  BY DEF RowsOK, TypeOK
<1>4. \A h \in Handler : hpc[h] = "locked" => event[h].intent \in Intent /\ event[h].intent # i
  BY <1>3, EventAssumption DEF LocksOK
<1>5. LocksOK'
  BY <1>3, <1>4 DEF LocksOK
<1>6. PostsOK'
  BY <1>3 DEF PostsOK, TypeOK
<1>7. \A j \in Intent : status[j] # "none" => ~SameKey(i, j) /\ ~SameKey(j, i)
  BY DEF Existing, SameKey
<1>8. OneIntentPerKey'
  BY <1>3, <1>7 DEF OneIntentPerKey, SameKey
<1>. QED BY <1>1, <1>2, <1>5, <1>6, <1>8

LEMMA AttachInv ==
  ASSUME IInv, NEW i \in Intent, AttachSession(i)
  PROVE  IInv'
<1>. USE DEF IInv, AttachSession, handlerVars
<1>1. TypeOK'
  BY DEF TypeOK
<1>2. RowsOK'
  BY DEF RowsOK, TypeOK
<1>3. \A h \in Handler : hpc[h] = "locked" => event[h].intent \in Intent
  BY EventAssumption DEF LocksOK
<1>4. LocksOK'
  BY <1>3 DEF LocksOK, TypeOK
<1>5. PostsOK' /\ OneIntentPerKey'
  BY DEF PostsOK, OneIntentPerKey
<1>. QED BY <1>1, <1>2, <1>4, <1>5

-----------------------------------------------------------------------------
(* The events of the provider. *)

LEMMA FailureInv ==
  ASSUME IInv, NEW e \in Event, HandleFailure(e)
  PROVE  IInv'
<1> DEFINE i == e.intent
<1>. USE DEF IInv, HandleFailure, handlerVars, checkoutVars
<1>1. /\ i \in Intent /\ status[i] = "pending"
      /\ status'[i] \in {"failed", "expired"}
      /\ \A j \in Intent : j # i => status'[j] = status[j]
  BY EventAssumption DEF TypeOK, FailureStatus
<1>2. TypeOK'
  BY <1>1 DEF TypeOK, Status, FailureStatus
<1>3. RowsOK'
  BY <1>1 DEF RowsOK
<1>4. \A h \in Handler : hpc[h] = "locked" => event[h].intent \in Intent \ {i}
  BY EventAssumption DEF RowFree, LocksOK
<1>5. LocksOK'
  BY <1>1, <1>4 DEF LocksOK
<1>6. PostsOK'
  BY <1>1 DEF PostsOK, TypeOK
<1>7. OneIntentPerKey'
  BY <1>1 DEF OneIntentPerKey
<1>. QED BY <1>2, <1>3, <1>5, <1>6, <1>7

LEMMA LockInv ==
  ASSUME IInv, NEW h \in Handler, NEW e \in Event, LockIntent(h, e)
  PROVE  IInv'
<1>. USE DEF IInv, LockIntent, checkoutVars
<1>1. e.intent \in Intent /\ status[e.intent] \in Status
  BY EventAssumption DEF TypeOK
<1>2. TypeOK'
  BY <1>1 DEF TypeOK
<1>3. RowsOK' /\ PostsOK' /\ OneIntentPerKey'
  BY DEF RowsOK, PostsOK, OneIntentPerKey
<1>4. /\ hpc'[h] = "locked" /\ event'[h] = e /\ seen'[h] = status[e.intent]
      /\ \A g \in Handler : g # h => /\ hpc'[g] = hpc[g] /\ event'[g] = event[g]
                                     /\ seen'[g] = seen[g]
  BY DEF TypeOK
<1>5. \A g \in Handler : hpc[g] = "locked" => event[g].intent # e.intent
  BY DEF RowFree
<1>6. LocksOK'
  BY <1>4, <1>5 DEF LocksOK
<1>. QED BY <1>2, <1>3, <1>6

\* A handler that ends lets go of its intent, whatever it made of its status.
LEMMA EndsInv ==
  ASSUME IInv, NEW h \in Handler, hpc[h] = "locked", HandlerEnds(h),
         NEW s \in Status \ {"none"},
         status' = [status EXCEPT ![event[h].intent] = s]
  PROVE  /\ RowsOK' /\ LocksOK' /\ OneIntentPerKey'
         /\ hpc' \in [Handler -> {"idle", "locked"}]
         /\ event' \in [Handler -> Event \cup {NoEvent}]
         /\ seen' \in [Handler -> Status]
         /\ status' \in [Intent -> Status]
<1> DEFINE i == event[h].intent
<1>. USE DEF IInv, HandlerEnds, checkoutVars
<1>1. /\ i \in Intent /\ status[i] # "none" /\ status'[i] = s
      /\ \A j \in Intent : j # i => status'[j] = status[j]
  BY EventAssumption DEF TypeOK, LocksOK, RowsOK
<1>2. RowsOK'
  BY <1>1 DEF RowsOK
<1>3. \A g \in Handler : hpc'[g] = "locked" =>
        /\ g # h /\ hpc[g] = "locked" /\ event'[g] = event[g] /\ seen'[g] = seen[g]
        /\ event[g].intent \in Intent \ {i}
  BY EventAssumption DEF TypeOK, LocksOK
<1>4. LocksOK'
  BY <1>1, <1>3 DEF LocksOK
<1>5. OneIntentPerKey'
  BY <1>1 DEF OneIntentPerKey
<1>6. /\ hpc' \in [Handler -> {"idle", "locked"}]
      /\ event' \in [Handler -> Event \cup {NoEvent}]
      /\ seen' \in [Handler -> Status]
      /\ status' \in [Intent -> Status]
  BY <1>1 DEF TypeOK, Status
<1>. QED BY <1>2, <1>4, <1>5, <1>6

LEMMA LeavesInv ==
  ASSUME IInv, NEW h \in Handler, AlreadyCompleted(h) \/ HandlerFails(h)
  PROVE  IInv'
<1> DEFINE i == event[h].intent
<1>1. /\ hpc[h] = "locked" /\ HandlerEnds(h)
      /\ UNCHANGED <<status, locked, posted>>
  BY DEF AlreadyCompleted, HandlerFails
<1>2. i \in Intent /\ status[i] \in Status \ {"none"}
  BY <1>1, EventAssumption DEF IInv, TypeOK, LocksOK, RowsOK
<1>3. status' = [status EXCEPT ![i] = status[i]]
  BY <1>1, <1>2 DEF IInv, TypeOK
<1>4. RowsOK' /\ LocksOK' /\ OneIntentPerKey' /\ TypeOK'
  BY <1>1, <1>2, <1>3, EndsInv DEF IInv, TypeOK, HandlerEnds, checkoutVars
<1>5. PostsOK'
  BY <1>1 DEF IInv, PostsOK
<1>. QED BY <1>4, <1>5 DEF IInv

LEMMA MismatchInv ==
  ASSUME IInv, NEW h \in Handler, AmountMismatch(h)
  PROVE  IInv'
<1> DEFINE i == event[h].intent
<1>1. /\ hpc[h] = "locked" /\ HandlerEnds(h) /\ UNCHANGED <<locked, posted>>
      /\ status' = [status EXCEPT ![i] = "failed"]
  BY DEF AmountMismatch
<1>2. "failed" \in Status \ {"none"}
  BY DEF Status
<1>3. RowsOK' /\ LocksOK' /\ OneIntentPerKey' /\ TypeOK'
  BY <1>1, <1>2, EndsInv DEF IInv, TypeOK, HandlerEnds, checkoutVars
<1>4. status[i] # "completed"
  BY DEF AmountMismatch, IInv, LocksOK
<1>5. PostsOK'
  BY <1>1, <1>4 DEF IInv, PostsOK, TypeOK
<1>. QED BY <1>3, <1>5 DEF IInv

LEMMA CompleteInv ==
  ASSUME IInv, NEW h \in Handler, Complete(h)
  PROVE  IInv'
<1> DEFINE i == event[h].intent
<1>1. /\ hpc[h] = "locked" /\ HandlerEnds(h)
      /\ posted' = posted \cup Posts(i)
      /\ locked' = [locked EXCEPT ![Call[i].user] = @ + Credit(i)]
      /\ status' = [status EXCEPT ![i] = "completed"]
  BY DEF Complete
<1>2. i \in Intent
  BY <1>1, EventAssumption DEF IInv, LocksOK
<1>3. /\ Call[i].user \in User /\ Credit(i) \in Nat
      /\ Posts(i) \subseteq Kind \X {i}
  BY <1>2, CreditType DEF IInv
<1>4. "completed" \in Status \ {"none"}
  BY DEF Status
<1>5. /\ RowsOK' /\ LocksOK' /\ OneIntentPerKey'
      /\ hpc' \in [Handler -> {"idle", "locked"}]
      /\ event' \in [Handler -> Event \cup {NoEvent}]
      /\ seen' \in [Handler -> Status]
      /\ status' \in [Intent -> Status]
  BY <1>1, <1>4, EndsInv
<1>6. TypeOK'
  <2>1. locked' \in [User -> Nat]
    BY <1>1, <1>3 DEF IInv, TypeOK
  <2>2. posted' \subseteq Kind \X Intent
    BY <1>1, <1>2, <1>3 DEF IInv, TypeOK
  <2>. QED BY <1>1, <1>5, <2>1, <2>2 DEF IInv, TypeOK, HandlerEnds, checkoutVars
<1>7. PostsOK'
  <2> SUFFICES ASSUME NEW p \in posted' PROVE status'[p[2]] = "completed"
    BY DEF PostsOK
  <2>1. p[2] \in Intent /\ (p[2] = i \/ status[p[2]] = "completed")
    BY <1>1, <1>2, <1>3 DEF IInv, PostsOK, TypeOK
  <2>. QED BY <1>1, <1>2, <2>1 DEF IInv, TypeOK
<1>. QED BY <1>5, <1>6, <1>7 DEF IInv

-----------------------------------------------------------------------------
LEMMA CheckoutInv ==
  ASSUME IInv, NEW i \in Intent,
         \/ LookUpKey(i) \/ ReplayKey(i) \/ ReplayInsert(i) \/ CheckoutDies(i)
  PROVE  IInv'
<1>1. Replay(i) \in {"replayed", "refused"}
  BY DEF Replay
<1>2. CASE LookUpKey(i)
  BY <1>2, GotoInv DEF LookUpKey
<1>3. CASE ReplayKey(i)
  BY <1>1, <1>3, GotoInv DEF ReplayKey
<1>4. CASE ReplayInsert(i)
  BY <1>1, <1>4, GotoInv DEF ReplayInsert
<1>5. CASE CheckoutDies(i)
  BY <1>5, GotoInv DEF CheckoutDies
<1>. QED BY <1>2, <1>3, <1>4, <1>5

LEMMA NextInv == IInv /\ [Next]_vars => IInv'
<1> SUFFICES ASSUME IInv, [Next]_vars PROVE IInv'
  OBVIOUS
<1>1. CASE UNCHANGED vars
  BY <1>1 DEF vars, checkoutVars, handlerVars, IInv, TypeOK, RowsOK, LocksOK, PostsOK, OneIntentPerKey
<1>2. ASSUME NEW i \in Intent,
             \/ LookUpKey(i) \/ ReplayKey(i) \/ ReadOffer(i) \/ InsertIntent(i)
             \/ ReplayInsert(i) \/ AttachSession(i) \/ CheckoutDies(i)
      PROVE  IInv'
  BY <1>2, CheckoutInv, ReadOfferInv, InsertInv, AttachInv
<1>3. ASSUME NEW e \in Event, HandleFailure(e) PROVE IInv'
  BY <1>3, FailureInv
<1>4. ASSUME NEW h \in Handler, NEW e \in Event, LockIntent(h, e) PROVE IInv'
  BY <1>4, LockInv
<1>5. ASSUME NEW h \in Handler,
             AlreadyCompleted(h) \/ AmountMismatch(h) \/ Complete(h) \/ HandlerFails(h)
      PROVE  IInv'
  BY <1>5, LeavesInv, MismatchInv, CompleteInv
<1>. QED BY <1>1, <1>2, <1>3, <1>4, <1>5 DEF Next

LEMMA StepKeepsCompleted ==
  ASSUME IInv, [Next]_vars, NEW i \in Intent, status[i] = "completed"
  PROVE  status'[i] = "completed"
<1>1. status \in [Intent -> Status] /\ cpc[i] # "offered"
  BY DEF IInv, TypeOK, RowsOK
<1>2. CASE UNCHANGED status
  BY <1>2
<1>3. ASSUME NEW j \in Intent, InsertIntent(j) PROVE status'[i] = "completed"
  BY <1>1, <1>3 DEF InsertIntent
<1>4. ASSUME NEW e \in Event, HandleFailure(e) PROVE status'[i] = "completed"
  BY <1>1, <1>4 DEF HandleFailure
<1>5. ASSUME NEW h \in Handler, AmountMismatch(h) PROVE status'[i] = "completed"
  BY <1>1, <1>5 DEF AmountMismatch, IInv, LocksOK
<1>6. ASSUME NEW h \in Handler, Complete(h) PROVE status'[i] = "completed"
  BY <1>1, <1>6 DEF Complete
<1>. QED BY <1>2, <1>3, <1>4, <1>5, <1>6
     DEF Next, vars, checkoutVars, LookUpKey, ReplayKey, ReadOffer, ReplayInsert, AttachSession,
         CheckoutDies, Goto, LockIntent, AlreadyCompleted, HandlerFails

-----------------------------------------------------------------------------
\* In every reachable state IInv holds: also that a ledger row is only there
\* for an intent that is completed, and that each locked intent is still as
\* its handler read it.
THEOREM DepositsInductive == Spec => []IInv
BY InitInv, NextInv, PTL DEF Spec

\* Type correctness of module Deposits.
THEOREM DepositsTypeCorrect == Spec => []TypeOK
<1>1. IInv => TypeOK
  BY DEF IInv
<1>. QED BY <1>1, DepositsInductive, PTL

\* Any number of checkouts under one key, retried, concurrent or cut off,
\* make one intent (deposit_intents_user_idem_uq and the replays).
THEOREM CheckoutsMakeOneIntent == Spec => []OneIntentPerKey
<1>1. IInv => OneIntentPerKey
  BY DEF IInv
<1>. QED BY <1>1, DepositsInductive, PTL

\* No event takes a completed intent back, however many handlers are at work
\* (the row's lock in handleCompletedEvent, the condition of the update in
\* handleFailureEvent).
THEOREM CompletedStaysCompleted == Spec => CompletedIsFinal
<1>1. IInv /\ [Next]_vars =>
        [\A i \in Intent : status[i] = "completed" => status'[i] = "completed"]_vars
  BY StepKeepsCompleted
<1>. QED BY <1>1, DepositsInductive, PTL DEF Spec, CompletedIsFinal

-----------------------------------------------------------------------------
(* The sum of what was paid.  It is over finitely many intents in every    *)
(* state, whatever Intent is: they are completed one by one.               *)

Credits == [i \in Intent |-> Credit(i)]

PaidInv == PaidMatchesIntents /\ \A u \in User : IsFiniteSet(Completed(u))

\* A step that completes no intent pays nothing.
LEMMA PaidKept ==
  ASSUME IInv, PaidInv, locked' = locked,
         \A i \in Intent : status'[i] = "completed" <=> status[i] = "completed",
         \A i \in Intent : status[i] = "completed" => first'[i] = first[i]
  PROVE  PaidInv'
<1> SUFFICES ASSUME NEW u \in User
             PROVE  /\ IsFiniteSet(Completed(u)')
                    /\ locked'[u] = SumFunctionOnSet(Credits', Completed(u)')
  BY DEF PaidInv, PaidMatchesIntents, Credits
<1>1. Completed(u)' = Completed(u)
  BY DEF Completed
<1>2. \A i \in Completed(u) : Credits[i] = Credits'[i]
  BY DEF Completed, Credits, Credit, Base, Bonus
<1>3. IsFiniteSet(Completed(u)) /\ locked[u] = SumFunctionOnSet(Credits, Completed(u))
  BY DEF PaidInv, PaidMatchesIntents, Credits
<1>4. SumFunctionOnSet(Credits, Completed(u)) = SumFunctionOnSet(Credits', Completed(u))
  BY <1>2, <1>3, SumSame
<1>. QED BY <1>1, <1>3, <1>4

LEMMA CompletePays ==
  ASSUME IInv, PaidInv, NEW h \in Handler, Complete(h)
  PROVE  PaidInv'
<1> DEFINE i == event[h].intent
<1>1. /\ locked' = [locked EXCEPT ![Call[i].user] = @ + Credit(i)]
      /\ status' = [status EXCEPT ![i] = "completed"]
      /\ first' = first
  BY DEF Complete, HandlerEnds, checkoutVars
<1>2. i \in Intent /\ status[i] # "completed"
  BY EventAssumption DEF Complete, IInv, LocksOK
<1>3. Credits' = Credits /\ \A j \in Intent : Credits[j] \in Nat
  BY <1>1, CreditType DEF Credits, Credit, Base, Bonus, IInv
<1> SUFFICES ASSUME NEW u \in User
             PROVE  /\ IsFiniteSet(Completed(u)')
                    /\ locked'[u] = SumFunctionOnSet(Credits, Completed(u)')
  BY <1>3 DEF PaidInv, PaidMatchesIntents, Credits
<1>4. IsFiniteSet(Completed(u)) /\ locked[u] = SumFunctionOnSet(Credits, Completed(u))
  BY DEF PaidInv, PaidMatchesIntents, Credits
<1>5. CASE Call[i].user = u
  <2>1. Completed(u)' = Completed(u) \cup {i} /\ i \notin Completed(u)
    BY <1>1, <1>2, <1>5 DEF Completed, IInv, TypeOK
  <2>2. locked'[u] = locked[u] + Credits[i]
    BY <1>1, <1>2, <1>5 DEF IInv, TypeOK, Credits
  <2>3. \A j \in Completed(u) \cup {i} : Credits[j] \in Int
    BY <1>2, <1>3 DEF Completed
  <2>4. SumFunctionOnSet(Credits, Completed(u) \cup {i})
          = Credits[i] + SumFunctionOnSet(Credits, Completed(u))
    <3> HIDE DEF i
    <3>. QED BY <1>4, <2>1, <2>3, SumAdd
  <2>5. IsFiniteSet(Completed(u) \cup {i})
    BY <1>4, FS_AddElement
  <2>6. locked[u] \in Int /\ Credits[i] \in Int
    BY <1>2, <1>3 DEF IInv, TypeOK
  <2>. QED BY <1>4, <2>1, <2>2, <2>4, <2>5, <2>6
<1>6. CASE Call[i].user # u
  <2>1. Completed(u)' = Completed(u) /\ locked'[u] = locked[u]
    BY <1>1, <1>2, <1>6 DEF Completed, IInv, TypeOK
  <2>. QED BY <1>4, <2>1
<1>. QED BY <1>5, <1>6

LEMMA PaidInit == Init => PaidInv
<1> SUFFICES ASSUME Init, NEW u \in User
             PROVE  /\ IsFiniteSet(Completed(u))
                    /\ locked[u] = SumFunctionOnSet(Credits, Completed(u))
  BY DEF PaidInv, PaidMatchesIntents, Credits
<1>1. Completed(u) = {} /\ locked[u] = 0
  BY DEF Init, Completed
<1>. QED BY <1>1, SumOfNone, FS_EmptySet

LEMMA PaidNext == IInv /\ PaidInv /\ [Next]_vars => PaidInv'
<1> SUFFICES ASSUME IInv, PaidInv, [Next]_vars PROVE PaidInv'
  OBVIOUS
<1>1. \A i \in Intent : status[i] = "completed" => status'[i] = "completed" /\ cpc[i] # "looked"
  BY StepKeepsCompleted DEF IInv, RowsOK
<1>2. ASSUME NEW h \in Handler, Complete(h) PROVE PaidInv'
  BY <1>2, CompletePays
<1>3. CASE UNCHANGED <<status, first, locked>>
  BY <1>3, PaidKept
<1>4. ASSUME NEW i \in Intent, ReadOffer(i) PROVE PaidInv'
  BY <1>1, <1>4, PaidKept DEF ReadOffer, IInv, TypeOK
<1>5. ASSUME NEW i \in Intent, InsertIntent(i) PROVE PaidInv'
  BY <1>1, <1>5, PaidKept DEF InsertIntent, IInv, TypeOK
<1>6. ASSUME NEW e \in Event, HandleFailure(e) PROVE PaidInv'
  BY <1>1, <1>6, PaidKept, EventAssumption DEF HandleFailure, FailureStatus, checkoutVars, IInv, TypeOK
<1>7. ASSUME NEW h \in Handler, AmountMismatch(h) PROVE PaidInv'
  <2>1. event[h].intent \in Intent
    BY <1>7, EventAssumption DEF AmountMismatch, IInv, LocksOK
  <2>. QED BY <1>1, <1>7, <2>1, PaidKept DEF AmountMismatch, HandlerEnds, checkoutVars, IInv, TypeOK
<1>8. ASSUME NEW h \in Handler, NEW e \in Event, LockIntent(h, e) PROVE PaidInv'
  BY <1>3, <1>8 DEF LockIntent, checkoutVars
<1>9. ASSUME NEW h \in Handler, AlreadyCompleted(h) \/ HandlerFails(h) PROVE PaidInv'
  BY <1>3, <1>9 DEF AlreadyCompleted, HandlerFails, HandlerEnds, checkoutVars
<1>10. ASSUME NEW i \in Intent,
              \/ LookUpKey(i) \/ ReplayKey(i) \/ ReplayInsert(i)
              \/ AttachSession(i) \/ CheckoutDies(i)
       PROVE  PaidInv'
  BY <1>3, <1>10 DEF LookUpKey, ReplayKey, ReplayInsert, AttachSession, CheckoutDies, Goto
<1>11. CASE UNCHANGED vars
  BY <1>3, <1>11 DEF vars, checkoutVars
<1>. QED BY <1>2, <1>4, <1>5, <1>6, <1>7, <1>8, <1>9, <1>10, <1>11 DEF Next

\* What a buyer was given is the sum of what the completed intents promised,
\* however often and in whichever order the provider's events arrive
\* (handleCompletedEvent, handleFailureEvent).
THEOREM BuyersGetWhatIsPaid == Spec => []PaidMatchesIntents
<1>1. PaidInv => PaidMatchesIntents
  BY DEF PaidInv
<1>. QED BY <1>1, PaidInit, PaidNext, DepositsInductive, PTL DEF Spec
=============================================================================
