--------------------------- MODULE DailyBonusProofs ---------------------------
(***************************************************************************)
(* Proofs about the daily bonus and the idempotent call it runs in, for    *)
(* any calls and keys, any number of days and any award schedule.          *)
(***************************************************************************)
EXTENDS DailyBonus, FiniteSetTheorems, TLAPS

Result == [streak : Nat, award : Nat]

KeyRow == [state : {"absent", "open", "completed"},
           hash : (1..LastDay) \cup {None},
           response : Result \cup {None}]

AnswerKind == {"none", "fresh", "replayed", "in progress", "other payload", "error"}

CallsOK ==
  /\ row \in [Key -> KeyRow]
  /\ pc \in [Call -> {"new", "find", "insert", "ended"} \cup Running]
  /\ payload \in [Call -> (1..LastDay) \cup {None}]
  /\ result \in [Call -> Result \cup {None}]
  /\ answer \in [Call -> [kind : AnswerKind, result : Result \cup {None}]]
  /\ \A c \in Call : pc[c] # "new" => payload[c] \in 1..LastDay
  /\ \A c \in Call : pc[c] = "returned" => result[c] # None
  /\ \A c \in Call : pc[c] \in {"new", "find", "insert", "handler"} => result[c] = None
  /\ \A c \in Call : pc[c] # "ended" => answer[c].kind = "none"

\* The call that inserted the row of its key and has, or may have, a result.
Owns(c) == pc[c] \in Running \/ result[c] # None

OneOwner ==
  /\ \A c \in Call : Owns(c) => /\ row[KeyOf[c]].state # "absent"
                                /\ row[KeyOf[c]].hash = payload[c]
  /\ \A c, d \in Call : Owns(c) /\ Owns(d) /\ KeyOf[c] = KeyOf[d] => c = d

\* A stored response is the result of a call of that key and payload.
StoredResponses ==
  \A k \in Key : row[k].state = "completed" =>
    \E d \in Call : /\ KeyOf[d] = k /\ payload[d] = row[k].hash
                    /\ result[d] # None /\ result[d] = row[k].response

BonusOK ==
  /\ day \in 1..LastDay
  /\ bonus \in [last : 0..LastDay, streak : Nat, total : Nat]
  /\ DOMAIN paid \subseteq 1..LastDay
  /\ paid \in [DOMAIN paid -> BaseAward..MaxAward]

IdemInv == CallsOK /\ OneOwner /\ StoredResponses /\ ReplayIsTheResult

BonusInv == BonusOK /\ NoUnearnedStreak /\ ClaimsAreDaysPaid

IInv == IdemInv /\ BonusInv
-----------------------------------------------------------------------------
(* What the handler's own computation returns. *)

LEMMA AwardRange ==
  ASSUME NEW streak \in Nat, streak >= 1
  PROVE  Award(streak) \in BaseAward..MaxAward
<1>1. (streak - 1) * Increment \in Nat
  BY AwardAssumption
<1>2. \A x \in Nat : Min2(BaseAward + x, MaxAward) \in BaseAward..MaxAward
  BY AwardAssumption DEF Min2
<1>. QED BY <1>1, <1>2 DEF Award

LEMMA StreakGrows ==
  ASSUME BonusOK, NEW today \in 1..LastDay
  PROVE  NextStreak(today) \in Nat /\ NextStreak(today) >= 1
BY DEF BonusOK, NextStreak

LEMMA HandlerResult ==
  ASSUME BonusOK, NEW today \in 1..LastDay
  PROVE  /\ [streak |-> NextStreak(today), award |-> Award(NextStreak(today))] \in Result
         /\ [streak |-> NextStreak(today), award |-> Award(NextStreak(today))] # None
<1>1. NextStreak(today) \in Nat /\ Award(NextStreak(today)) \in Nat
  BY StreakGrows, AwardRange, AwardAssumption
<1>. QED BY <1>1, NoneAssumption DEF Result

-----------------------------------------------------------------------------
(* The calls: each step of execute preserves IdemInv. *)

LEMMA InitIdem == Init => IdemInv
<1> SUFFICES ASSUME Init PROVE IdemInv
  OBVIOUS
<1>. USE DEF Init, IdemInit, NoRow, NoAnswer
<1>1. CallsOK
  BY DEF CallsOK, KeyRow, AnswerKind, Running
<1>2. OneOwner
  BY DEF OneOwner, Owns, Running
<1>3. StoredResponses
  BY KeyOfAssumption DEF StoredResponses
<1>4. ReplayIsTheResult
  BY DEF ReplayIsTheResult
<1>. QED BY <1>1, <1>2, <1>3, <1>4 DEF IdemInv

LEMMA BeginInv ==
  ASSUME IdemInv, NEW c \in Call, NEW p \in 1..LastDay, Begin(c, p)
  PROVE  IdemInv'
<1>. USE KeyOfAssumption DEF IdemInv, Begin
<1>1. CallsOK'
  BY DEF CallsOK, Running
<1>2. ~Owns(c) /\ result[c] = None /\ answer[c].kind = "none"
  BY DEF CallsOK, Owns, Running
<1>3. \A d \in Call : /\ Owns(d)' <=> Owns(d)
                      /\ d # c => payload'[d] = payload[d]
  BY DEF CallsOK, Owns, Running
<1>4. OneOwner'
  BY <1>2, <1>3 DEF OneOwner, CallsOK
<1>5. StoredResponses'
  BY <1>2, <1>3 DEF StoredResponses, CallsOK
<1>6. ReplayIsTheResult'
  BY <1>2, <1>3 DEF ReplayIsTheResult, CallsOK
<1>. QED BY <1>1, <1>4, <1>5, <1>6

\* A call that ends without touching the row or its result.
LEMMA EndsInv ==
  ASSUME IdemInv, NEW c \in Call, NEW kind \in AnswerKind, NEW r \in Result \cup {None},
         End(c, kind, r), UNCHANGED <<row, payload, result>>,
         pc[c] # "new",
         kind = "replayed" => \E d \in Call : /\ KeyOf[d] = KeyOf[c] /\ payload[d] = payload[c]
                                              /\ result[d] # None /\ result[d] = r
  PROVE  IdemInv'
<1>. USE DEF IdemInv, End
<1>1. CallsOK'
  BY DEF CallsOK, Running
<1>2. \A d \in Call : Owns(d)' => Owns(d)
  BY DEF CallsOK, Owns, Running
<1>3. OneOwner'
  BY <1>2 DEF OneOwner
<1>4. StoredResponses'
  BY DEF StoredResponses
<1>5. ReplayIsTheResult'
  BY DEF ReplayIsTheResult, CallsOK
<1>. QED BY <1>1, <1>3, <1>4, <1>5

LEMMA FindExistingInv ==
  ASSUME IdemInv, NEW c \in Call, FindExisting(c)
  PROVE  IdemInv'
<1> DEFINE r == row[KeyOf[c]]
<1>. USE KeyOfAssumption
<1>1. /\ KeyOf[c] \in Key /\ r.response \in Result \cup {None} /\ pc[c] # "new"
      /\ UNCHANGED <<row, payload, result>>
  BY DEF IdemInv, CallsOK, KeyRow, FindExisting
<1>2. CASE r.state # "absent" /\ r.hash # payload[c] /\ End(c, "other payload", None)
  BY <1>1, <1>2, EndsInv DEF AnswerKind
<1>3. CASE r.state = "completed" /\ r.hash = payload[c] /\ End(c, "replayed", r.response)
  <2>1. \E d \in Call : /\ KeyOf[d] = KeyOf[c] /\ payload[d] = payload[c]
                        /\ result[d] # None /\ result[d] = r.response
    BY <1>1, <1>3 DEF IdemInv, StoredResponses
  <2>2. "replayed" \in AnswerKind
    BY DEF AnswerKind
  <2>. QED BY <1>1, <1>3, <2>1, <2>2, EndsInv
<1>4. CASE r.state = "open" /\ r.hash = payload[c] /\ End(c, "in progress", None)
  BY <1>1, <1>4, EndsInv DEF AnswerKind
<1>. QED BY <1>2, <1>3, <1>4 DEF FindExisting

LEMMA ThrowsInv ==
  ASSUME IdemInv, NEW c \in Call, HandlerThrows(c) \/ Dies(c)
  PROVE  IdemInv'
<1>1. /\ pc[c] # "new" /\ UNCHANGED <<row, payload, result>>
      /\ End(c, "error", None) /\ "error" \in AnswerKind
  BY DEF HandlerThrows, Dies, Running, AnswerKind
<1>. QED BY <1>1, EndsInv

\* Steps between the lookup and the insert.
LEMMA MovesInv ==
  ASSUME IdemInv, NEW c \in Call, FindAbsent(c) \/ InsertCollides(c)
  PROVE  IdemInv'
<1>. USE DEF IdemInv, FindAbsent, InsertCollides
<1>1. CallsOK'
  BY DEF CallsOK, Running
<1>2. \A d \in Call : Owns(d)' => Owns(d)
  BY DEF CallsOK, Owns, Running
<1>3. OneOwner'
  BY <1>2 DEF OneOwner
<1>4. StoredResponses' /\ ReplayIsTheResult'
  BY DEF StoredResponses, ReplayIsTheResult
<1>. QED BY <1>1, <1>3, <1>4

LEMMA InsertKeyInv ==
  ASSUME IdemInv, NEW c \in Call, InsertKey(c)
  PROVE  IdemInv'
<1>. USE KeyOfAssumption DEF IdemInv, InsertKey
<1>1. CallsOK'
  BY DEF CallsOK, KeyRow, Running
<1>2. /\ \A d \in Call : Owns(d)' => Owns(d) \/ d = c
      /\ \A d \in Call : Owns(d) => KeyOf[d] # KeyOf[c]
  BY DEF CallsOK, Owns, Running, OneOwner
<1>3. /\ row'[KeyOf[c]].state = "open" /\ row'[KeyOf[c]].hash = payload[c]
      /\ \A k \in Key : k # KeyOf[c] => row'[k] = row[k]
  BY DEF CallsOK
<1>4. OneOwner'
  BY <1>2, <1>3 DEF OneOwner
<1>5. StoredResponses'
  BY <1>3 DEF StoredResponses
<1>6. ReplayIsTheResult'
  BY DEF ReplayIsTheResult
<1>. QED BY <1>1, <1>4, <1>5, <1>6

LEMMA ReturnsInv ==
  ASSUME IdemInv, NEW c \in Call, NEW r \in Result, r # None, HandlerReturns(c, r)
  PROVE  IdemInv'
<1>. USE KeyOfAssumption DEF IdemInv, HandlerReturns
<1>1. CallsOK'
  BY DEF CallsOK, Running
<1>2. /\ Owns(c) /\ result[c] = None
      /\ \A d \in Call : Owns(d)' <=> Owns(d)
      /\ \A d \in Call : d # c => result'[d] = result[d]
  BY DEF CallsOK, Owns, Running
<1>3. OneOwner'
  BY <1>2 DEF OneOwner
<1>4. StoredResponses' /\ ReplayIsTheResult'
  BY <1>2 DEF StoredResponses, ReplayIsTheResult
<1>. QED BY <1>1, <1>3, <1>4

LEMMA StoreInv ==
  ASSUME IdemInv, NEW c \in Call, StoreResponse(c)
  PROVE  IdemInv'
<1> DEFINE k == KeyOf[c]
           new == [state |-> "completed", hash |-> payload[c], response |-> result[c]]
<1>. USE DEF IdemInv
<1>1. /\ pc[c] = "returned" /\ UNCHANGED <<payload, result>>
      /\ pc' = [pc EXCEPT ![c] = "ended"]
      /\ answer' = [answer EXCEPT ![c] = [kind |-> "fresh", result |-> result[c]]]
  BY DEF StoreResponse, End
<1>2. /\ k \in Key /\ Owns(c) /\ payload[c] \in 1..LastDay
      /\ result[c] # None /\ result[c] \in Result \cup {None}
      /\ row[k].hash = payload[c]
  BY <1>1, KeyOfAssumption DEF CallsOK, Owns, Running, OneOwner
<1>3. new \in KeyRow
  BY <1>2 DEF KeyRow
<1>4. row' = [row EXCEPT ![k] = new]
  BY <1>2 DEF StoreResponse, CallsOK
<1>. HIDE DEF new
<1>5. /\ row' \in [Key -> KeyRow] /\ row'[k] = new
      /\ \A l \in Key : l # k => row'[l] = row[l]
  BY <1>2, <1>3, <1>4 DEF CallsOK
<1>6. CallsOK'
  <2>1. answer' \in [Call -> [kind : AnswerKind, result : Result \cup {None}]]
    BY <1>1, <1>2 DEF CallsOK, AnswerKind
  <2>. QED BY <1>1, <1>5, <2>1 DEF CallsOK, Running
<1>7. \A d \in Call : Owns(d)' => Owns(d)
  BY <1>1 DEF CallsOK, Owns, Running
<1>8. OneOwner'
  <2>1. new.state # "absent" /\ new.hash = payload[c]
    BY DEF new
  <2>2. \A d \in Call : Owns(d) => d = c \/ KeyOf[d] # k
    BY <1>2 DEF OneOwner
  <2>. QED BY <1>1, <1>5, <1>7, <2>1, <2>2, KeyOfAssumption DEF OneOwner
<1>9. StoredResponses'
  <2>1. new.hash = payload[c] /\ new.response = result[c]
    BY DEF new
  <2>. QED BY <1>1, <1>2, <1>5, <2>1 DEF StoredResponses
<1>10. ReplayIsTheResult'
  BY <1>1 DEF ReplayIsTheResult, CallsOK
<1>. QED BY <1>6, <1>8, <1>9, <1>10
-----------------------------------------------------------------------------
(* The claims. *)

LEMMA InitBonus == Init => BonusInv
<1> SUFFICES ASSUME Init PROVE BonusInv
  OBVIOUS
<1>1. DOMAIN paid = {}
  BY DEF Init
<1>2. BonusOK
  BY <1>1, DayAssumption DEF Init, BonusOK
<1>3. NoUnearnedStreak
  BY DEF Init, NoUnearnedStreak
<1>4. ClaimsAreDaysPaid
  BY <1>1, FS_EmptySet DEF Init, ClaimsAreDaysPaid
<1>. QED BY <1>2, <1>3, <1>4 DEF BonusInv

LEMMA SameBonus ==
  ASSUME BonusInv, UNCHANGED <<bonus, paid>>, day' \in 1..LastDay
  PROVE  BonusInv'
BY DEF BonusInv, BonusOK, NoUnearnedStreak, ClaimsAreDaysPaid

LEMMA ClaimWithinBonus ==
  ASSUME BonusInv, NEW c \in Call, payload[c] \in 1..LastDay, ClaimWithin(c)
  PROVE  BonusInv'
<1> DEFINE today == payload[c]
           streak == NextStreak(today)
<1>1. BonusOK /\ NoUnearnedStreak /\ ClaimsAreDaysPaid
  BY DEF BonusInv
<1>2. /\ today \in 1..LastDay /\ streak \in Nat /\ streak >= 1
      /\ Award(streak) \in BaseAward..MaxAward
  BY <1>1, StreakGrows, AwardRange
<1>3. /\ today \notin DOMAIN paid
      /\ paid' = [d \in DOMAIN paid \cup {today} |-> IF d = today THEN Award(streak) ELSE paid[d]]
      /\ bonus' = [last |-> today, streak |-> streak, total |-> bonus.total + 1]
      /\ day' = day
  BY DEF ClaimWithin, CanClaim, Duplicate
<1>4. DOMAIN paid' = DOMAIN paid \cup {today}
  BY <1>3
<1>5. BonusOK'
  <2>1. bonus' \in [last : 0..LastDay, streak : Nat, total : Nat]
    BY <1>1, <1>2, <1>3 DEF BonusOK
  <2>2. paid' \in [DOMAIN paid \cup {today} -> BaseAward..MaxAward]
    BY <1>1, <1>2, <1>3 DEF BonusOK
  <2>. QED BY <1>1, <1>2, <1>3, <1>4, <2>1, <2>2 DEF BonusOK
<1>6. NoUnearnedStreak'
  <2> SUFFICES ASSUME NEW n \in 0..(streak - 1) PROVE today - n \in DOMAIN paid \cup {today}
    BY <1>3, <1>4 DEF NoUnearnedStreak
  <2>1. CASE n = 0
    BY <2>1, <1>2
  <2>2. CASE n # 0
    <3>1. bonus.last = today - 1 /\ streak = bonus.streak + 1
      BY <2>2, <1>2 DEF NextStreak
    <3>2. n - 1 \in 0..(bonus.streak - 1)
      BY <2>2, <3>1, <1>1 DEF BonusOK
    <3>3. bonus.last - (n - 1) \in DOMAIN paid
      BY <3>2, <1>1 DEF NoUnearnedStreak
    <3>. QED BY <3>1, <3>3, <1>2
  <2>. QED BY <2>1, <2>2
<1>7. ClaimsAreDaysPaid'
  <2>1. IsFiniteSet(DOMAIN paid)
    <3>1. 1 \in Int /\ LastDay \in Int
      BY DayAssumption
    <3>2. IsFiniteSet(1..LastDay)
      BY <3>1, FS_Interval
    <3>3. DOMAIN paid \subseteq 1..LastDay
      BY <1>1 DEF BonusOK
    <3>. QED BY <3>2, <3>3, FS_Subset
  <2>2. Cardinality(DOMAIN paid \cup {today}) = Cardinality(DOMAIN paid) + 1
    BY <1>3, <2>1, FS_AddElement
  <2>. QED BY <1>1, <1>3, <1>4, <2>2 DEF ClaimsAreDaysPaid
<1>. QED BY <1>5, <1>6, <1>7 DEF BonusInv

-----------------------------------------------------------------------------
(* The whole. *)

LEMMA ExecuteInv ==
  ASSUME IdemInv, NEW c \in Call, Execute(c)
  PROVE  IdemInv'
BY MovesInv, FindExistingInv, InsertKeyInv, ThrowsInv, StoreInv DEF Execute

LEMMA ClaimWithinInv ==
  ASSUME IInv, NEW c \in Call, ClaimWithin(c)
  PROVE  IInv'
<1> DEFINE today == payload[c]
           r == [streak |-> NextStreak(today), award |-> Award(NextStreak(today))]
<1>1. IdemInv /\ BonusInv /\ BonusOK
  BY DEF IInv, BonusInv
<1>2. HandlerReturns(c, r)
  BY DEF ClaimWithin
<1>3. today \in 1..LastDay
  BY <1>1, <1>2 DEF HandlerReturns, IdemInv, CallsOK
<1>4. r \in Result /\ r # None
  BY <1>1, <1>3, HandlerResult
<1>. HIDE DEF r
<1>5. IdemInv'
  BY <1>1, <1>2, <1>4, ReturnsInv
<1>6. BonusInv'
  BY <1>1, <1>3, ClaimWithinBonus
<1>. QED BY <1>5, <1>6 DEF IInv

LEMMA NextInv == IInv /\ [Next]_vars => IInv'
<1> SUFFICES ASSUME IInv, [Next]_vars PROVE IInv'
  OBVIOUS
<1>1. IdemInv /\ BonusInv /\ day \in 1..LastDay
  BY DEF IInv, BonusInv, BonusOK
<1>2. CASE UNCHANGED vars
  <2>1. IdemInv'
    BY <1>1, <1>2 DEF vars, idemVars, IdemInv, CallsOK, OneOwner, Owns, StoredResponses, ReplayIsTheResult
  <2>. QED BY <1>1, <1>2, <2>1, SameBonus DEF vars, IInv
<1>3. CASE Tick
  <2>1. IdemInv'
    BY <1>1, <1>3 DEF Tick, idemVars, IdemInv, CallsOK, OneOwner, Owns, StoredResponses, ReplayIsTheResult
  <2>2. day' \in 1..LastDay
    BY <1>1, <1>3, DayAssumption DEF Tick
  <2>. QED BY <1>1, <1>3, <2>1, <2>2, SameBonus DEF Tick, IInv
<1>4. ASSUME NEW c \in Call, Claim(c) PROVE IInv'
  BY <1>1, <1>4, BeginInv, SameBonus DEF Claim, IInv
<1>5. ASSUME NEW c \in Call, ClaimWithin(c) PROVE IInv'
  BY <1>5, ClaimWithinInv
<1>6. ASSUME NEW c \in Call, Execute(c), UNCHANGED <<day, bonus, paid>> PROVE IInv'
  BY <1>1, <1>6, ExecuteInv, SameBonus DEF IInv
<1>. QED BY <1>2, <1>3, <1>4, <1>5, <1>6 DEF Next

\* In every reachable state IInv holds, however the calls interleave.
THEOREM BonusInductive == Spec => []IInv
<1>1. Init => IInv
  BY InitIdem, InitBonus DEF IInv
<1>. QED BY <1>1, NextInv, PTL DEF Spec

\* Type correctness of the daily bonus and of the idempotent calls.
THEOREM BonusTypeCorrect == Spec => []TypeOK
<1>1. IInv => TypeOK
  BY DEF IInv, IdemInv, CallsOK, KeyRow, AnswerKind, BonusInv, BonusOK, TypeOK, IdemTypeOK
<1>. QED BY <1>1, BonusInductive, PTL

\* Of any number of calls under one key, at most one commits the handler's
\* transaction (idempotency.service.ts holds no lock across it).
THEOREM OneHandlerPerKey == Spec => []HandlerOncePerKey
<1>1. IInv => HandlerOncePerKey
  BY DEF IInv, IdemInv, OneOwner, Owns, HandlerOncePerKey
<1>. QED BY <1>1, BonusInductive, PTL

\* A replayed answer is the committed result of a call of the same key and
\* the same payload.
THEOREM ReplaysAreResults == Spec => []ReplayIsTheResult
<1>1. IInv => ReplayIsTheResult
  BY DEF IInv, IdemInv
<1>. QED BY <1>1, BonusInductive, PTL

\* Every day a streak counts was claimed and paid, also when claims that
\* began on different days commit in another order.
THEOREM StreakIsEarned == Spec => []NoUnearnedStreak
<1>1. IInv => NoUnearnedStreak
  BY DEF IInv, BonusInv
<1>. QED BY <1>1, BonusInductive, PTL

\* No day is claimed twice under whatever keys, and none is counted unpaid.
THEOREM EachDayPaidOnce == Spec => []ClaimsAreDaysPaid
<1>1. IInv => ClaimsAreDaysPaid
  BY DEF IInv, BonusInv
<1>. QED BY <1>1, BonusInductive, PTL
=============================================================================
