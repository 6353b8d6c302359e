--------------------------- MODULE PromoCodesProofs ---------------------------
(***************************************************************************)
(* Proofs about promo codes, for any calls, users, codes, limits and pool. *)
(***************************************************************************)
EXTENDS PromoCodes, FiniteSetTheorems, TLAPS

KeyRow == [state : {"absent", "open", "completed"},
           hash : Code \cup {None},
           response : Code \cup {None}]

Answer == [kind : {"none", "fresh", "replayed", "in progress", "other payload", "error"},
           result : Code \cup {None}]

\* The calls as execute leaves them.
CallsOK ==
  /\ row \in [Key -> KeyRow]
  /\ pc \in [Call -> {"new", "find", "insert", "ended"} \cup Running]
  /\ payload \in [Call -> Code \cup {None}]
  /\ result \in [Call -> Code \cup {None}]
  /\ answer \in [Call -> Answer]
  /\ \A c \in Call : pc[c] # "new" => payload[c] \in Code

Inv == CallsOK /\ IInv

\* What the calls, apart from their handlers, need of one another.
HandlersKept ==
  \A d \in Call : stage[d] # "none" => pc'[d] = "handler" /\ payload'[d] = payload[d]

-----------------------------------------------------------------------------
(* The calls. *)

LEMMA CallsType == CallsOK => IdemTypeOK
BY DEF CallsOK, IdemTypeOK, KeyRow, Answer

LEMMA BeginCalls ==
  ASSUME CallsOK, NEW c \in Call, NEW p \in Code, Begin(c, p)
  PROVE  CallsOK'
BY DEF CallsOK, Begin, Running

LEMMA EndCalls ==
  ASSUME CallsOK, NEW c \in Call, NEW kind, NEW r, pc[c] # "new",
         [kind |-> kind, result |-> r] \in Answer, End(c, kind, r),
         UNCHANGED <<row, payload, result>>
  PROVE  CallsOK'
BY DEF CallsOK, End, Running

LEMMA FindExistingCalls ==
  ASSUME CallsOK, NEW c \in Call, FindExisting(c)
  PROVE  CallsOK'
<1> DEFINE r == row[KeyOf[c]].response
<1>1. /\ pc[c] # "new" /\ r \in Code \cup {None} /\ UNCHANGED <<row, payload, result>>
  BY KeyOfAssumption DEF CallsOK, KeyRow, FindExisting
<1>2. \/ End(c, "other payload", None)
      \/ End(c, "replayed", r)
      \/ End(c, "in progress", None)
  BY DEF FindExisting
<1>3. /\ [kind |-> "other payload", result |-> None] \in Answer
      /\ [kind |-> "replayed", result |-> r] \in Answer
      /\ [kind |-> "in progress", result |-> None] \in Answer
  BY <1>1 DEF Answer
<1>. HIDE DEF r
<1>. QED BY <1>1, <1>2, <1>3, EndCalls

LEMMA InsertKeyCalls ==
  ASSUME CallsOK, NEW c \in Call, InsertKey(c)
  PROVE  CallsOK'
BY KeyOfAssumption DEF CallsOK, KeyRow, InsertKey, Running

LEMMA StoreCalls ==
  ASSUME CallsOK, NEW c \in Call, StoreResponse(c)
  PROVE  CallsOK'
<1> DEFINE k == KeyOf[c]
           new == [state |-> "completed", hash |-> row[k].hash, response |-> result[c]]
<1>1. /\ k \in Key /\ pc[c] = "returned" /\ UNCHANGED <<payload, result>>
      /\ pc' = [pc EXCEPT ![c] = "ended"]
      /\ answer' = [answer EXCEPT ![c] = [kind |-> "fresh", result |-> result[c]]]
  BY KeyOfAssumption DEF StoreResponse, End
<1>2. new \in KeyRow /\ [kind |-> "fresh", result |-> result[c]] \in Answer
  BY <1>1 DEF CallsOK, KeyRow, Answer
<1>3. row' = [row EXCEPT ![k] = new]
  BY <1>1 DEF StoreResponse, CallsOK
<1>. HIDE DEF new
<1>. QED BY <1>1, <1>2, <1>3 DEF CallsOK, Running

LEMMA StatementCalls ==
  ASSUME CallsOK, NEW c \in Call, Statement(c)
  PROVE  CallsOK' /\ payload' = payload /\ pc[c] # "handler"
         /\ \A d \in Call \ {c} : pc'[d] = pc[d]
<1>1. CASE FindAbsent(c) \/ InsertCollides(c)
  BY <1>1 DEF CallsOK, FindAbsent, InsertCollides, Running
<1>2. CASE FindExisting(c)
  BY <1>2, FindExistingCalls DEF FindExisting, End, CallsOK
<1>3. CASE InsertKey(c)
  BY <1>3, InsertKeyCalls DEF InsertKey, CallsOK
<1>4. CASE StoreResponse(c)
  BY <1>4, StoreCalls DEF StoreResponse, End, CallsOK
<1>. QED BY <1>1, <1>2, <1>3, <1>4 DEF Statement

LEMMA ThrowsCalls ==
  ASSUME CallsOK, NEW c \in Call, HandlerThrows(c) \/ Dies(c)
  PROVE  CallsOK' /\ payload' = payload /\ \A d \in Call \ {c} : pc'[d] = pc[d]
<1>1. /\ pc[c] # "new" /\ UNCHANGED <<row, payload, result>> /\ End(c, "error", None)
      /\ [kind |-> "error", result |-> None] \in Answer
  BY DEF HandlerThrows, Dies, Running, Answer
<1>. QED BY <1>1, EndCalls DEF End, CallsOK

LEMMA ReturnsCalls ==
  ASSUME CallsOK, NEW c \in Call, NEW r \in Code, HandlerReturns(c, r)
  PROVE  CallsOK' /\ payload' = payload /\ \A d \in Call \ {c} : pc'[d] = pc[d]
BY DEF CallsOK, HandlerReturns, Running

-----------------------------------------------------------------------------
(* The codes. *)

\* Steps outside the handlers, and the passing of time.
LEMMA SameCodes ==
  ASSUME Inv, CallsOK', HandlersKept, usable' \subseteq Code,
         UNCHANGED <<count, redemptions, credited, stage, seen>>
  PROVE  Inv'
<1>. USE DEF Inv, IInv
<1>1. IdemTypeOK'
  BY CallsType DEF CallsOK, IdemTypeOK, KeyRow, Answer
<1>2. TypeOK'
  BY <1>1 DEF TypeOK, HandlersKept
<1>3. OneHolder'
  BY DEF OneHolder, HoldsCode, HandlersKept
<1>4. ReadIsCurrent'
  BY DEF ReadIsCurrent, HandlersKept
<1>5. ChecksHold'
  BY DEF ChecksHold, HandlersKept, Exhausted, AlreadyRedeemed, Redemption
<1>6. LimitHolds' /\ CreditedOnce'
  BY DEF LimitHolds, CreditedOnce, Redeemers
<1>. QED BY <1>2, <1>3, <1>4, <1>5, <1>6

LEMMA RedeemInv ==
  ASSUME Inv, NEW c \in Call, NEW p \in Code, Redeem(c, p)
  PROVE  Inv'
<1>1. CallsOK'
  BY BeginCalls DEF Inv, Redeem
<1>2. HandlersKept
  BY DEF HandlersKept, Redeem, Begin, Inv, CallsOK, IInv, TypeOK
<1>3. usable' \subseteq Code /\ UNCHANGED <<count, redemptions, credited, stage, seen>>
  BY DEF Redeem, promoVars, Inv, IInv, TypeOK
<1>. QED BY <1>1, <1>2, <1>3, SameCodes

LEMMA StatementInv ==
  ASSUME Inv, NEW c \in Call, Statement(c)
  PROVE  Inv'
<1>1. CallsOK' /\ payload' = payload /\ pc[c] # "handler"
      /\ \A d \in Call \ {c} : pc'[d] = pc[d]
  BY StatementCalls DEF Inv
<1>2. HandlersKept
  BY <1>1 DEF HandlersKept, Inv, IInv, TypeOK
<1>3. usable' \subseteq Code /\ UNCHANGED <<count, redemptions, credited, stage, seen>>
  BY DEF Statement, promoVars, Inv, IInv, TypeOK
<1>. QED BY <1>1, <1>2, <1>3, SameCodes

LEMMA TurnInv ==
  ASSUME Inv, NEW p \in Dated, Turn(p)
  PROVE  Inv'
<1>1. UNCHANGED idemVars /\ p \in Code
  BY PromoAssumption DEF Turn
<1>2. CallsOK' /\ HandlersKept
  BY <1>1 DEF Inv, CallsOK, HandlersKept, idemVars, IInv, TypeOK
<1>3. usable' \subseteq Code /\ UNCHANGED <<count, redemptions, credited, stage, seen>>
  BY <1>1 DEF Turn, Inv, IInv, TypeOK
<1>. QED BY <1>2, <1>3, SameCodes

\* Steps of a handler before its commit.
LEMMA InHandler ==
  ASSUME Inv, NEW c \in Call, UNCHANGED <<idemVars, usable, count, redemptions, credited>>,
         pc[c] = "handler",
         NEW s \in InTransaction, stage' = [stage EXCEPT ![c] = s],
         NEW n \in Nat, seen' = [seen EXCEPT ![c] = n],
         s # "open" => /\ n = count[payload[c]]
                       /\ \A d \in Call \ {c} : ~HoldsCode(d, payload[c]),
         s = "balance" => /\ n = seen[c] /\ ~Exhausted(c) /\ ~AlreadyRedeemed(c)
                          /\ Worth[payload[c]] = 0
  PROVE  Inv'
<1>1. CallsOK' /\ payload' = payload /\ pc' = pc /\ payload[c] \in Code
  BY DEF Inv, CallsOK, idemVars
<1>2. TypeOK'
  BY <1>1, CallsType DEF Inv, IInv, TypeOK, CallsOK, IdemTypeOK, KeyRow, Answer, idemVars
<1>3. /\ stage'[c] = s /\ seen'[c] = n
      /\ \A d \in Call \ {c} : stage'[d] = stage[d] /\ seen'[d] = seen[d]
  BY DEF Inv, IInv, TypeOK
<1>4. \A d \in Call \ {c}, p \in Code : HoldsCode(d, p)' <=> HoldsCode(d, p)
  BY <1>1, <1>3 DEF HoldsCode
<1>5. \A p \in Code : HoldsCode(c, p)' => p = payload[c] /\ s # "open"
  BY <1>1, <1>3 DEF HoldsCode
<1>6. OneHolder'
  BY <1>4, <1>5 DEF OneHolder, Inv, IInv
<1>7. ReadIsCurrent'
  <2>1. s \in {"locked", "balance"} => s # "open"
    OBVIOUS
  <2>. QED BY <1>1, <1>3, <2>1 DEF ReadIsCurrent, Inv, IInv
<1>8. ChecksHold'
  <2>1. ASSUME NEW d \in Call, stage'[d] = "balance", d # c
        PROVE  ~Exhausted(d)' /\ ~AlreadyRedeemed(d)' /\ Worth[payload'[d]] = 0
    BY <2>1, <1>1, <1>3 DEF ChecksHold, Inv, IInv, Exhausted, AlreadyRedeemed, Redemption
  <2>2. ASSUME stage'[c] = "balance"
        PROVE  ~Exhausted(c)' /\ ~AlreadyRedeemed(c)' /\ Worth[payload'[c]] = 0
    <3>1. s = "balance" /\ n = seen[c]
      BY <2>2, <1>3
    <3>. QED BY <1>1, <1>3, <3>1 DEF Exhausted, AlreadyRedeemed, Redemption
  <2>. QED BY <2>1, <2>2 DEF ChecksHold
<1>9. LimitHolds' /\ CreditedOnce'
  BY DEF LimitHolds, CreditedOnce, Redeemers, Inv, IInv
<1>. QED BY <1>1, <1>2, <1>6, <1>7, <1>8, <1>9 DEF Inv, IInv

LEMMA OpenInv ==
  ASSUME Inv, NEW c \in Call, Open(c)
  PROVE  Inv'
<1>1. /\ seen[c] \in Nat /\ seen' = [seen EXCEPT ![c] = seen[c]]
      /\ "open" \in InTransaction
  BY DEF Open, Inv, IInv, TypeOK, InTransaction
<1>2. /\ pc[c] = "handler" /\ stage' = [stage EXCEPT ![c] = "open"]
      /\ UNCHANGED <<idemVars, usable, count, redemptions, credited>>
  BY DEF Open
<1>. QED BY <1>1, <1>2, InHandler

LEMMA LockCodeInv ==
  ASSUME Inv, NEW c \in Call, LockCode(c)
  PROVE  Inv'
<1>1. pc[c] = "handler" /\ payload[c] \in Code /\ "locked" \in InTransaction
  BY DEF LockCode, Inv, IInv, TypeOK, InTransaction
<1>2. count[payload[c]] \in Nat
  BY <1>1 DEF Inv, IInv, TypeOK
<1>3. /\ stage' = [stage EXCEPT ![c] = "locked"]
      /\ seen' = [seen EXCEPT ![c] = count[payload[c]]]
      /\ \A d \in Call : ~HoldsCode(d, payload[c])
      /\ UNCHANGED <<idemVars, usable, count, redemptions, credited>>
  BY DEF LockCode
<1>. QED BY <1>1, <1>2, <1>3, InHandler

\* Whoever is past LockCode is alone with the code.
LEMMA Alone ==
  ASSUME Inv, NEW c \in Call, stage[c] \in {"locked", "balance"}
  PROVE  /\ pc[c] = "handler" /\ payload[c] \in Code /\ seen[c] = count[payload[c]]
         /\ \A d \in Call \ {c} : ~HoldsCode(d, payload[c])
BY DEF Inv, IInv, TypeOK, ReadIsCurrent, OneHolder, HoldsCode

LEMMA GrantNothingInv ==
  ASSUME Inv, NEW c \in Call, GrantNothing(c)
  PROVE  Inv'
<1>1. /\ pc[c] = "handler" /\ seen[c] = count[payload[c]]
      /\ \A d \in Call \ {c} : ~HoldsCode(d, payload[c])
  BY Alone DEF GrantNothing
<1>2. /\ seen[c] \in Nat /\ seen' = [seen EXCEPT ![c] = seen[c]]
      /\ "balance" \in InTransaction
  BY DEF GrantNothing, Inv, IInv, TypeOK, InTransaction
<1>3. /\ stage' = [stage EXCEPT ![c] = "balance"]
      /\ ~Exhausted(c) /\ ~AlreadyRedeemed(c) /\ Worth[payload[c]] = 0
      /\ UNCHANGED <<idemVars, usable, count, redemptions, credited>>
  BY DEF GrantNothing, CanRedeem
<1>. QED BY <1>1, <1>2, <1>3, InHandler

\* A transaction that ends, with or without a commit, leaves the others as
\* they are.
LEMMA Released ==
  ASSUME Inv, CallsOK', NEW c \in Call, payload' = payload,
         \A d \in Call \ {c} : pc'[d] = pc[d],
         stage' = [stage EXCEPT ![c] = "none"],
         seen' = [seen EXCEPT ![c] = 0]
  PROVE  /\ stage' \in [Call -> {"none"} \cup InTransaction] /\ seen' \in [Call -> Nat]
         /\ \A d \in Call : stage'[d] # "none" => /\ d # c /\ stage'[d] = stage[d]
                                                /\ seen'[d] = seen[d]
         /\ \A d \in Call : stage'[d] # "none" => pc'[d] = "handler" /\ payload'[d] \in Code
         /\ OneHolder' /\ IdemTypeOK'
<1>1. /\ stage' \in [Call -> {"none"} \cup InTransaction] /\ seen' \in [Call -> Nat]
      /\ \A d \in Call : stage'[d] # "none" => /\ d # c /\ stage'[d] = stage[d]
                                             /\ seen'[d] = seen[d]
  BY DEF Inv, IInv, TypeOK
<1>2. \A d \in Call : stage'[d] # "none" => pc'[d] = "handler" /\ payload'[d] \in Code
  BY <1>1 DEF Inv, IInv, TypeOK
<1>3. \A d \in Call, p \in Code : HoldsCode(d, p)' => HoldsCode(d, p)
  BY <1>1 DEF HoldsCode
<1>4. OneHolder'
  BY <1>3 DEF OneHolder, Inv, IInv
<1>5. IdemTypeOK'
  BY CallsType DEF CallsOK, IdemTypeOK, KeyRow, Answer
<1>. QED BY <1>1, <1>2, <1>4, <1>5

LEMMA RollbackInv ==
  ASSUME Inv, NEW c \in Call, Rollback(c)
  PROVE  Inv'
<1>1. CallsOK' /\ payload' = payload /\ \A d \in Call \ {c} : pc'[d] = pc[d]
  BY ThrowsCalls DEF Inv, Rollback
<1>2. /\ stage' = [stage EXCEPT ![c] = "none"] /\ seen' = [seen EXCEPT ![c] = 0]
      /\ UNCHANGED <<usable, count, redemptions, credited>>
  BY DEF Rollback
<1>3. /\ stage' \in [Call -> {"none"} \cup InTransaction] /\ seen' \in [Call -> Nat]
      /\ \A d \in Call : stage'[d] # "none" => /\ d # c /\ stage'[d] = stage[d]
                                             /\ seen'[d] = seen[d]
      /\ \A d \in Call : stage'[d] # "none" => pc'[d] = "handler" /\ payload'[d] \in Code
      /\ OneHolder' /\ IdemTypeOK'
  BY <1>1, <1>2, Released
<1>4. TypeOK'
  BY <1>2, <1>3 DEF TypeOK, Inv, IInv
<1>5. ReadIsCurrent'
  BY <1>1, <1>2, <1>3 DEF ReadIsCurrent, Inv, IInv
<1>6. ChecksHold'
  <2> SUFFICES ASSUME NEW d \in Call, stage'[d] = "balance"
               PROVE  ~Exhausted(d)' /\ ~AlreadyRedeemed(d)' /\ Worth[payload'[d]] = 0
    BY DEF ChecksHold
  <2>. QED BY <1>1, <1>2, <1>3 DEF ChecksHold, Inv, IInv, Exhausted, AlreadyRedeemed, Redemption
<1>7. LimitHolds' /\ CreditedOnce'
  BY <1>2 DEF LimitHolds, CreditedOnce, Redeemers, Inv, IInv
<1>. QED BY <1>1, <1>3, <1>4, <1>5, <1>6, <1>7 DEF Inv, IInv

\* One redemption more: who redeemed each code, and what it was worth.
LEMMA CommitCounts ==
  ASSUME Inv, NEW c \in Call, payload[c] \in Code, seen[c] = count[payload[c]],
         ~Exhausted(c), ~AlreadyRedeemed(c), Commit(c)
  PROVE  LimitHolds' /\ CreditedOnce'
<1> DEFINE p == payload[c]
           u == UserOf[c]
<1>1. /\ u \in User /\ p \in Code /\ <<u, p>> \in User \X Code
      /\ <<u, p>> \notin redemptions
      /\ redemptions' = redemptions \cup {<<u, p>>}
      /\ count' = [count EXCEPT ![p] = count[p] + 1]
      /\ credited' = [credited EXCEPT ![<<u, p>>] = credited[<<u, p>>] + Worth[p]]
      /\ count \in [Code -> Nat] /\ credited \in [User \X Code -> Nat]
      /\ Limit[p] # None => count[p] < Limit[p]
  <2>1. u \in User /\ p \in Code /\ Limit[p] \in Nat \cup {None}
    BY PromoAssumption
  <2>2. count \in [Code -> Nat] /\ credited \in [User \X Code -> Nat]
    BY DEF Inv, IInv, TypeOK
  <2>3. Limit[p] # None => count[p] < Limit[p]
    BY <2>1, <2>2 DEF Exhausted
  <2>. QED BY <2>1, <2>2, <2>3 DEF Commit, Redemption, AlreadyRedeemed
<1>2. LimitHolds /\ CreditedOnce
  BY DEF Inv, IInv
<1>. HIDE DEF u, p
<1> DEFINE By(q) == {v \in User : <<v, q>> \in redemptions}
           ByNow(q) == {v \in User : <<v, q>> \in redemptions'}
<1>3. /\ ByNow(p) = By(p) \cup {u} /\ u \notin By(p)
      /\ \A q \in Code : q # p => ByNow(q) = By(q)
  <2>1. \A v \in User, q \in Code :
          <<v, q>> \in redemptions' <=> <<v, q>> \in redemptions \/ (v = u /\ q = p)
    BY <1>1
  <2>. QED BY <1>1, <2>1
<1>4. Cardinality(By(p) \cup {u}) = Cardinality(By(p)) + 1
  <2>1. IsFiniteSet(By(p))
    BY PromoAssumption, FS_Subset
  <2>. QED BY <2>1, <1>3, FS_AddElement
<1>5. LimitHolds'
  <2>1. \A q \in Code : /\ count[q] = Cardinality(By(q))
                        /\ Limit[q] # None => count[q] <= Limit[q]
    BY <1>2 DEF LimitHolds, Redeemers
  <2>2. \A q \in Code : count[q] \in Nat /\ Limit[q] \in Nat \cup {None}
    BY <1>1, PromoAssumption
  <2>3. count'[p] = count[p] + 1 /\ \A q \in Code : q # p => count'[q] = count[q]
    BY <1>1
  <2>. HIDE DEF By, ByNow
  <2>4. \A q \in Code : /\ count'[q] = Cardinality(ByNow(q))
                        /\ Limit[q] # None => count'[q] <= Limit[q]
    <3> SUFFICES ASSUME NEW q \in Code
                 PROVE  /\ count'[q] = Cardinality(ByNow(q))
                        /\ Limit[q] # None => count'[q] <= Limit[q]
      OBVIOUS
    <3>1. CASE q = p
      BY <3>1, <1>1, <1>3, <1>4, <2>1, <2>2, <2>3
    <3>2. CASE q # p
      BY <3>2, <1>3, <2>1, <2>3
    <3>. QED BY <3>1, <3>2
  <2>. QED BY <2>4 DEF LimitHolds, Redeemers, ByNow
<1>6. CreditedOnce'
  <2> SUFFICES ASSUME NEW v \in User, NEW q \in Code
               PROVE  credited'[<<v, q>>] = IF <<v, q>> \in redemptions' THEN Worth[q] ELSE 0
    BY DEF CreditedOnce
  <2>1. CASE <<v, q>> = <<u, p>>
    <3>1. credited[<<u, p>>] = 0 /\ Worth[p] \in Nat /\ q = p
      BY <2>1, <1>1, <1>2, PromoAssumption DEF CreditedOnce
    <3>2. credited'[<<u, p>>] = Worth[p] /\ <<u, p>> \in redemptions'
      BY <3>1, <1>1
    <3>. QED BY <2>1, <3>1, <3>2
  <2>2. CASE <<v, q>> # <<u, p>>
    <3>1. /\ credited'[<<v, q>>] = credited[<<v, q>>]
          /\ <<v, q>> \in redemptions' <=> <<v, q>> \in redemptions
      BY <2>2, <1>1
    <3>. QED BY <3>1, <1>2 DEF CreditedOnce
  <2>. QED BY <2>1, <2>2
<1>. QED BY <1>5, <1>6

LEMMA CommitInv ==
  ASSUME Inv, NEW c \in Call, stage[c] \in {"locked", "balance"},
         ~Exhausted(c), ~AlreadyRedeemed(c), Commit(c)
  PROVE  Inv'
<1>1. /\ pc[c] = "handler" /\ payload[c] \in Code /\ seen[c] = count[payload[c]]
      /\ \A d \in Call \ {c} : ~HoldsCode(d, payload[c])
  BY Alone
<1>2. CallsOK' /\ payload' = payload /\ \A d \in Call \ {c} : pc'[d] = pc[d]
  BY <1>1, ReturnsCalls DEF Inv, Commit
<1>3. /\ stage' = [stage EXCEPT ![c] = "none"] /\ seen' = [seen EXCEPT ![c] = 0]
      /\ usable' = usable
      /\ redemptions' = redemptions \cup {<<UserOf[c], payload[c]>>}
      /\ count' = [count EXCEPT ![payload[c]] = @ + 1]
  BY DEF Commit, Redemption
<1>4. /\ stage' \in [Call -> {"none"} \cup InTransaction] /\ seen' \in [Call -> Nat]
      /\ \A d \in Call : stage'[d] # "none" => /\ d # c /\ stage'[d] = stage[d]
                                             /\ seen'[d] = seen[d]
      /\ \A d \in Call : stage'[d] # "none" => pc'[d] = "handler" /\ payload'[d] \in Code
      /\ OneHolder' /\ IdemTypeOK'
  BY <1>2, <1>3, Released
<1>5. TypeOK'
  <2>1. UserOf[c] \in User /\ Worth[payload[c]] \in Nat
    BY <1>1, PromoAssumption
  <2>2. credited' \in [User \X Code -> Nat]
    BY <1>1, <2>1 DEF Commit, Redemption, Inv, IInv, TypeOK
  <2>3. count' \in [Code -> Nat] /\ redemptions' \subseteq User \X Code
    BY <1>1, <1>3, <2>1 DEF Inv, IInv, TypeOK
  <2>. QED BY <1>3, <1>4, <2>2, <2>3 DEF TypeOK, Inv, IInv
<1>6. ASSUME NEW d \in Call, stage'[d] \in {"locked", "balance"}
      PROVE  /\ d # c /\ stage'[d] = stage[d] /\ seen'[d] = seen[d]
             /\ payload'[d] = payload[d] /\ payload[d] \in Code /\ payload[d] # payload[c]
  BY <1>1, <1>2, <1>4, <1>6 DEF HoldsCode
<1>7. ReadIsCurrent'
  BY <1>3, <1>6 DEF ReadIsCurrent, Inv, IInv, TypeOK
<1>8. ChecksHold'
  <2> SUFFICES ASSUME NEW d \in Call, stage'[d] = "balance"
               PROVE  ~Exhausted(d)' /\ ~AlreadyRedeemed(d)' /\ Worth[payload'[d]] = 0
    BY DEF ChecksHold
  <2>1. ~Exhausted(d) /\ ~AlreadyRedeemed(d) /\ Worth[payload[d]] = 0
    BY <1>6 DEF ChecksHold, Inv, IInv
  <2>. QED BY <1>3, <1>6, <2>1 DEF Exhausted, AlreadyRedeemed, Redemption
<1>9. LimitHolds' /\ CreditedOnce'
  BY <1>1, CommitCounts
<1>. QED BY <1>2, <1>4, <1>5, <1>7, <1>8, <1>9 DEF Inv, IInv

-----------------------------------------------------------------------------
(* The whole. *)

LEMMA InitInv == Init => Inv
<1> SUFFICES ASSUME Init PROVE Inv
  OBVIOUS
<1>. USE DEF Init, IdemInit, NoRow, NoAnswer
<1>1. CallsOK
  BY DEF CallsOK, KeyRow, Answer, Running
<1>2. TypeOK
  BY <1>1, CallsType DEF TypeOK, InTransaction
<1>3. OneHolder /\ ReadIsCurrent /\ ChecksHold
  BY DEF OneHolder, ReadIsCurrent, ChecksHold, HoldsCode
<1>4. LimitHolds
  <2>1. \A p \in Code : Redeemers(p) = {}
    BY DEF Redeemers
  <2>2. Cardinality({}) = 0
    BY FS_EmptySet
  <2>3. \A p \in Code : count[p] = 0 /\ (Limit[p] # None => Limit[p] \in Nat)
    BY PromoAssumption
  <2>. HIDE DEF Init
  <2>. QED BY <2>1, <2>2, <2>3 DEF LimitHolds
<1>5. CreditedOnce
  BY DEF CreditedOnce
<1>. QED BY <1>1, <1>2, <1>3, <1>4, <1>5 DEF Inv, IInv

LEMMA StepInv ==
  ASSUME Inv, NEW c \in Call, Step(c)
  PROVE  Inv'
<1>1. CASE Grant(c)
  BY <1>1, CommitInv DEF Grant, CanRedeem
<1>2. CASE FetchBalance(c)
  BY <1>2, CommitInv DEF FetchBalance, Inv, IInv, ChecksHold
<1>3. CASE Refuse(c)
  BY <1>3, RollbackInv DEF Refuse
<1>. QED BY <1>1, <1>2, <1>3, StatementInv, OpenInv, LockCodeInv, GrantNothingInv DEF Step

LEMMA NextInv == Inv /\ [Next]_vars => Inv'
<1> SUFFICES ASSUME Inv, [Next]_vars PROVE Inv'
  OBVIOUS
<1>1. CASE UNCHANGED vars
  <2>1. CallsOK' /\ HandlersKept
    BY <1>1 DEF vars, idemVars, Inv, CallsOK, HandlersKept, IInv, TypeOK
  <2>2. usable' \subseteq Code /\ UNCHANGED <<count, redemptions, credited, stage, seen>>
    BY <1>1 DEF vars, promoVars, Inv, IInv, TypeOK
  <2>. QED BY <2>1, <2>2, SameCodes
<1>2. ASSUME NEW p \in Dated, Turn(p) PROVE Inv'
  BY <1>2, TurnInv
<1>3. ASSUME NEW c \in Call, NEW p \in Asks[c], Redeem(c, p) PROVE Inv'
  <2>1. p \in Code
    BY PromoAssumption
  <2>. QED BY <1>3, <2>1, RedeemInv
<1>4. ASSUME NEW c \in Call, Step(c) \/ Rollback(c) PROVE Inv'
  BY <1>4, StepInv, RollbackInv
<1>. QED BY <1>1, <1>2, <1>3, <1>4 DEF Next

\* In every reachable state of redeem and of the calls it runs in, Inv holds.
THEOREM PromoInductive == Spec => []Inv
BY InitInv, NextInv, PTL DEF Spec

\* Type correctness; a handler that is in a transaction belongs to a call
\* that runs (no connection outlives its call).
THEOREM PromoTypeCorrect == Spec => []TypeOK
<1>1. Inv => TypeOK
  BY DEF Inv, IInv
<1>. QED BY <1>1, PromoInductive, PTL

\* The redemption limit holds for any number of concurrent redemptions, and
\* redemption_count is the number of users who redeemed.
THEOREM PromoLimit == Spec => []LimitHolds
<1>1. Inv => LimitHolds
  BY DEF Inv, IInv
<1>. QED BY <1>1, PromoInductive, PTL

\* A user is credited a code's worth exactly once per redemption on file.
THEOREM PromoCredits == Spec => []CreditedOnce
<1>1. Inv => CreditedOnce
  BY DEF Inv, IInv
<1>. QED BY <1>1, PromoInductive, PTL
=============================================================================
