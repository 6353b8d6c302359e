----------------------------- MODULE LedgerProofs -----------------------------
(***************************************************************************)
(* Proofs about the wallet ledger, for any users, currencies, jobs and any *)
(* number of concurrent transactions: balances and locks, then that a job  *)
(* is posted once and as a whole, then the refinement of Wallet.           *)
(***************************************************************************)
EXTENDS Ledger, SequenceTheorems, SumTheorems, TLAPS

-----------------------------------------------------------------------------
(* Facts about sequences of ledger rows. *)

LEMMA ExplainsAppend ==
  ASSUME NEW s \in Seq(Entry), NEW e \in Entry, NEW b \in Int,
         Explains(s, b), e.after = b + e.amount, e.after >= 0
  PROVE  Explains(Append(s, e), e.after)
<1> DEFINE r == Append(s, e)
<1>1. /\ r \in Seq(Entry) /\ r # <<>> /\ Len(r) = Len(s) + 1 /\ Len(s) \in Nat
      /\ \A i \in 1..Len(s) : r[i] = s[i]
      /\ r[Len(s) + 1] = e
  BY AppendProperties, LenProperties
<1>2. e.amount \in Int /\ e.after \in Int
  BY DEF Entry
<1>3. b = IF Len(s) = 0 THEN 0 ELSE s[Len(s)].after
  BY EmptySeq DEF Explains, Final
<1>4. Chained(r)
  <2> SUFFICES ASSUME NEW k \in 1..Len(r)
               PROVE  r[k].after = r[k].amount + (IF k = 1 THEN 0 ELSE r[k - 1].after)
    BY DEF Chained
  <2>1. CASE k = Len(s) + 1
    BY <2>1, <1>1, <1>2, <1>3
  <2>2. CASE k \in 1..Len(s)
    <3>1. k # 1 => k - 1 \in 1..Len(s)
      BY <2>2, <1>1
    <3>2. s[k].after = s[k].amount + (IF k = 1 THEN 0 ELSE s[k - 1].after)
      BY <2>2 DEF Explains, Chained
    <3>. QED BY <3>1, <3>2, <2>2, <1>1
  <2>. QED BY <2>1, <2>2, <1>1
<1>5. \A k \in 1..Len(r) : r[k].after >= 0
  <2> SUFFICES ASSUME NEW k \in 1..Len(r) PROVE r[k].after >= 0
    OBVIOUS
  <2>1. CASE k = Len(s) + 1
    BY <2>1, <1>1
  <2>2. CASE k \in 1..Len(s)
    BY <2>2, <1>1 DEF Explains
  <2>. QED BY <2>1, <2>2, <1>1
<1>6. Final(r) = e.after
  BY <1>1 DEF Final
<1>. QED BY <1>4, <1>5, <1>6 DEF Explains

LEMMA AppendToView ==
  ASSUME NEW s \in Seq(Entry), NEW d \in Seq(Entry), NEW e \in Entry
  PROVE  s \o Append(d, e) = Append(s \o d, e)
<1>1. Append(d, e) = d \o <<e>> /\ <<e>> \in Seq(Entry)
  BY AppendIsConcat
<1>2. s \o (d \o <<e>>) = (s \o d) \o <<e>>
  BY <1>1, ConcatAssociative
<1>3. s \o d \in Seq(Entry)
  BY ConcatProperties
<1>. QED BY <1>1, <1>2, <1>3, AppendIsConcat

LEMMA ConcatKeepsPrefix ==
  ASSUME NEW s \in Seq(Entry), NEW d \in Seq(Entry)
  PROVE  /\ Len(s) <= Len(s \o d)
         /\ \A k \in 1..Len(s) : (s \o d)[k] = s[k]
<1> DEFINE r == s \o d
<1>1. /\ Len(r) = Len(s) + Len(d)
      /\ \A i \in 1..(Len(s) + Len(d)) : r[i] = IF i <= Len(s) THEN s[i] ELSE d[i - Len(s)]
  BY ConcatProperties, Zenon
<1>2. Len(s) \in Nat /\ Len(d) \in Nat
  BY LenProperties
<1>. HIDE DEF r
<1>3. Len(s) <= Len(r) /\ \A k \in 1..Len(s) : r[k] = s[k]
  BY <1>1, <1>2
<1>. QED BY <1>3 DEF r

LEMMA ExplainsNothing == Explains(<<>>, 0)
  BY DEF Explains, Chained, Final

-----------------------------------------------------------------------------
(* Type correctness. *)

LEMMA CleanType == /\ ZeroRow \in Row
                   /\ NoEntries \in [Currency -> Seq(Entry)]
                   /\ Clean \in [row : Row, entries : [Currency -> Seq(Entry)]]
<1>1. ZeroRow \in Row
  BY DEF ZeroRow, Row
<1>2. NoEntries \in [Currency -> Seq(Entry)]
  BY EmptySeq DEF NoEntries
<1>. QED BY <1>1, <1>2 DEF Clean

LEMMA FirstPost == \A j \in Job : 1 \in 1..Len(j.posts)
BY JobAssumption, LenProperties

LEMMA RollbackType ==
  ASSUME TypeOK, NEW t \in Tx, Rollback(t)
  PROVE  TypeOK'
BY CleanType DEF TypeOK, Rollback, Ended

LEMMA VisibleType ==
  ASSUME TypeOK, NEW t \in Tx
  PROVE  VisibleRow(t) \in Row /\ UserOf(t) \in User
BY JobAssumption DEF TypeOK, VisibleRow, UserOf

LEMMA InputType ==
  ASSUME TypeOK, NEW t \in Tx
  PROVE  /\ Input(t).id \in Id
         /\ Input(t).currency \in Currency
         /\ Input(t).amount \in Int
<1>1. job[t].posts \in Seq([id : Id, currency : Currency, amount : Int])
  BY JobAssumption DEF TypeOK
<1>2. at[t] \in 1..Len(job[t].posts)
  BY DEF TypeOK
<1>3. Input(t) \in [id : Id, currency : Currency, amount : Int]
  BY <1>1, <1>2, ElementOfSeq, Zenon DEF Input
<1>. QED BY <1>3

-----------------------------------------------------------------------------
(* Each action preserves the inductive invariant. *)

LEMMA InitInv == Init => IInv
<1> SUFFICES ASSUME Init PROVE IInv
  OBVIOUS
<1>1. TypeOK
  <2>1. \A t \in Tx : at[t] \in 1..Len(job[t].posts)
    BY FirstPost DEF Init
  <2>. QED BY <2>1, CleanType DEF Init, TypeOK, Ended
<1>2. ASSUME NEW t \in Tx PROVE TxInv(t)
  BY <1>1, VisibleType, NoTxAssumption
  DEF Init, TxInv, HeldPastLock, NothingWithoutLock, HolderExplained, ReadIsCurrent, Active, InPost
<1>3. ASSUME NEW u \in User PROVE UserInv(u)
  BY ExplainsNothing
  DEF Init, UserInv, LockIsLive, NothingWithoutRow, CommittedExplained, NoEntries, ZeroRow
<1>. QED BY <1>1, <1>2, <1>3 DEF IInv

-----------------------------------------------------------------------------
(* A step of one transaction that commits nothing leaves the others alone: *)
(* what it must show is the invariant of that transaction and of the locks.*)

Private(t) ==
  /\ UNCHANGED <<stored, balances, ledger>>
  /\ \A s \in Tx \ {t} : /\ pc'[s] = pc[s] /\ job'[s] = job[s] /\ at'[s] = at[s]
                         /\ seen'[s] = seen[s] /\ draft'[s] = draft[s]
  /\ \A u \in User, s \in Tx \ {t} : holder'[u] = s <=> holder[u] = s

LEMMA PrivateStep ==
  ASSUME IInv, NEW t \in Tx, Private(t), TypeOK', TxInv(t)',
         \A u \in User : LockIsLive(u)'
  PROVE  IInv'
<1>1. ASSUME NEW s \in Tx \ {t} PROVE TxInv(s)'
  <2>1. /\ pc'[s] = pc[s] /\ job'[s] = job[s] /\ at'[s] = at[s]
        /\ seen'[s] = seen[s] /\ draft'[s] = draft[s] /\ ledger' = ledger
    BY <1>1 DEF Private
  <2>2. UserOf(s) \in User /\ UserOf(s)' = UserOf(s) /\ Input(s)' = Input(s)
    BY <2>1, VisibleType DEF UserOf, Input, IInv
  <2>3. holder'[UserOf(s)] = s <=> holder[UserOf(s)] = s
    BY <1>1, <2>2 DEF Private
  <2>4. \A c : View(s, c)' = View(s, c) /\ Ahead(s, c)' = Ahead(s, c)
    BY <2>1, <2>2 DEF View, Ahead
  <2>5. HeldPastLock(s) /\ NothingWithoutLock(s) /\ HolderExplained(s) /\ ReadIsCurrent(s)
    BY DEF IInv, TxInv
  <2>6. HolderExplained(s)'
    BY <2>1, <2>2, <2>3, <2>4, <2>5 DEF HolderExplained, Explains, Chained, Final
  <2>7. HeldPastLock(s)' /\ NothingWithoutLock(s)'
    BY <2>1, <2>2, <2>3, <2>5 DEF HeldPastLock, NothingWithoutLock
  <2>8. ReadIsCurrent(s)'
    BY <2>1, <2>2, <2>5 DEF ReadIsCurrent
  <2>. QED BY <2>6, <2>7, <2>8 DEF TxInv
<1>2. ASSUME NEW u \in User PROVE NothingWithoutRow(u)' /\ CommittedExplained(u)'
  <2>1. NothingWithoutRow(u) /\ CommittedExplained(u) /\ UNCHANGED <<stored, balances, ledger>>
    BY DEF Private, IInv, UserInv
  <2>. QED BY <2>1 DEF NothingWithoutRow, CommittedExplained, Explains, Chained, Final
<1>. QED BY <1>1, <1>2 DEF IInv, UserInv

\* A rollback only takes away what nobody else has seen.
LEMMA RollbackInv ==
  ASSUME IInv, NEW t \in Tx, Rollback(t)
  PROVE  IInv'
<1> USE DEF IInv
<1>1. TypeOK'
  BY RollbackType
<1>2. \A u \in User : holder'[u] = IF holder[u] = t THEN NoTx ELSE holder[u]
  BY DEF Rollback, TypeOK
<1>3. Private(t)
  BY <1>2, NoTxAssumption DEF Private, Rollback, TypeOK
<1>4. pc'[t] = "aborted" /\ draft'[t] = Clean /\ job' = job
  BY DEF Rollback, TypeOK
<1>5. holder'[UserOf(t)] # t
  BY <1>2, VisibleType, NoTxAssumption
<1>6. TxInv(t)'
  BY <1>4, <1>5
  DEF TxInv, HeldPastLock, NothingWithoutLock, HolderExplained, ReadIsCurrent, UserOf, Active, InPost
<1>7. ASSUME NEW u \in User PROVE LockIsLive(u)'
  BY <1>2, <1>4 DEF LockIsLive, UserInv, Rollback, TypeOK
<1>. QED BY <1>1, <1>3, <1>6, <1>7, PrivateStep

LEMMA BeginInv ==
  ASSUME IInv, NEW t \in Tx, NEW j \in Job, Begin(t, j)
  PROVE  IInv'
<1> USE DEF IInv
<1>1. TypeOK'
  <2>1. \A s \in Tx : at'[s] \in 1..Len(job'[s].posts)
    BY FirstPost DEF TypeOK, Begin
  <2>. QED BY <2>1 DEF TypeOK, Begin, Active, InPost
<1>2. Private(t)
  BY DEF Private, Begin, TypeOK
<1>3. /\ pc[t] \in Ended /\ pc'[t] = "ensure" /\ job'[t] = j /\ at'[t] = 1
      /\ holder' = holder /\ draft' = draft
  BY DEF Begin, TypeOK
<1>4. \A u \in User : holder[u] # t
  BY <1>3, NoTxAssumption DEF UserInv, LockIsLive, Ended, Active, InPost
<1>5. draft[t] = Clean
  BY <1>4, VisibleType DEF TxInv, NothingWithoutLock
<1>6. TxInv(t)'
  <2>1. Len(j.posts) \in Nat /\ Len(j.posts) > 0 /\ j.user \in User
    BY JobAssumption, LenProperties
  <2>. QED BY <2>1, <1>3, <1>4, <1>5
           DEF TxInv, HeldPastLock, NothingWithoutLock, HolderExplained, ReadIsCurrent, UserOf
<1>7. ASSUME NEW u \in User PROVE LockIsLive(u)'
  BY <1>4 DEF LockIsLive, UserInv, Begin, TypeOK
<1>. QED BY <1>1, <1>2, <1>6, <1>7, PrivateStep

LEMMA EnsureInv ==
  ASSUME IInv, NEW t \in Tx, EnsureBalanceRow(t)
  PROVE  IInv'
<1> USE DEF IInv
<1>1. TypeOK' /\ UserOf(t) \in User
  BY VisibleType DEF TypeOK, EnsureBalanceRow, Active, InPost
<1>2. Private(t)
  BY <1>1, NoTxAssumption DEF Private, EnsureBalanceRow, TypeOK, RowFree
<1>3. /\ pc[t] = "ensure" /\ pc'[t] = "lock"
      /\ UNCHANGED <<stored, balances, ledger, job, at, seen, draft>>
  BY DEF EnsureBalanceRow, TypeOK
<1>4. \/ holder' = holder
      \/ /\ UserOf(t) \notin stored /\ holder[UserOf(t)] \in {NoTx, t}
         /\ holder' = [holder EXCEPT ![UserOf(t)] = t]
  BY DEF EnsureBalanceRow, RowFree
<1>5. HolderExplained(t)'
  <2>1. CASE holder[UserOf(t)] = t
    <3>1. \A c : View(t, c)' = View(t, c) /\ Ahead(t, c)' = Ahead(t, c)
      BY <1>3 DEF View, Ahead, UserOf, Input
    <3>2. \A c \in Currency : Explains(View(t, c), draft[t].row.balance[c] + Ahead(t, c))
      BY <2>1 DEF TxInv, HolderExplained
    <3>. QED BY <3>1, <3>2, <1>3 DEF HolderExplained, Explains, Chained, Final
  <2>2. CASE holder[UserOf(t)] = NoTx /\ UserOf(t) \notin stored
    <3>1. draft[t] = Clean /\ ledger[UserOf(t)] = NoEntries
      BY <2>2, <1>1, NoTxAssumption
      DEF TxInv, NothingWithoutLock, UserInv, NothingWithoutRow
    <3>2. ASSUME NEW c \in Currency PROVE View(t, c)' = <<>>
      <4>1. <<>> \o <<>> = <<>>
        BY EmptySeq, ConcatEmptySeq
      <4>. QED BY <3>1, <4>1, <1>3 DEF View, UserOf, NoEntries, Clean
    <3>3. ASSUME NEW c \in Currency PROVE draft'[t].row.balance[c] + Ahead(t, c)' = 0
      BY <3>1, <1>3 DEF Clean, ZeroRow, Ahead
    <3>. QED BY <3>2, <3>3, ExplainsNothing DEF HolderExplained, Explains, Chained, Final
  <2>3. CASE holder[UserOf(t)] # t /\ holder' = holder
    BY <2>3, <1>3 DEF HolderExplained, UserOf
  <2>. QED BY <2>1, <2>2, <2>3, <1>4
<1>6. TxInv(t)'
  BY <1>1, <1>3, <1>4, <1>5
  DEF TxInv, HeldPastLock, NothingWithoutLock, ReadIsCurrent, UserOf, Input, TypeOK, Active, InPost
<1>7. ASSUME NEW u \in User PROVE LockIsLive(u)'
  BY <1>1, <1>3, <1>4 DEF LockIsLive, UserInv, EnsureBalanceRow, TypeOK, UserOf, Active, InPost
<1>. QED BY <1>1, <1>2, <1>6, <1>7, PrivateStep

LEMMA LockInv ==
  ASSUME IInv, NEW t \in Tx, LockBalanceRow(t)
  PROVE  IInv'
<1> USE DEF IInv
<1> DEFINE u == UserOf(t)
           v == VisibleRow(t)
<1>1. u \in User /\ v \in Row
  BY VisibleType
<1>2. /\ pc[t] = "lock" /\ pc'[t] = "insert" /\ holder[u] \in {NoTx, t}
      /\ holder' = [holder EXCEPT ![u] = t] /\ holder'[u] = t
      /\ seen'[t] = v /\ draft'[t].row = v /\ draft'[t].entries = draft[t].entries
      /\ UNCHANGED <<stored, balances, ledger, job, at>>
      /\ v.balance[Input(t).currency] + Input(t).amount >= 0
  BY <1>1 DEF LockBalanceRow, TypeOK, RowFree, NextBalance
<1>3. TypeOK'
  BY <1>1 DEF TypeOK, LockBalanceRow, Active, InPost
<1>4. Private(t)
  BY <1>1, <1>2, NoTxAssumption DEF Private, LockBalanceRow, TypeOK
<1>5. HolderExplained(t)'
  <2>1. ASSUME NEW c \in Currency
        PROVE  Explains(View(t, c), draft[t].row.balance[c] + Ahead(t, c))'
    <3>1. View(t, c)' = View(t, c)
      BY <1>2 DEF View, UserOf
    <3>2. (draft[t].row.balance[c] + Ahead(t, c))' = v.balance[c]
      BY <1>1, <1>2 DEF Ahead, Row
    <3>3. Explains(View(t, c), v.balance[c])
      <4>1. CASE holder[u] = t
        <5>1. Explains(View(t, c), draft[t].row.balance[c] + Ahead(t, c))
          BY <4>1 DEF TxInv, HolderExplained
        <5>2. v = draft[t].row /\ Ahead(t, c) = 0 /\ v.balance[c] \in Int
          BY <4>1, <1>1, <1>2 DEF VisibleRow, Ahead, Row
        <5>. QED BY <5>1, <5>2
      <4>2. CASE holder[u] = NoTx
        <5>1. draft[t] = Clean /\ v = balances[u]
          BY <4>2, NoTxAssumption DEF TxInv, NothingWithoutLock, VisibleRow
        <5>2. ledger[u][c] \in Seq(Entry)
          BY <1>1 DEF TypeOK
        <5>3. View(t, c) = ledger[u][c]
          BY <5>1, <5>2, ConcatEmptySeq DEF View, Clean, NoEntries
        <5>. QED BY <5>1, <5>3, <1>1 DEF UserInv, CommittedExplained
      <4>. QED BY <4>1, <4>2, <1>2
    <3>. QED BY <3>1, <3>2, <3>3 DEF Explains, Chained, Final
  <2>. QED BY <2>1, Zenon DEF HolderExplained
<1>6. TxInv(t)'
  <2>1. UserOf(t)' = u /\ Input(t)' = Input(t)
    BY <1>2 DEF UserOf, Input
  <2>. QED BY <2>1, <1>1, <1>2, <1>5
           DEF TxInv, HeldPastLock, NothingWithoutLock, ReadIsCurrent, Active, InPost
<1>7. ASSUME NEW w \in User PROVE LockIsLive(w)'
  BY <1>1, <1>2 DEF LockIsLive, UserInv, LockBalanceRow, TypeOK, UserOf, Active, InPost
<1>. QED BY <1>3, <1>4, <1>6, <1>7, PrivateStep

LEMMA InsertInv ==
  ASSUME IInv, NEW t \in Tx, InsertLedgerRow(t)
  PROVE  IInv'
<1> USE DEF IInv
<1> DEFINE u == UserOf(t)
           d == Input(t).currency
           e == [id |-> Input(t).id, amount |-> Input(t).amount,
                 after |-> seen[t].balance[d] + Input(t).amount]
<1>1. u \in User /\ holder[u] = t
  BY VisibleType DEF InsertLedgerRow, TxInv, HeldPastLock
<1>2. d \in Currency /\ Input(t).amount \in Int /\ e \in Entry /\ seen[t].balance[d] \in Int
  <2>1. d \in Currency /\ Input(t).amount \in Int /\ Input(t).id \in Id
    BY <1>1, InputType
  <2>2. seen[t].balance[d] \in Int
    BY <2>1 DEF TypeOK, Row
  <2>. QED BY <2>1, <2>2 DEF Entry
<1>3. /\ pc[t] = "insert" /\ pc'[t] = "update"
      /\ draft'[t].row = draft[t].row
      /\ draft'[t].entries = [draft[t].entries EXCEPT ![d] = Append(@, e)]
      /\ UNCHANGED <<stored, balances, ledger, holder, job, at, seen>>
  BY DEF InsertLedgerRow, TypeOK
<1>4. TypeOK'
  <2>1. draft[t].entries[d] \in Seq(Entry) /\ draft[t].row \in Row
    BY <1>2 DEF TypeOK
  <2>2. Append(draft[t].entries[d], e) \in Seq(Entry)
    BY <2>1, <1>2, AppendProperties
  <2>3. draft' = [draft EXCEPT ![t].entries[d] = Append(draft[t].entries[d], e)]
    BY DEF InsertLedgerRow
  <2>4. draft' \in [Tx -> [row : Row, entries : [Currency -> Seq(Entry)]]]
    <3>. HIDE DEF e, d
    <3>. QED BY <2>2, <2>3, <1>2 DEF TypeOK
  <2>. QED BY <2>4, <1>3 DEF TypeOK, InsertLedgerRow, Active, InPost
<1>5. Private(t)
  BY DEF Private, InsertLedgerRow, TypeOK
<1>6. HolderExplained(t)'
  <2>1. ASSUME NEW c \in Currency
        PROVE  Explains(View(t, c), draft[t].row.balance[c] + Ahead(t, c))'
    <3>1. /\ ledger[u][c] \in Seq(Entry) /\ draft[t].entries[c] \in Seq(Entry)
          /\ draft[t].row.balance[c] \in Int
      BY <1>1 DEF TypeOK, Row
    <3>2. Explains(View(t, c), draft[t].row.balance[c])
      BY <1>1, <1>3, <3>1 DEF TxInv, HolderExplained, Ahead
    <3>3. CASE c # d
      <4>1. View(t, c)' = View(t, c) /\ Ahead(t, c)' = 0
        BY <3>3, <1>3, <3>1, <1>4 DEF View, Ahead, Input, UserOf, TypeOK
      <4>. QED BY <4>1, <3>1, <3>2, <1>3 DEF Explains, Chained, Final
    <3>4. CASE c = d
      <4>1. draft'[t].entries[c] = Append(draft[t].entries[c], e)
        BY <3>4, <1>3, <1>2 DEF TypeOK
      <4>2. View(t, c)' = Append(View(t, c), e)
        <5>1. ledger[u][c] \o Append(draft[t].entries[c], e)
                = Append(ledger[u][c] \o draft[t].entries[c], e)
          <6>. HIDE DEF e
          <6>. QED BY <3>1, <1>2, AppendToView
        <5>2. View(t, c)' = ledger[u][c] \o Append(draft[t].entries[c], e)
          <6>. HIDE DEF e
          <6>. QED BY <4>1, <1>3 DEF View, UserOf
        <5>. QED BY <5>1, <5>2 DEF View
      <4>3. Ahead(t, c)' = e.amount
        BY <3>4, <1>3 DEF Ahead, Input
      <4>4. e.after = draft[t].row.balance[c] + e.amount /\ e.after >= 0
        BY <3>4, <1>3 DEF TxInv, ReadIsCurrent
      <4>5. Explains(Append(View(t, c), e), e.after)
        <5>1. View(t, c) \in Seq(Entry)
          BY <3>1, ConcatProperties DEF View
        <5>. HIDE DEF e
        <5>. QED BY <5>1, <3>1, <3>2, <4>4, <1>2, ExplainsAppend
      <4>. HIDE DEF e
      <4>. QED BY <4>2, <4>3, <4>4, <4>5, <1>3 DEF Explains, Chained, Final
    <3>. QED BY <3>3, <3>4
  <2>. QED BY <2>1, Zenon DEF HolderExplained
<1>7. TxInv(t)'
  <2>1. UserOf(t)' = u /\ Input(t)' = Input(t)
    BY <1>3 DEF UserOf, Input
  <2>. QED BY <2>1, <1>1, <1>3, <1>6
           DEF TxInv, HeldPastLock, NothingWithoutLock, ReadIsCurrent, Active, InPost
<1>8. ASSUME NEW w \in User PROVE LockIsLive(w)'
  BY <1>1, <1>3 DEF LockIsLive, UserInv, InsertLedgerRow, TypeOK, UserOf, Active, InPost
<1>. QED BY <1>4, <1>5, <1>7, <1>8, PrivateStep

LEMMA ReadIsUpdated == IInv => NoVersionConflict
BY DEF IInv, TxInv, HeldPastLock, ReadIsCurrent, NoVersionConflict, RowFree, VisibleRow

LEMMA UpdateInv ==
  ASSUME IInv, NEW t \in Tx, UpdateBalance(t)
  PROVE  IInv'
<1> USE DEF IInv
<1> DEFINE u == UserOf(t)
           d == Input(t).currency
           a == Input(t).amount
           r == draft[t].row
           w == [balance |-> [r.balance EXCEPT ![d] = @ + a], version |-> r.version + 1]
<1>1. u \in User /\ holder[u] = t /\ pc[t] = "update"
  BY VisibleType DEF UpdateBalance, TxInv, HeldPastLock
<1>2. VisibleRow(t) = r /\ r.version = seen[t].version /\ r \in Row
  BY <1>1, ReadIsUpdated DEF VisibleRow, NoVersionConflict, TypeOK
<1>3. d \in Currency /\ a \in Int
  BY <1>1, InputType
<1>4. /\ holder' = [holder EXCEPT ![u] = t]
      /\ draft' = [draft EXCEPT ![t].row = w]
      /\ \/ /\ at[t] < Len(job[t].posts)
            /\ at' = [at EXCEPT ![t] = @ + 1] /\ pc' = [pc EXCEPT ![t] = "ensure"]
         \/ at' = at /\ pc' = [pc EXCEPT ![t] = "commit"]
      /\ UNCHANGED <<stored, balances, ledger, job, seen>>
  BY <1>2 DEF UpdateBalance
<1>5. w \in Row /\ \A c \in Currency : w.balance[c] = r.balance[c] + Ahead(t, c)
  <2>1. r.balance \in [Currency -> Int] /\ r.version \in Nat
    BY <1>2 DEF Row
  <2>2. [r.balance EXCEPT ![d] = @ + a] \in [Currency -> Int]
    BY <2>1, <1>3
  <2>3. w \in Row
    BY <2>1, <2>2 DEF Row
  <2>4. ASSUME NEW c \in Currency PROVE w.balance[c] = r.balance[c] + Ahead(t, c)
    <3>1. CASE c = d
      BY <3>1, <2>1, <1>1, <1>3 DEF Ahead
    <3>2. CASE c # d
      BY <3>2, <2>1, <1>1, <1>3 DEF Ahead
    <3>. QED BY <3>1, <3>2
  <2>. QED BY <2>3, <2>4
<1>6. TypeOK'
  <2>. HIDE DEF w, r
  <2>1. draft' \in [Tx -> [row : Row, entries : [Currency -> Seq(Entry)]]]
    BY <1>4, <1>5 DEF TypeOK
  <2>2. at' \in [Tx -> Nat] /\ pc' \in [Tx -> Ended \cup Active]
    <3>1. "ensure" \in Active /\ "commit" \in Active
      BY DEF Active, InPost
    <3>2. at \in [Tx -> Nat] /\ pc \in [Tx -> Ended \cup Active]
      BY DEF TypeOK
    <3>3. at[t] + 1 \in Nat
      BY <3>2
    <3>. QED BY <1>4, <3>1, <3>2, <3>3
  <2>3. ASSUME NEW s \in Tx PROVE at'[s] \in 1..Len(job'[s].posts)
    <3>1. at \in [Tx -> Nat] /\ at[s] \in 1..Len(job[s].posts) /\ Len(job[s].posts) \in Nat
      BY JobAssumption, LenProperties DEF TypeOK
    <3>2. at'[s] = at[s] \/ (at'[s] = at[s] + 1 /\ at[s] < Len(job[s].posts))
      BY <1>4, <3>1
    <3>. QED BY <3>1, <3>2, <1>4
  <2>. QED BY <2>1, <2>2, <2>3, <1>1, <1>4 DEF TypeOK
<1>7. /\ holder' = holder /\ draft'[t].row = w /\ draft'[t].entries = draft[t].entries
      /\ pc'[t] \in {"ensure", "commit"}
  <2>. HIDE DEF w
  <2>. QED BY <1>1, <1>4 DEF TypeOK
<1>8. Private(t)
  <2>. HIDE DEF w
  <2>. QED BY <1>4, <1>7 DEF Private, TypeOK
<1>9. HolderExplained(t)'
  <2>1. ASSUME NEW c \in Currency
        PROVE  Explains(View(t, c), draft[t].row.balance[c] + Ahead(t, c))'
    <3>1. View(t, c)' = View(t, c)
      BY <1>4, <1>7 DEF View, UserOf
    <3>2. Explains(View(t, c), w.balance[c])
      <4>1. Explains(View(t, c), r.balance[c] + Ahead(t, c))
        BY <1>1 DEF TxInv, HolderExplained
      <4>. HIDE DEF w
      <4>. QED BY <4>1, <1>5
    <3>3. (draft[t].row.balance[c] + Ahead(t, c))' = w.balance[c]
      <4>. HIDE DEF w
      <4>. QED BY <1>5, <1>7 DEF Ahead, Row
    <3>. HIDE DEF w
    <3>. QED BY <3>1, <3>2, <3>3 DEF Explains, Chained, Final
  <2>. QED BY <2>1, Zenon DEF HolderExplained
<1>10. HeldPastLock(t)'
  <2>. HIDE DEF w
  <2>. QED BY <1>1, <1>4, <1>7 DEF HeldPastLock, UserOf
<1>11. TxInv(t)'
  <2>. HIDE DEF w
  <2>. QED BY <1>1, <1>4, <1>7, <1>9, <1>10 DEF TxInv, NothingWithoutLock, ReadIsCurrent, UserOf
<1>12. ASSUME NEW v \in User PROVE LockIsLive(v)'
  <2>. HIDE DEF w
  <2>1. pc'[t] \in Active /\ \A s \in Tx \ {t} : pc'[s] = pc[s]
    BY <1>4, <1>7 DEF TypeOK, Active, InPost
  <2>2. holder[v] \in Tx \cup {NoTx} /\ LockIsLive(v)
    BY DEF TypeOK, UserInv
  <2>. QED BY <1>4, <1>7, <2>1, <2>2 DEF LockIsLive
<1>. QED BY <1>6, <1>8, <1>11, <1>12, PrivateStep

LEMMA CommitInv ==
  ASSUME IInv, NEW t \in Tx, Commit(t)
  PROVE  IInv'
<1> USE DEF IInv
<1> DEFINE u == UserOf(t)
<1>1. u \in User /\ holder[u] = t /\ pc[t] = "commit"
  BY VisibleType DEF Commit, TxInv, HeldPastLock
<1>2. \A c \in Currency : /\ ledger[u][c] \in Seq(Entry) /\ draft[t].entries[c] \in Seq(Entry)
                          /\ View(t, c) \in Seq(Entry)
  BY <1>1, ConcatProperties DEF TypeOK, View
<1>3. /\ ledger' = [ledger EXCEPT ![u] = [c \in Currency |-> View(t, c)]]
      /\ balances' = [balances EXCEPT ![u] = draft[t].row]
      /\ stored' = stored \cup {u}
      /\ holder' = [holder EXCEPT ![u] = NoTx]
      /\ draft' = [draft EXCEPT ![t] = Clean]
      /\ pc' = [pc EXCEPT ![t] = "committed"]
      /\ UNCHANGED <<job, at, seen>>
  BY <1>1 DEF Commit, View, VisibleRow
<1>4. TypeOK'
  BY <1>1, <1>2, <1>3, CleanType DEF TypeOK, Ended
<1>5. \A s \in Tx : /\ UserOf(s) \in User /\ UserOf(s)' = UserOf(s) /\ Input(s)' = Input(s)
                    /\ holder'[UserOf(s)] = s <=> holder[UserOf(s)] = s /\ s # t
  <2>1. \A s \in Tx : UserOf(s) \in User /\ UserOf(s)' = UserOf(s) /\ Input(s)' = Input(s)
    BY <1>3, VisibleType DEF UserOf, Input
  <2>. QED BY <2>1, <1>1, <1>3, NoTxAssumption DEF TypeOK
<1>6. ASSUME NEW s \in Tx PROVE TxInv(s)'
  <2>1. CASE s = t
    <3>1. pc'[t] = "committed" /\ draft'[t] = Clean
      BY <1>3 DEF TypeOK
    <3>. QED BY <2>1, <3>1, <1>5 DEF TxInv, HeldPastLock, NothingWithoutLock, HolderExplained,
                                     ReadIsCurrent, Active, InPost
  <2>2. CASE s # t
    <3>1. /\ pc'[s] = pc[s] /\ draft'[s] = draft[s]
          /\ UNCHANGED <<job, at, seen>>
      BY <2>2, <1>3 DEF TypeOK
    <3>2. HeldPastLock(s)' /\ NothingWithoutLock(s)' /\ ReadIsCurrent(s)'
      BY <2>2, <3>1, <1>5 DEF TxInv, HeldPastLock, NothingWithoutLock, ReadIsCurrent
    <3>3. HolderExplained(s)'
      <4>1. ASSUME NEW c \in Currency, holder'[UserOf(s)] = s
            PROVE  Explains(View(s, c), draft[s].row.balance[c] + Ahead(s, c))'
        <5>1. holder[UserOf(s)] = s /\ UserOf(s) # u
          BY <4>1, <1>1, <1>5, <2>2
        <5>2. View(s, c)' = View(s, c) /\ Ahead(s, c)' = Ahead(s, c)
          BY <5>1, <3>1, <1>3, <1>5 DEF View, Ahead, TypeOK
        <5>3. Explains(View(s, c), draft[s].row.balance[c] + Ahead(s, c))
          BY <5>1 DEF TxInv, HolderExplained
        <5>. QED BY <5>2, <5>3, <3>1 DEF Explains, Chained, Final
      <4>. QED BY <4>1, <1>5, Zenon DEF HolderExplained
    <3>. QED BY <3>2, <3>3 DEF TxInv
  <2>. QED BY <2>1, <2>2
<1>7. ASSUME NEW v \in User PROVE UserInv(v)'
  <2>1. CASE v = u
    <3>1. holder'[v] = NoTx /\ v \in stored'
      BY <2>1, <1>1, <1>3 DEF TypeOK
    <3>2. ASSUME NEW c \in Currency PROVE Explains(ledger[v][c], balances[v].balance[c])'
      <4>1. ledger'[v][c] = View(t, c) /\ balances'[v] = draft[t].row
        BY <2>1, <1>1, <1>3 DEF TypeOK
      <4>2. Explains(View(t, c), draft[t].row.balance[c])
        <5>1. Explains(View(t, c), draft[t].row.balance[c] + Ahead(t, c))
          BY <1>1 DEF TxInv, HolderExplained
        <5>2. Ahead(t, c) = 0 /\ draft[t].row.balance[c] \in Int
          BY <1>1 DEF Ahead, TypeOK, Row
        <5>. QED BY <5>1, <5>2
      <4>. QED BY <4>1, <4>2 DEF Explains, Chained, Final
    <3>. QED BY <3>1, <3>2 DEF UserInv, LockIsLive, NothingWithoutRow, CommittedExplained
  <2>2. CASE v # u
    <3>1. /\ ledger'[v] = ledger[v] /\ balances'[v] = balances[v] /\ holder'[v] = holder[v]
          /\ v \in stored' <=> v \in stored
      BY <2>2, <1>1, <1>3 DEF TypeOK
    <3>2. LockIsLive(v)'
      <4>1. holder[v] # t
        BY <2>2, NoTxAssumption DEF UserInv, LockIsLive, UserOf
      <4>. QED BY <3>1, <4>1, <1>3 DEF UserInv, LockIsLive, TypeOK
    <3>3. NothingWithoutRow(v)'
      BY <3>1 DEF UserInv, NothingWithoutRow
    <3>4. CommittedExplained(v)'
      BY <3>1 DEF UserInv, CommittedExplained, Explains, Chained, Final
    <3>. QED BY <3>2, <3>3, <3>4 DEF UserInv
  <2>. QED BY <2>1, <2>2
<1>. QED BY <1>4, <1>6, <1>7

-----------------------------------------------------------------------------
LEMMA NextInv ==
  ASSUME IInv, [Next]_vars
  PROVE  IInv'
<1>1. CASE UNCHANGED vars
  <2>1. \A t, c : UserOf(t)' = UserOf(t) /\ Input(t)' = Input(t) /\ View(t, c)' = View(t, c)
    BY <1>1 DEF vars, UserOf, Input, View
  <2>2. \A t, c : Ahead(t, c)' = Ahead(t, c)
    BY <1>1, <2>1 DEF vars, Ahead
  <2>3. ASSUME NEW t \in Tx PROVE TxInv(t)'
    BY <1>1, <2>1, <2>2 DEF IInv, vars, TxInv, HeldPastLock, NothingWithoutLock, HolderExplained,
                            ReadIsCurrent, Explains, Chained, Final
  <2>4. ASSUME NEW u \in User PROVE UserInv(u)'
    BY <1>1 DEF IInv, vars, UserInv, LockIsLive, NothingWithoutRow, CommittedExplained,
                Explains, Chained, Final
  <2>. QED BY <1>1, <2>3, <2>4 DEF vars, IInv, TypeOK
<1>2. ASSUME NEW t \in Tx, Step(t) PROVE IInv'
  <2>1. CASE RejectZeroAmount(t) \/ InsufficientBalance(t) \/ DuplicateEntry(t)
    BY <2>1, RollbackInv DEF RejectZeroAmount, InsufficientBalance, DuplicateEntry
  <2>. QED BY <1>2, <2>1, EnsureInv, LockInv, InsertInv, UpdateInv, CommitInv DEF Step
<1>3. ASSUME NEW t \in Tx, Fail(t) PROVE IInv'
  BY <1>3, RollbackInv DEF Fail
<1>. QED BY <1>1, <1>2, <1>3, BeginInv DEF Next

THEOREM Inductive == Spec => []IInv
<1>1. IInv /\ [Next]_vars => IInv'
  BY NextInv
<1>. QED BY InitInv, <1>1, PTL DEF Spec

-----------------------------------------------------------------------------
(* What the invariant says to the users of the ledger. *)

(***************************************************************************)
(* Every variable keeps its type: of the code, that balances stay integers *)
(* and no transaction is at a post its job does not have.                  *)
(***************************************************************************)
THEOREM TypeCorrect == Spec => []TypeOK
<1>1. IInv => TypeOK
  BY DEF IInv
<1>. QED BY <1>1, Inductive, PTL

(***************************************************************************)
(* The balance getBalance returns is the one the user's ledger explains,   *)
(* row by row, under any interleaving of post, retry, failure and commit.  *)
(***************************************************************************)
THEOREM BalanceIsExplained == Spec => []LedgerExplainsBalance
<1>1. IInv => LedgerExplainsBalance
  BY DEF IInv, UserInv, CommittedExplained, Explains, LedgerExplainsBalance, GetBalance
<1>. QED BY <1>1, Inductive, PTL

LEMMA NothingNegative == IInv => NeverOverdrawn
<1> SUFFICES ASSUME IInv, NEW u \in User, NEW c \in Currency
             PROVE  /\ GetBalance(u)[c] >= 0
                    /\ \A k \in DOMAIN ledger[u][c] : ledger[u][c][k].after >= 0
  BY DEF NeverOverdrawn
<1>1. Explains(ledger[u][c], balances[u].balance[c]) /\ ledger[u][c] \in Seq(Entry)
  BY DEF IInv, TypeOK, UserInv, CommittedExplained
<1>2. Len(ledger[u][c]) \in Nat /\ DOMAIN ledger[u][c] = 1..Len(ledger[u][c])
  BY <1>1, LenProperties
<1>3. ledger[u][c] # <<>> => Len(ledger[u][c]) \in 1..Len(ledger[u][c])
  BY <1>1, EmptySeq
<1>. QED BY <1>1, <1>2, <1>3 DEF Explains, Final, GetBalance

(***************************************************************************)
(* No balance and no balance_after is negative: two spends that race       *)
(* cannot both pass post's overdraft check on the same money.              *)
(***************************************************************************)
THEOREM NoOverdraft == Spec => []NeverOverdrawn
BY Inductive, NothingNegative, PTL

(***************************************************************************)
(* post never fails with 'Concurrent balance update conflict': the row     *)
(* lock already makes its read current, the version check is a backstop.   *)
(***************************************************************************)
THEOREM VersionCheckIsBackstop == Spec => []NoVersionConflict
BY Inductive, ReadIsUpdated, PTL

(***************************************************************************)
(* Whatever transactions do, committed ledger rows stay as they are.       *)
(***************************************************************************)
THEOREM LedgerIsAppendOnly == Spec => AppendOnly
<1>1. ASSUME IInv, [Next]_vars
      PROVE  [\A u \in User, c \in Currency :
                /\ Len(ledger[u][c]) <= Len(ledger'[u][c])
                /\ \A k \in DOMAIN ledger[u][c] : ledger'[u][c][k] = ledger[u][c][k]]_vars
  <2> SUFFICES ASSUME NEW u \in User, NEW c \in Currency
               PROVE  /\ Len(ledger[u][c]) <= Len(ledger'[u][c])
                      /\ \A k \in DOMAIN ledger[u][c] : ledger'[u][c][k] = ledger[u][c][k]
    OBVIOUS
  <2>1. ledger[u][c] \in Seq(Entry) /\ Len(ledger[u][c]) \in Nat
        /\ DOMAIN ledger[u][c] = 1..Len(ledger[u][c])
    BY <1>1, LenProperties DEF IInv, TypeOK
  <2>2. CASE ledger'[u][c] = ledger[u][c]
    BY <2>1, <2>2
  <2>3. CASE \E t \in Tx : Commit(t)
    <3> PICK t \in Tx : Commit(t)
      BY <2>3
    <3>1. ledger'[u][c] = ledger[u][c] \/ ledger'[u][c] = ledger[u][c] \o draft[t].entries[c]
      BY <1>1 DEF Commit, IInv, TypeOK
    <3>2. draft[t].entries[c] \in Seq(Entry) /\ Len(draft[t].entries[c]) \in Nat
      BY <1>1, LenProperties DEF IInv, TypeOK
    <3> DEFINE r == ledger[u][c] \o draft[t].entries[c]
    <3>3. /\ Len(ledger[u][c]) <= Len(r)
          /\ \A k \in 1..Len(ledger[u][c]) : r[k] = ledger[u][c][k]
      BY <2>1, <3>2, ConcatKeepsPrefix
    <3>4. ledger'[u][c] = r \/ ledger'[u][c] = ledger[u][c]
      BY <3>1
    <3>. HIDE DEF r
    <3>. QED BY <2>1, <2>2, <3>3, <3>4
  <2>4. (\E t \in Tx : Commit(t)) \/ ledger' = ledger
    BY <1>1 DEF Next, vars, Step, Fail, Rollback, Begin, RejectZeroAmount, EnsureBalanceRow,
       LockBalanceRow, InsufficientBalance, InsertLedgerRow, DuplicateEntry, UpdateBalance
  <2>. QED BY <2>2, <2>3, <2>4
<1>. QED BY <1>1, Inductive, PTL DEF Spec, AppendOnly

-----------------------------------------------------------------------------
(* That a job is in the ledger at most once and as a whole. *)

Book == [Currency -> Seq(Entry)]

ViewOf(t) == [c \in Currency |-> View(t, c)]

UniqueIds(b) ==
  \A c, d \in Currency : \A i \in DOMAIN b[c], k \in DOMAIN b[d] :
    b[c][i].id = b[d][k].id => c = d /\ i = k

\* The unique index: no id twice, committed or in the view of a row's holder.
OnceInv ==
  /\ \A u \in User : UniqueIds(ledger[u])
  /\ \A t \in Tx : holder[UserOf(t)] = t => UniqueIds(ViewOf(t))

\* How many of its posts a transaction has inserted.
Inserted(t) ==
  CASE pc[t] \in {"update", "commit"} -> at[t]
    [] pc[t] \in {"ensure", "lock", "insert"} -> at[t] - 1
    [] OTHER -> 0

\* It has inserted just the posts before the one it is at, and the last post
\* before it commits.
WholeInv ==
  /\ AllOrNothing
  /\ \A t \in Tx : IdsIn(draft[t].entries) = {job[t].posts[k].id : k \in 1..Inserted(t)}
  /\ \A t \in Tx : pc[t] = "commit" => at[t] = Len(job[t].posts)

-----------------------------------------------------------------------------
(* Facts about the rows of a user. *)

SeqIds(s) == {s[k].id : k \in DOMAIN s}

\* A user's rows with one more in currency d.
Added(b, d, e) == [b EXCEPT ![d] = Append(b[d], e)]

LEMMA IdIn ==
  ASSUME NEW b, NEW x
  PROVE  x \in IdsIn(b) <=> \E c \in Currency : x \in SeqIds(b[c])
BY DEF IdsIn, SeqIds

LEMMA IdsOfSeqs ==
  ASSUME NEW s \in Seq(Entry), NEW d \in Seq(Entry)
  PROVE  SeqIds(s \o d) = SeqIds(s) \cup SeqIds(d)
<1> DEFINE r == s \o d
           m == Len(s)
           n == Len(d)
<1>1. /\ m \in Nat /\ n \in Nat /\ DOMAIN s = 1..m /\ DOMAIN d = 1..n
      /\ DOMAIN r = 1..(m + n)
      /\ \A i \in 1..(m + n) : r[i] = IF i <= m THEN s[i] ELSE d[i - m]
  BY ConcatProperties, LenProperties
<1>. HIDE DEF r, m, n
<1>2. ASSUME NEW k \in DOMAIN s PROVE k \in DOMAIN r /\ r[k] = s[k]
  BY <1>1
<1>3. ASSUME NEW k \in DOMAIN d PROVE k + m \in DOMAIN r /\ r[k + m] = d[k]
  BY <1>1
<1>4. ASSUME NEW k \in DOMAIN r
      PROVE  (k \in DOMAIN s /\ r[k] = s[k]) \/ (k - m \in DOMAIN d /\ r[k] = d[k - m])
  BY <1>1
<1>5. SeqIds(r) \subseteq SeqIds(s) \cup SeqIds(d)
  BY <1>4 DEF SeqIds
<1>6. SeqIds(s) \subseteq SeqIds(r)
  BY <1>2 DEF SeqIds
<1>7. SeqIds(d) \subseteq SeqIds(r)
  BY <1>3 DEF SeqIds
<1>. QED BY <1>5, <1>6, <1>7 DEF r

LEMMA IdsOfConcat ==
  ASSUME NEW a \in Book, NEW b \in Book
  PROVE  IdsIn([c \in Currency |-> a[c] \o b[c]]) = IdsIn(a) \cup IdsIn(b)
<1> DEFINE ab == [c \in Currency |-> a[c] \o b[c]]
<1>1. \A c \in Currency : SeqIds(ab[c]) = SeqIds(a[c]) \cup SeqIds(b[c])
  BY IdsOfSeqs DEF Book
<1>. HIDE DEF ab
<1>2. ASSUME NEW x PROVE x \in IdsIn(ab) <=> x \in IdsIn(a) \/ x \in IdsIn(b)
  <2>1. /\ x \in IdsIn(ab) <=> \E c \in Currency : x \in SeqIds(ab[c])
        /\ x \in IdsIn(a) <=> \E c \in Currency : x \in SeqIds(a[c])
        /\ x \in IdsIn(b) <=> \E c \in Currency : x \in SeqIds(b[c])
    BY IdIn
  <2>. QED BY <1>1, <2>1
<1>. QED BY <1>2 DEF ab

LEMMA AddedBook ==
  ASSUME NEW b \in Book, NEW d \in Currency, NEW e \in Entry
  PROVE  /\ Len(b[d]) \in Nat /\ DOMAIN b[d] = 1..Len(b[d])
         /\ Added(b, d, e) \in Book
         /\ \A c \in Currency : c # d => Added(b, d, e)[c] = b[c]
         /\ DOMAIN Added(b, d, e)[d] = 1..(Len(b[d]) + 1)
         /\ Added(b, d, e)[d][Len(b[d]) + 1] = e
         /\ \A k \in 1..Len(b[d]) : Added(b, d, e)[d][k] = b[d][k]
<1> DEFINE n == Len(b[d])
           s == Append(b[d], e)
<1>1. b[d] \in Seq(Entry) /\ n \in Nat /\ DOMAIN b[d] = 1..n
  BY LenProperties DEF Book
<1>2. /\ s \in Seq(Entry) /\ DOMAIN s = 1..(n + 1) /\ s[n + 1] = e
      /\ \A k \in 1..n : s[k] = b[d][k]
  BY <1>1, AppendProperties, LenProperties
<1>3. Added(b, d, e) = [b EXCEPT ![d] = s]
  BY DEF Added
<1>. HIDE DEF s, n
<1>4. /\ Added(b, d, e) \in Book /\ Added(b, d, e)[d] = s
      /\ \A c \in Currency : c # d => Added(b, d, e)[c] = b[c]
  BY <1>2, <1>3 DEF Book
<1>. QED BY <1>1, <1>2, <1>4 DEF n

LEMMA IdsOfAdded ==
  ASSUME NEW b \in Book, NEW d \in Currency, NEW e \in Entry
  PROVE  IdsIn(Added(b, d, e)) = IdsIn(b) \cup {e.id}
<1> DEFINE r == Added(b, d, e)
           n == Len(b[d])
<1>1. /\ n \in Nat /\ DOMAIN b[d] = 1..n
      /\ \A c \in Currency : c # d => r[c] = b[c]
      /\ DOMAIN r[d] = 1..(n + 1) /\ r[d][n + 1] = e
      /\ \A k \in 1..n : r[d][k] = b[d][k]
  BY AddedBook
<1>. HIDE DEF r, n
<1>2. SeqIds(r[d]) = SeqIds(b[d]) \cup {e.id}
  <2>1. \A k \in DOMAIN r[d] : (k \in DOMAIN b[d] /\ r[d][k] = b[d][k]) \/ r[d][k] = e
    BY <1>1
  <2>2. SeqIds(r[d]) \subseteq SeqIds(b[d]) \cup {e.id}
    BY <2>1 DEF SeqIds
  <2>3. \A k \in DOMAIN b[d] : k \in DOMAIN r[d] /\ r[d][k] = b[d][k]
    BY <1>1
  <2>4. n + 1 \in DOMAIN r[d] /\ r[d][n + 1] = e
    BY <1>1
  <2>5. SeqIds(b[d]) \cup {e.id} \subseteq SeqIds(r[d])
    BY <2>3, <2>4 DEF SeqIds
  <2>. QED BY <2>2, <2>5
<1>3. \A c \in Currency : c # d => SeqIds(r[c]) = SeqIds(b[c])
  BY <1>1
<1>4. \A x : x \in IdsIn(r) <=> x \in IdsIn(b) \/ x = e.id
  BY <1>2, <1>3, IdIn
<1>. QED BY <1>4 DEF r

LEMMA UniqueAdded ==
  ASSUME NEW b \in Book, NEW d \in Currency, NEW e \in Entry,
         UniqueIds(b), e.id \notin IdsIn(b)
  PROVE  UniqueIds(Added(b, d, e))
<1> DEFINE r == Added(b, d, e)
           n == Len(b[d])
<1>1. /\ n \in Nat /\ DOMAIN b[d] = 1..n
      /\ \A c \in Currency : c # d => r[c] = b[c]
      /\ DOMAIN r[d] = 1..(n + 1) /\ r[d][n + 1] = e
      /\ \A k \in 1..n : r[d][k] = b[d][k]
  BY AddedBook
<1>. HIDE DEF r, n
\* A position of the new book is an old one or the new one.
<1>2. ASSUME NEW c \in Currency, NEW k \in DOMAIN r[c]
      PROVE  \/ k \in DOMAIN b[c] /\ r[c][k] = b[c][k]
             \/ c = d /\ k = n + 1 /\ r[c][k] = e
  <2>1. CASE c = d
    <3>1. k \in 1..n \/ k = n + 1
      BY <1>1, <2>1
    <3>. QED BY <1>1, <2>1, <3>1
  <2>2. CASE c # d
    BY <1>1, <2>2
  <2>. QED BY <2>1, <2>2
<1>3. \A c \in Currency : \A k \in DOMAIN b[c] : b[c][k].id # e.id
  BY IdIn DEF SeqIds
<1>4. UniqueIds(r)
  <2> SUFFICES ASSUME NEW c \in Currency, NEW f \in Currency,
                      NEW i \in DOMAIN r[c], NEW k \in DOMAIN r[f],
                      r[c][i].id = r[f][k].id
               PROVE  c = f /\ i = k
    BY DEF UniqueIds
  <2>. QED BY <1>2, <1>3 DEF UniqueIds
<1>. QED BY <1>4 DEF r

-----------------------------------------------------------------------------
(* No id twice. *)

LEMMA ViewType ==
  ASSUME IInv, NEW t \in Tx
  PROVE  /\ UserOf(t) \in User /\ ledger[UserOf(t)] \in Book /\ draft[t].entries \in Book
         /\ ViewOf(t) \in Book
         /\ IdsIn(ViewOf(t)) = IdsIn(ledger[UserOf(t)]) \cup IdsIn(draft[t].entries)
<1>1. UserOf(t) \in User /\ ledger[UserOf(t)] \in Book /\ draft[t].entries \in Book
  BY VisibleType DEF IInv, TypeOK, Book
<1>2. \A c \in Currency : View(t, c) \in Seq(Entry)
  BY <1>1, ConcatProperties DEF View, Book
<1>3. ViewOf(t) \in Book
  BY <1>2 DEF ViewOf, Book
<1>4. IdsIn(ViewOf(t)) = IdsIn(ledger[UserOf(t)]) \cup IdsIn(draft[t].entries)
  BY <1>1, IdsOfConcat DEF ViewOf, View
<1>. QED BY <1>1, <1>3, <1>4

\* A transaction without uncommitted rows sees the committed ones.
LEMMA CleanView ==
  ASSUME IInv, NEW t \in Tx, draft[t] = Clean
  PROVE  ViewOf(t) = ledger[UserOf(t)]
<1>1. \A c \in Currency : View(t, c) = ledger[UserOf(t)][c]
  BY ViewType, ConcatEmptySeq DEF View, Clean, NoEntries, Book
<1>. QED BY <1>1, ViewType DEF ViewOf, Book

LEMMA SameView ==
  ASSUME NEW t \in Tx, UserOf(t)' = UserOf(t), ledger'[UserOf(t)] = ledger[UserOf(t)],
         draft'[t].entries = draft[t].entries
  PROVE  ViewOf(t)' = ViewOf(t)
BY DEF ViewOf, View

LEMMA PrivateOnce ==
  ASSUME IInv, OnceInv, NEW t \in Tx, Private(t),
         holder'[UserOf(t)'] = t => UniqueIds(ViewOf(t)')
  PROVE  OnceInv'
<1>1. ASSUME NEW u \in User PROVE UniqueIds(ledger'[u])
  BY DEF Private, OnceInv
<1>2. ASSUME NEW s \in Tx \ {t}, holder'[UserOf(s)'] = s PROVE UniqueIds(ViewOf(s)')
  <2>1. /\ UserOf(s) \in User /\ UserOf(s)' = UserOf(s)
        /\ ledger' = ledger /\ draft'[s] = draft[s]
    BY ViewType DEF Private, UserOf
  <2>2. holder[UserOf(s)] = s
    BY <1>2, <2>1 DEF Private
  <2>3. ViewOf(s)' = ViewOf(s)
    BY <2>1, SameView
  <2>. QED BY <2>2, <2>3 DEF OnceInv
<1>3. \A u \in User : UniqueIds(ledger[u])'
  BY <1>1 DEF UniqueIds
<1>4. \A s \in Tx : (holder[UserOf(s)] = s => UniqueIds(ViewOf(s)))'
  BY <1>2 DEF UniqueIds
<1>. QED BY <1>3, <1>4 DEF OnceInv

LEMMA RollbackOnce ==
  ASSUME IInv, OnceInv, NEW t \in Tx, Rollback(t)
  PROVE  OnceInv'
<1>1. /\ \A u \in User : holder'[u] = IF holder[u] = t THEN NoTx ELSE holder[u]
      /\ UserOf(t)' = UserOf(t) /\ UserOf(t) \in User
  BY VisibleType DEF IInv, Rollback, TypeOK, UserOf
<1>2. Private(t)
  BY <1>1, NoTxAssumption DEF IInv, Private, Rollback, TypeOK
<1>3. holder'[UserOf(t)'] # t
  BY <1>1, NoTxAssumption
<1>. QED BY <1>2, <1>3, PrivateOnce

LEMMA NothingHeld ==
  ASSUME IInv, NEW t \in Tx, pc[t] \in Ended
  PROVE  /\ \A u \in User : holder[u] # t
         /\ draft[t] = Clean
<1>1. \A u \in User : holder[u] # t
  BY NoTxAssumption DEF IInv, UserInv, LockIsLive, Ended, Active, InPost
<1>. QED BY <1>1, VisibleType DEF IInv, TxInv, NothingWithoutLock

LEMMA BeginOnce ==
  ASSUME IInv, OnceInv, NEW t \in Tx, NEW j \in Job, Begin(t, j)
  PROVE  OnceInv'
<1>1. Private(t)
  BY DEF IInv, Private, Begin, TypeOK
<1>2. UserOf(t)' \in User /\ holder' = holder
  BY JobAssumption DEF IInv, Begin, TypeOK, UserOf
<1>3. holder'[UserOf(t)'] # t
  BY <1>2, NothingHeld DEF Begin
<1>. QED BY <1>1, <1>3, PrivateOnce

\* Taking the lock shows the transaction the committed rows, and its own.
LEMMA TakesOnce ==
  ASSUME IInv, OnceInv, NEW t \in Tx, EnsureBalanceRow(t) \/ LockBalanceRow(t)
  PROVE  OnceInv'
<1>1. /\ UserOf(t) \in User /\ UserOf(t)' = UserOf(t)
      /\ ledger' = ledger /\ draft'[t].entries = draft[t].entries
  BY VisibleType DEF IInv, TypeOK, EnsureBalanceRow, LockBalanceRow, UserOf
<1>2. Private(t)
  BY <1>1, NoTxAssumption DEF IInv, Private, EnsureBalanceRow, LockBalanceRow, TypeOK, RowFree
<1>3. ViewOf(t)' = ViewOf(t)
  BY <1>1, SameView
<1>4. UniqueIds(ViewOf(t))
  <2>1. CASE holder[UserOf(t)] = t
    BY <2>1 DEF OnceInv
  <2>2. CASE holder[UserOf(t)] # t
    <3>1. draft[t] = Clean
      BY <2>2 DEF IInv, TxInv, NothingWithoutLock
    <3>2. ViewOf(t) = ledger[UserOf(t)]
      BY <3>1, CleanView
    <3>. QED BY <3>2, <1>1 DEF OnceInv
  <2>. QED BY <2>1, <2>2
<1>. QED BY <1>2, <1>3, <1>4, PrivateOnce

\* What InsertLedgerRow does to the rows.
LEMMA InsertAdds ==
  ASSUME IInv, NEW t \in Tx, InsertLedgerRow(t)
  PROVE  \E d \in Currency, e \in Entry :
           /\ e.id = Input(t).id
           /\ draft'[t].entries = Added(draft[t].entries, d, e)
           /\ ViewOf(t)' = Added(ViewOf(t), d, e)
<1> DEFINE u == UserOf(t)
           d == Input(t).currency
           e == [id |-> Input(t).id, amount |-> Input(t).amount,
                 after |-> seen[t].balance[d] + Input(t).amount]
           f == draft[t].entries
<1>1. d \in Currency /\ Input(t).amount \in Int /\ Input(t).id \in Id
  BY InputType DEF IInv
<1>2. e \in Entry
  <2>1. seen[t].balance[d] \in Int
    BY <1>1 DEF IInv, TypeOK, Row
  <2>. QED BY <1>1, <2>1 DEF Entry
<1>3. /\ u \in User /\ ledger[u] \in Book /\ f \in Book /\ ViewOf(t) \in Book
  BY ViewType
<1>4. draft' = [draft EXCEPT ![t].entries[d] = Append(f[d], e)] /\ ledger' = ledger /\ u' = u
  BY DEF InsertLedgerRow, UserOf
<1>5. e.id = Input(t).id
  OBVIOUS
<1>. HIDE DEF e, d, f
<1>6. draft'[t].entries = Added(f, d, e)
  BY <1>1, <1>4 DEF IInv, TypeOK, f, Added
<1>7. ASSUME NEW c \in Currency
      PROVE  View(t, c)' = Added(ViewOf(t), d, e)[c]
  <2>1. View(t, c)' = ledger[u][c] \o Added(f, d, e)[c]
    BY <1>4, <1>6 DEF View
  <2>2. CASE c = d
    <3>1. Added(f, d, e)[c] = Append(f[d], e) /\ Added(ViewOf(t), d, e)[c] = Append(View(t, d), e)
      BY <1>1, <1>3, <2>2 DEF Added, Book, ViewOf
    <3>2. ledger[u][d] \in Seq(Entry) /\ f[d] \in Seq(Entry)
      BY <1>1, <1>3 DEF Book
    <3>3. ledger[u][d] \o Append(f[d], e) = Append(View(t, d), e)
      BY <3>2, <1>2, AppendToView DEF View, f
    <3>. QED BY <2>1, <2>2, <3>1, <3>3
  <2>3. CASE c # d
    BY <1>3, <2>1, <2>3 DEF Added, Book, ViewOf, View, f
  <2>. QED BY <2>2, <2>3
<1>8. Added(ViewOf(t), d, e) \in Book
  BY <1>1, <1>2, <1>3, AddedBook
<1>9. ViewOf(t)' = Added(ViewOf(t), d, e)
  BY <1>7, <1>8 DEF ViewOf, Book
<1>. QED BY <1>1, <1>2, <1>5, <1>6, <1>9 DEF f

LEMMA InsertOnce ==
  ASSUME IInv, OnceInv, NEW t \in Tx, InsertLedgerRow(t)
  PROVE  OnceInv'
<1>1. Private(t)
  BY DEF IInv, Private, InsertLedgerRow, TypeOK
<1>2. PICK d \in Currency, e \in Entry :
        e.id = Input(t).id /\ ViewOf(t)' = Added(ViewOf(t), d, e)
  BY InsertAdds
<1>3. holder[UserOf(t)] = t
  BY DEF InsertLedgerRow, IInv, TxInv, HeldPastLock
<1>4. ViewOf(t) \in Book /\ UniqueIds(ViewOf(t)) /\ e.id \notin IdsIn(ViewOf(t))
  BY <1>2, <1>3, ViewType DEF OnceInv, InsertLedgerRow, Duplicate
<1>5. UniqueIds(ViewOf(t)')
  BY <1>2, <1>4, UniqueAdded
<1>. QED BY <1>1, <1>5, PrivateOnce

LEMMA UpdateOnce ==
  ASSUME IInv, OnceInv, NEW t \in Tx, UpdateBalance(t)
  PROVE  OnceInv'
<1>1. /\ VisibleRow(t).version = seen[t].version /\ holder[UserOf(t)] = t
      /\ UserOf(t) \in User
  BY ReadIsUpdated, VisibleType
     DEF UpdateBalance, NoVersionConflict, IInv, TxInv, HeldPastLock
<1>2. /\ holder' = [holder EXCEPT ![UserOf(t)] = t]
      /\ draft'[t].entries = draft[t].entries
      /\ UNCHANGED <<stored, balances, ledger, job, seen>>
      /\ \A s \in Tx \ {t} : pc'[s] = pc[s] /\ at'[s] = at[s] /\ draft'[s] = draft[s]
  BY <1>1 DEF UpdateBalance, IInv, TypeOK
<1>3. Private(t)
  BY <1>1, <1>2 DEF Private, IInv, TypeOK
<1>4. ViewOf(t)' = ViewOf(t)
  BY <1>2, SameView DEF UserOf
<1>. QED BY <1>1, <1>3, <1>4, PrivateOnce DEF OnceInv

\* What Commit does to the rows.
LEMMA CommitPublishes ==
  ASSUME IInv, NEW t \in Tx, Commit(t)
  PROVE  /\ holder[UserOf(t)] = t /\ UserOf(t) \in User
         /\ ledger' = [ledger EXCEPT ![UserOf(t)] = ViewOf(t)]
         /\ holder' = [holder EXCEPT ![UserOf(t)] = NoTx]
         /\ draft' = [draft EXCEPT ![t] = Clean]
         /\ job' = job
BY ViewType DEF Commit, ViewOf, View, Book, IInv, TxInv, HeldPastLock, TypeOK

LEMMA CommitOnce ==
  ASSUME IInv, OnceInv, NEW t \in Tx, Commit(t)
  PROVE  OnceInv'
<1> DEFINE u == UserOf(t)
<1>1. /\ holder[u] = t /\ u \in User /\ job' = job
      /\ ledger' = [ledger EXCEPT ![u] = ViewOf(t)]
      /\ holder' = [holder EXCEPT ![u] = NoTx]
      /\ draft' = [draft EXCEPT ![t] = Clean]
  BY CommitPublishes
<1>2. UniqueIds(ViewOf(t))
  BY <1>1 DEF OnceInv
<1>3. /\ ledger'[u] = ViewOf(t)
      /\ \A v \in User : v # u => ledger'[v] = ledger[v] /\ holder'[v] = holder[v]
      /\ holder'[u] = NoTx
  BY <1>1 DEF IInv, TypeOK
<1>4. ASSUME NEW v \in User PROVE UniqueIds(ledger'[v])
  <2>1. CASE v = u
    BY <1>2, <1>3, <2>1
  <2>2. CASE v # u
    BY <1>3, <2>2 DEF OnceInv
  <2>. QED BY <2>1, <2>2
<1>5. ASSUME NEW s \in Tx, holder'[UserOf(s)'] = s PROVE UniqueIds(ViewOf(s)')
  <2>1. UserOf(s)' = UserOf(s) /\ UserOf(s) \in User
    BY <1>1, VisibleType DEF UserOf, IInv
  <2>2. UserOf(s) # u /\ holder[UserOf(s)] = s
    BY <1>3, <1>5, <2>1, NoTxAssumption
  <2>3. s # t /\ draft'[s] = draft[s]
    BY <1>1, <2>2 DEF IInv, TypeOK
  <2>4. ViewOf(s)' = ViewOf(s)
    BY <1>3, <2>1, <2>2, <2>3, SameView
  <2>. QED BY <2>2, <2>4 DEF OnceInv
<1>6. \A v \in User : UniqueIds(ledger[v])'
  BY <1>4 DEF UniqueIds
<1>7. \A s \in Tx : (holder[UserOf(s)] = s => UniqueIds(ViewOf(s)))'
  BY <1>5 DEF UniqueIds
<1>. QED BY <1>6, <1>7 DEF OnceInv

LEMMA OnceInit == Init => OnceInv
<1> SUFFICES ASSUME Init PROVE OnceInv
  OBVIOUS
<1>1. \A u \in User : UniqueIds(ledger[u])
  BY DEF Init, NoEntries, UniqueIds
<1>2. \A t \in Tx : holder[UserOf(t)] # t
  BY InitInv, VisibleType, NoTxAssumption DEF Init, IInv
<1>. QED BY <1>1, <1>2 DEF OnceInv

LEMMA OnceNext ==
  ASSUME IInv, OnceInv, [Next]_vars
  PROVE  OnceInv'
<1>1. CASE UNCHANGED vars
  <2>1. holder' = holder /\ ledger' = ledger /\ draft' = draft /\ job' = job
    BY <1>1 DEF vars
  <2>2. \A t \in Tx : UserOf(t)' = UserOf(t)
    BY <2>1 DEF UserOf
  <2>3. \A t \in Tx : ViewOf(t)' = ViewOf(t)
    BY <2>1, <2>2 DEF ViewOf, View
  <2>4. \A u \in User : UniqueIds(ledger[u])'
    BY <2>1 DEF OnceInv, UniqueIds
  <2>5. \A t \in Tx : (holder[UserOf(t)] = t => UniqueIds(ViewOf(t)))'
    BY <2>1, <2>2, <2>3 DEF OnceInv, UniqueIds
  <2>. QED BY <2>4, <2>5 DEF OnceInv
<1>2. ASSUME NEW t \in Tx, Step(t) PROVE OnceInv'
  <2>1. CASE RejectZeroAmount(t) \/ InsufficientBalance(t) \/ DuplicateEntry(t)
    BY <2>1, RollbackOnce DEF RejectZeroAmount, InsufficientBalance, DuplicateEntry
  <2>. QED BY <1>2, <2>1, TakesOnce, InsertOnce, UpdateOnce, CommitOnce DEF Step
<1>3. ASSUME NEW t \in Tx, Fail(t) PROVE OnceInv'
  BY <1>3, RollbackOnce DEF Fail
<1>. QED BY <1>1, <1>2, <1>3, BeginOnce DEF Next

-----------------------------------------------------------------------------
(* As a whole. *)

LEMMA PostsType ==
  ASSUME IInv, NEW t \in Tx
  PROVE  /\ Len(job[t].posts) \in Nat /\ DOMAIN job[t].posts = 1..Len(job[t].posts)
         /\ at[t] \in 1..Len(job[t].posts) /\ job[t] \in Job
BY JobAssumption, LenProperties DEF IInv, TypeOK

InsertedIds(t) == {job[t].posts[k].id : k \in 1..Inserted(t)}

\* The statements of one transaction that leave the committed rows alone.
LEMMA PrivateWhole ==
  ASSUME IInv, WholeInv, NEW t \in Tx, Private(t),
         IdsIn(draft'[t].entries) = InsertedIds(t)',
         pc'[t] = "commit" => at'[t] = Len(job'[t].posts)
  PROVE  WholeInv'
<1>1. AllOrNothing'
  BY DEF Private, WholeInv, AllOrNothing, Posted
<1>2. ASSUME NEW s \in Tx \ {t}
      PROVE  /\ IdsIn(draft'[s].entries) = InsertedIds(s)'
             /\ pc'[s] = "commit" => at'[s] = Len(job'[s].posts)
  BY DEF Private, WholeInv, InsertedIds, Inserted
<1>3. \A s \in Tx : IdsIn(draft'[s].entries) = {job'[s].posts[k].id : k \in 1..Inserted(s)'}
  BY <1>2 DEF InsertedIds
<1>. QED BY <1>1, <1>2, <1>3 DEF WholeInv

LEMMA NoIds == IdsIn(Clean.entries) = {}
BY DEF Clean, NoEntries, IdsIn

LEMMA RollbackWhole ==
  ASSUME IInv, WholeInv, NEW t \in Tx, Rollback(t)
  PROVE  WholeInv'
<1>1. Private(t)
  BY NoTxAssumption DEF IInv, Private, Rollback, TypeOK
<1>2. draft'[t] = Clean /\ pc'[t] = "aborted"
  BY DEF IInv, Rollback, TypeOK
<1>3. InsertedIds(t)' = {}
  BY <1>2 DEF InsertedIds, Inserted
<1>. QED BY <1>1, <1>2, <1>3, NoIds, PrivateWhole

LEMMA BeginWhole ==
  ASSUME IInv, WholeInv, NEW t \in Tx, NEW j \in Job, Begin(t, j)
  PROVE  WholeInv'
<1>1. Private(t)
  BY DEF IInv, Private, Begin, TypeOK
<1>2. draft'[t] = Clean /\ pc'[t] = "ensure" /\ at'[t] = 1
  BY NothingHeld DEF IInv, Begin, TypeOK
<1>3. InsertedIds(t)' = {}
  BY <1>2 DEF InsertedIds, Inserted
<1>. QED BY <1>1, <1>2, <1>3, NoIds, PrivateWhole

LEMMA TakesWhole ==
  ASSUME IInv, WholeInv, NEW t \in Tx, EnsureBalanceRow(t) \/ LockBalanceRow(t)
  PROVE  WholeInv'
<1>1. /\ UserOf(t) \in User
      /\ draft'[t].entries = draft[t].entries /\ job' = job /\ at' = at
      /\ pc[t] \in {"ensure", "lock"} /\ pc'[t] \in {"lock", "insert"}
  BY VisibleType DEF IInv, TypeOK, EnsureBalanceRow, LockBalanceRow
<1>2. Private(t)
  BY <1>1, NoTxAssumption DEF IInv, Private, EnsureBalanceRow, LockBalanceRow, TypeOK, RowFree
<1>3. Inserted(t) = at[t] - 1 /\ Inserted(t)' = at[t] - 1
  BY <1>1 DEF Inserted
<1>4. InsertedIds(t)' = InsertedIds(t)
  BY <1>1, <1>3 DEF InsertedIds
<1>5. IdsIn(draft[t].entries) = InsertedIds(t)
  BY DEF WholeInv, InsertedIds
<1>. QED BY <1>1, <1>2, <1>4, <1>5, PrivateWhole

LEMMA InsertWhole ==
  ASSUME IInv, WholeInv, NEW t \in Tx, InsertLedgerRow(t)
  PROVE  WholeInv'
<1>1. Private(t)
  BY DEF IInv, Private, InsertLedgerRow, TypeOK
<1>2. PICK d \in Currency, e \in Entry :
        e.id = Input(t).id /\ draft'[t].entries = Added(draft[t].entries, d, e)
  BY InsertAdds
<1>3. /\ pc[t] = "insert" /\ pc'[t] = "update" /\ job' = job /\ at' = at
  BY DEF IInv, InsertLedgerRow, TypeOK
<1>4. IdsIn(draft'[t].entries) = IdsIn(draft[t].entries) \cup {Input(t).id}
  BY <1>2, ViewType, IdsOfAdded
<1>5. Inserted(t) = at[t] - 1 /\ Inserted(t)' = at[t] /\ at[t] \in Nat /\ at[t] >= 1
  BY <1>3, PostsType DEF Inserted
<1>6. InsertedIds(t)' = InsertedIds(t) \cup {Input(t).id}
  <2>1. 1..at[t] = (1..(at[t] - 1)) \cup {at[t]}
    BY <1>5
  <2>2. InsertedIds(t)' = {job[t].posts[k].id : k \in 1..at[t]}
    BY <1>3, <1>5 DEF InsertedIds
  <2>3. InsertedIds(t) = {job[t].posts[k].id : k \in 1..(at[t] - 1)}
    BY <1>5 DEF InsertedIds
  <2>. QED BY <2>1, <2>2, <2>3 DEF Input
<1>7. IdsIn(draft[t].entries) = InsertedIds(t)
  BY DEF WholeInv, InsertedIds
<1>. QED BY <1>1, <1>3, <1>4, <1>6, <1>7, PrivateWhole

LEMMA UpdateWhole ==
  ASSUME IInv, WholeInv, NEW t \in Tx, UpdateBalance(t)
  PROVE  WholeInv'
<1>1. /\ VisibleRow(t).version = seen[t].version /\ holder[UserOf(t)] = t
      /\ UserOf(t) \in User /\ pc[t] = "update"
  BY ReadIsUpdated, VisibleType
     DEF UpdateBalance, NoVersionConflict, IInv, TxInv, HeldPastLock
<1>2. /\ holder' = [holder EXCEPT ![UserOf(t)] = t]
      /\ draft'[t].entries = draft[t].entries
      /\ UNCHANGED <<stored, balances, ledger, job, seen>>
      /\ \A s \in Tx \ {t} : pc'[s] = pc[s] /\ at'[s] = at[s] /\ draft'[s] = draft[s]
  BY <1>1 DEF UpdateBalance, IInv, TypeOK
<1>3. Private(t)
  BY <1>1, <1>2 DEF Private, IInv, TypeOK
<1>4. /\ at[t] \in 1..Len(job[t].posts) /\ Len(job[t].posts) \in Nat
      /\ \/ pc'[t] = "ensure" /\ at'[t] = at[t] + 1
         \/ pc'[t] = "commit" /\ at'[t] = at[t] /\ ~(at[t] < Len(job[t].posts))
  BY <1>1, PostsType DEF UpdateBalance, IInv, TypeOK
<1>5. Inserted(t) = at[t] /\ Inserted(t)' = at[t]
  BY <1>1, <1>4 DEF Inserted
<1>6. InsertedIds(t)' = InsertedIds(t)
  BY <1>2, <1>5 DEF InsertedIds
<1>7. IdsIn(draft[t].entries) = InsertedIds(t)
  BY DEF WholeInv, InsertedIds
<1>8. pc'[t] = "commit" => at'[t] = Len(job'[t].posts)
  BY <1>2, <1>4
<1>. QED BY <1>2, <1>3, <1>6, <1>7, <1>8, PrivateWhole

LEMMA CommitWhole ==
  ASSUME IInv, WholeInv, NEW t \in Tx, Commit(t)
  PROVE  WholeInv'
<1> DEFINE u == UserOf(t)
<1>1. /\ u \in User /\ job' = job /\ at' = at
      /\ ledger' = [ledger EXCEPT ![u] = ViewOf(t)]
      /\ draft' = [draft EXCEPT ![t] = Clean]
      /\ pc[t] = "commit" /\ pc' = [pc EXCEPT ![t] = "committed"]
  BY CommitPublishes DEF Commit
<1>2. IdsIn(draft[t].entries) = IdsOf(job[t])
  <2>1. Inserted(t) = Len(job[t].posts)
    BY <1>1 DEF WholeInv, Inserted
  <2>. QED BY <2>1, PostsType DEF WholeInv, IdsOf
<1> DEFINE after == [v \in User |-> IdsIn(ledger'[v])]
           before == [v \in User |-> IdsIn(ledger[v])]
<1>3. after[u] = before[u] \cup IdsOf(job[t])
  <2>1. ledger'[u] = ViewOf(t)
    BY <1>1 DEF IInv, TypeOK
  <2>2. IdsIn(ViewOf(t)) = IdsIn(ledger[u]) \cup IdsIn(draft[t].entries)
    BY ViewType
  <2>. QED BY <1>1, <1>2, <2>1, <2>2
<1>4. \A v \in User : v # u => after[v] = before[v]
  BY <1>1 DEF IInv, TypeOK
<1>5. AllOrNothing'
  <2>1. u = job[t].user /\ job[t] \in Job
    BY PostsType DEF UserOf
  <2>2. \A j \in Job : /\ j.user \in User
                      /\ Posted(j.user) = before[j.user]
                      /\ IdsIn(ledger'[j.user]) = after[j.user]
    BY JobAssumption DEF Posted
  <2>. HIDE DEF after, before, u
  <2>3. ASSUME NEW j \in Job, NEW k \in DOMAIN j.posts, NEW l \in DOMAIN j.posts,
               j.posts[k].id \in after[j.user]
        PROVE  j.posts[l].id \in after[j.user]
    <3>1. CASE j.posts[k].id \in before[j.user]
      <4>1. j.posts[l].id \in before[j.user]
        BY <2>2, <3>1 DEF WholeInv, AllOrNothing
      <4>. QED BY <2>2, <4>1, <1>3, <1>4
    <3>2. CASE j.posts[k].id \notin before[j.user]
      <4>1. j.user = u /\ j.posts[k].id \in IdsOf(job[t])
        BY <2>2, <2>3, <3>2, <1>3, <1>4
      <4>2. j.posts[k].id \in IdsOf(j) /\ j.posts[l].id \in IdsOf(j)
        BY DEF IdsOf
      <4>3. IdsOf(j) = IdsOf(job[t])
        BY <2>1, <4>1, <4>2, IdAssumption
      <4>. QED BY <4>1, <4>2, <4>3, <1>3
    <3>. QED BY <3>1, <3>2
  <2>4. \A j \in Job :
          (\E k \in DOMAIN j.posts : j.posts[k].id \in IdsIn(ledger'[j.user]))
            => \A k \in DOMAIN j.posts : j.posts[k].id \in IdsIn(ledger'[j.user])
    BY <2>2, <2>3
  <2>. QED BY <2>4 DEF AllOrNothing, Posted, IdsIn
<1>6. ASSUME NEW s \in Tx
      PROVE  /\ IdsIn(draft'[s].entries) = InsertedIds(s)'
             /\ pc'[s] = "commit" => at'[s] = Len(job'[s].posts)
  <2>1. CASE s = t
    <3>1. draft'[t] = Clean /\ pc'[t] = "committed"
      BY <1>1 DEF IInv, TypeOK
    <3>2. InsertedIds(t)' = {}
      BY <3>1 DEF InsertedIds, Inserted
    <3>. QED BY <2>1, <3>1, <3>2, NoIds
  <2>2. CASE s # t
    <3>1. draft'[s] = draft[s] /\ pc'[s] = pc[s]
      BY <1>1, <2>2 DEF IInv, TypeOK
    <3>2. Inserted(s)' = Inserted(s)
      BY <1>1, <3>1 DEF Inserted
    <3>3. InsertedIds(s)' = InsertedIds(s)
      BY <1>1, <3>2 DEF InsertedIds
    <3>. QED BY <1>1, <3>1, <3>3 DEF WholeInv, InsertedIds
  <2>. QED BY <2>1, <2>2
<1>7. \A s \in Tx : IdsIn(draft'[s].entries) = {job'[s].posts[k].id : k \in 1..Inserted(s)'}
  BY <1>6 DEF InsertedIds
<1>. QED BY <1>5, <1>6, <1>7 DEF WholeInv

LEMMA WholeInit == Init => WholeInv
<1> SUFFICES ASSUME Init PROVE WholeInv
  OBVIOUS
<1>1. \A u \in User : Posted(u) = {}
  <2>1. \A u \in User : ledger[u] = NoEntries
    BY DEF Init
  <2>2. IdsIn(NoEntries) = {}
    BY DEF NoEntries, IdsIn
  <2>. QED BY <2>1, <2>2 DEF Posted
<1>2. AllOrNothing
  BY <1>1, JobAssumption DEF AllOrNothing
<1>3. \A t \in Tx : draft[t] = Clean /\ pc[t] = "idle" /\ Inserted(t) = 0
  BY DEF Init, Inserted
<1>4. \A t \in Tx : IdsIn(draft[t].entries) = {job[t].posts[k].id : k \in 1..Inserted(t)}
  BY <1>3, NoIds
<1>. QED BY <1>2, <1>3, <1>4 DEF WholeInv

LEMMA WholeNext ==
  ASSUME IInv, WholeInv, [Next]_vars
  PROVE  WholeInv'
<1>1. CASE UNCHANGED vars
  <2>1. pc' = pc /\ at' = at /\ ledger' = ledger /\ draft' = draft /\ job' = job
    BY <1>1 DEF vars
  <2>2. AllOrNothing'
    BY <2>1 DEF WholeInv, AllOrNothing, Posted
  <2>3. \A t \in Tx : Inserted(t)' = Inserted(t)
    BY <2>1 DEF Inserted
  <2>4. \A t \in Tx : IdsIn(draft'[t].entries) = {job'[t].posts[k].id : k \in 1..Inserted(t)'}
    BY <2>1, <2>3 DEF WholeInv
  <2>. QED BY <2>1, <2>2, <2>4 DEF WholeInv
<1>2. ASSUME NEW t \in Tx, Step(t) PROVE WholeInv'
  <2>1. CASE RejectZeroAmount(t) \/ InsufficientBalance(t) \/ DuplicateEntry(t)
    BY <2>1, RollbackWhole DEF RejectZeroAmount, InsufficientBalance, DuplicateEntry
  <2>. QED BY <1>2, <2>1, TakesWhole, InsertWhole, UpdateWhole, CommitWhole DEF Step
<1>3. ASSUME NEW t \in Tx, Fail(t) PROVE WholeInv'
  BY <1>3, RollbackWhole DEF Fail
<1>. QED BY <1>1, <1>2, <1>3, BeginWhole DEF Next

-----------------------------------------------------------------------------
(***************************************************************************)
(* No (kind, key) of a user is in the ledger twice, whatever is retried,   *)
(* raced or rolled back: post checks nothing itself and relies on the      *)
(* unique index and on the row lock taken before the insert.               *)
(***************************************************************************)
THEOREM JobsPostOnce == Spec => []PostedOnce
<1>1. Init => OnceInv
  BY OnceInit
<1>2. IInv /\ OnceInv /\ [Next]_vars => OnceInv'
  BY OnceNext
<1>3. OnceInv => PostedOnce
  BY DEF OnceInv, UniqueIds, PostedOnce
<1>. QED BY <1>1, <1>2, <1>3, Inductive, PTL DEF Spec

(***************************************************************************)
(* The posts of one transaction are in the ledger all or none.             *)
(***************************************************************************)
THEOREM JobsPostWhole == Spec => []AllOrNothing
<1>1. Init => WholeInv
  BY WholeInit
<1>2. IInv /\ WholeInv /\ [Next]_vars => WholeInv'
  BY WholeNext
<1>3. WholeInv => AllOrNothing
  BY DEF WholeInv
<1>. QED BY <1>1, <1>2, <1>3, Inductive, PTL DEF Spec

-----------------------------------------------------------------------------
(* The refinement of Wallet. *)

Adds(j, c) == Abstract!Amounts(j, c)

\* How many of its posts a transaction has added to the balances row.
Made(t) == IF pc[t] = "commit" THEN at[t] ELSE at[t] - 1

\* What the first n posts of job j add to currency c.
Partial(j, n, c) == SumFunctionOnSet(Adds(j, c), 1..n)

\* The row as its holder sees it is the committed one and the posts it made;
\* who has made one holds the row.
SumOK(t) ==
  pc[t] \in Active =>
    \A c \in Currency :
      VisibleRow(t).balance[c] = GetBalance(UserOf(t))[c] + Partial(job[t], Made(t), c)

SumInv == \A t \in Tx : SumOK(t)

LEMMA AddsType ==
  ASSUME NEW j \in Job, NEW c \in Currency
  PROVE  /\ DOMAIN j.posts = 1..Len(j.posts) /\ Len(j.posts) \in Nat
         /\ \A k \in 1..Len(j.posts) : /\ Adds(j, c)[k] \in Int
                                       /\ j.posts[k].currency = c => Adds(j, c)[k] = j.posts[k].amount
                                       /\ j.posts[k].currency # c => Adds(j, c)[k] = 0
<1>1. j.posts \in Seq([id : Id, currency : Currency, amount : Int])
  BY JobAssumption
<1>2. DOMAIN j.posts = 1..Len(j.posts) /\ Len(j.posts) \in Nat
  BY <1>1, LenProperties
<1>3. \A k \in 1..Len(j.posts) : j.posts[k] \in [id : Id, currency : Currency, amount : Int]
  BY <1>1, ElementOfSeq
<1>. QED BY <1>2, <1>3 DEF Adds, Abstract!Amounts

LEMMA PartialNone ==
  ASSUME NEW j \in Job, NEW c \in Currency
  PROVE  Partial(j, 0, c) = 0
<1>1. 1..0 = {}
  OBVIOUS
<1>. QED BY <1>1, SumOfNone DEF Partial

LEMMA PartialType ==
  ASSUME NEW j \in Job, NEW c \in Currency, NEW n \in Nat, n <= Len(j.posts)
  PROVE  /\ IsFiniteSet(1..n)
         /\ \A k \in 1..n : Adds(j, c)[k] \in Int
         /\ Partial(j, n, c) \in Int
<1>1. IsFiniteSet(1..n)
  BY FS_Interval
<1>2. ASSUME NEW k \in 1..n PROVE Adds(j, c)[k] \in Int
  <2>1. Len(j.posts) \in Nat
    BY AddsType
  <2>2. k \in 1..Len(j.posts)
    BY <2>1
  <2>. QED BY <2>2, AddsType
<1>3. \A k \in 1..n : Adds(j, c)[k] \in Int
  BY <1>2
<1>. QED BY <1>1, <1>3, SumIsInt DEF Partial

LEMMA PartialMore ==
  ASSUME NEW j \in Job, NEW c \in Currency, NEW n \in Nat, n < Len(j.posts)
  PROVE  /\ Partial(j, n + 1, c) = Partial(j, n, c) + Adds(j, c)[n + 1]
         /\ Partial(j, n, c) \in Int /\ Adds(j, c)[n + 1] \in Int
<1>1. Len(j.posts) \in Nat
  BY AddsType
<1>2. 1..(n + 1) = (1..n) \cup {n + 1} /\ n + 1 \notin 1..n
  OBVIOUS
<1>3. /\ IsFiniteSet(1..n) /\ Partial(j, n, c) \in Int
      /\ \A k \in 1..(n + 1) : Adds(j, c)[k] \in Int
  BY <1>1, PartialType
<1>4. SumFunctionOnSet(Adds(j, c), (1..n) \cup {n + 1})
        = Adds(j, c)[n + 1] + SumFunctionOnSet(Adds(j, c), 1..n)
  BY <1>2, <1>3, SumAdd
<1>5. Adds(j, c)[n + 1] \in Int
  BY <1>3
<1>6. Partial(j, n + 1, c) = Adds(j, c)[n + 1] + Partial(j, n, c)
  BY <1>2, <1>4 DEF Partial
<1>. QED BY <1>3, <1>5, <1>6

LEMMA PartialAll ==
  ASSUME NEW j \in Job, NEW c \in Currency
  PROVE  /\ Partial(j, Len(j.posts), c) = Abstract!Sum(j, c)
         /\ Abstract!Sum(j, c) \in Int
<1>1. DOMAIN j.posts = 1..Len(j.posts) /\ Len(j.posts) \in Nat
  BY AddsType
<1>2. Partial(j, Len(j.posts), c) = Abstract!Sum(j, c)
  BY <1>1 DEF Partial, Abstract!Sum, Adds, Abstract!Amounts,
     SumFunctionOnSet, FoldFunctionOnSet, MapThenFoldSet,
     Abstract!SumFunctionOnSet, Abstract!FoldFunctionOnSet, Abstract!MapThenFoldSet
<1>. QED BY <1>1, <1>2, PartialType

\* A step that leaves the committed rows alone can disturb its own row only.
LEMMA PrivateSum ==
  ASSUME IInv, SumInv, NEW t \in Tx, Private(t), SumOK(t)'
  PROVE  SumInv'
<1> SUFFICES ASSUME NEW s \in Tx \ {t} PROVE SumOK(s)'
  BY DEF SumInv
<1>1. /\ pc'[s] = pc[s] /\ job'[s] = job[s] /\ at'[s] = at[s] /\ draft'[s] = draft[s]
      /\ balances' = balances /\ UserOf(s) \in User
      /\ holder'[UserOf(s)] = s <=> holder[UserOf(s)] = s
  BY VisibleType DEF Private, IInv
<1>2. UserOf(s)' = UserOf(s) /\ Made(s)' = Made(s) /\ VisibleRow(s)' = VisibleRow(s)
  BY <1>1 DEF UserOf, Made, VisibleRow
<1>. QED BY <1>1, <1>2 DEF SumInv, SumOK, GetBalance, Partial, Adds, Abstract!Amounts

LEMMA RollbackSum ==
  ASSUME IInv, SumInv, NEW t \in Tx, Rollback(t)
  PROVE  SumInv'
<1>1. \A u \in User : holder'[u] = IF holder[u] = t THEN NoTx ELSE holder[u]
  BY DEF IInv, Rollback, TypeOK
<1>2. Private(t)
  BY <1>1, NoTxAssumption DEF IInv, Private, Rollback, TypeOK
<1>3. pc'[t] = "aborted"
  BY DEF IInv, Rollback, TypeOK
<1>. QED BY <1>2, <1>3, PrivateSum DEF SumOK, Active, InPost

LEMMA BeginSum ==
  ASSUME IInv, SumInv, NEW t \in Tx, NEW j \in Job, Begin(t, j)
  PROVE  SumInv'
<1>1. Private(t)
  BY DEF IInv, Private, Begin, TypeOK
<1>2. /\ pc'[t] = "ensure" /\ job'[t] = j /\ at'[t] = 1
      /\ holder' = holder /\ balances' = balances /\ j.user \in User
      /\ \A u \in User : holder[u] # t
  BY NothingHeld, JobAssumption DEF IInv, Begin, TypeOK
<1>3. UserOf(t)' = j.user /\ Made(t)' = 0 /\ VisibleRow(t)' = balances[j.user]
  BY <1>2 DEF UserOf, Made, VisibleRow
<1>4. ASSUME NEW c \in Currency
      PROVE  balances[j.user].balance[c] = balances[j.user].balance[c] + Partial(j, 0, c)
  <2>1. balances[j.user].balance[c] \in Int
    BY <1>2 DEF IInv, TypeOK, Row
  <2>. QED BY <2>1, PartialNone
<1>5. SumOK(t)'
  BY <1>2, <1>3, <1>4 DEF SumOK, GetBalance, Partial, Adds, Abstract!Amounts
<1>. QED BY <1>1, <1>5, PrivateSum

\* Until it has written to the row its holder sees what is committed.
LEMMA TakesSum ==
  ASSUME IInv, SumInv, NEW t \in Tx, EnsureBalanceRow(t) \/ LockBalanceRow(t)
  PROVE  SumInv'
<1> DEFINE u == UserOf(t)
<1>1. /\ u \in User /\ u' = u /\ balances' = balances /\ job' = job /\ at' = at
      /\ pc[t] \in Active /\ Made(t)' = Made(t) /\ pc[t] # "commit"
  BY VisibleType
     DEF IInv, TypeOK, EnsureBalanceRow, LockBalanceRow, UserOf, Made, Active, InPost
<1>2. Private(t)
  BY <1>1, NoTxAssumption DEF IInv, Private, EnsureBalanceRow, LockBalanceRow, TypeOK, RowFree
<1>3. VisibleRow(t)' = VisibleRow(t)
  <2>1. CASE LockBalanceRow(t)
    BY <1>1, <2>1 DEF LockBalanceRow, VisibleRow, IInv, TypeOK
  <2>2. CASE EnsureBalanceRow(t) /\ holder' = holder
    BY <1>1, <2>2 DEF EnsureBalanceRow, VisibleRow
  <2>3. CASE EnsureBalanceRow(t) /\ holder' # holder
    <3>1. u \notin stored /\ holder' = [holder EXCEPT ![u] = t] /\ draft' = draft
      BY <2>3 DEF EnsureBalanceRow
    <3>2. holder[u] # t
      BY <1>1, <2>3, <3>1 DEF IInv, TypeOK
    <3>3. draft[t] = Clean /\ balances[u] = ZeroRow
      BY <1>1, <3>1, <3>2 DEF IInv, TxInv, NothingWithoutLock, UserInv, NothingWithoutRow
    <3>. QED BY <1>1, <3>1, <3>2, <3>3 DEF VisibleRow, Clean, IInv, TypeOK
  <2>. QED BY <2>1, <2>2, <2>3
<1>4. SumOK(t)'
  BY <1>1, <1>3 DEF SumInv, SumOK, GetBalance, Partial, Adds, Abstract!Amounts
<1>. QED BY <1>2, <1>4, PrivateSum

LEMMA InsertSum ==
  ASSUME IInv, SumInv, NEW t \in Tx, InsertLedgerRow(t)
  PROVE  SumInv'
<1>1. Private(t)
  BY DEF IInv, Private, InsertLedgerRow, TypeOK
<1>2. /\ pc[t] = "insert" /\ pc'[t] = "update" /\ holder[UserOf(t)] = t
      /\ UNCHANGED <<balances, holder, job, at>>
      /\ draft'[t].row = draft[t].row
  BY DEF InsertLedgerRow, IInv, TypeOK, TxInv, HeldPastLock
<1>3. UserOf(t)' = UserOf(t) /\ Made(t)' = Made(t) /\ VisibleRow(t)' = VisibleRow(t)
  BY <1>2 DEF UserOf, Made, VisibleRow
<1>4. SumOK(t)'
  BY <1>2, <1>3
     DEF SumInv, SumOK, GetBalance, Partial, Adds, Abstract!Amounts, Active, InPost
<1>. QED BY <1>1, <1>4, PrivateSum

LEMMA UpdateSum ==
  ASSUME IInv, SumInv, NEW t \in Tx, UpdateBalance(t)
  PROVE  SumInv'
<1> DEFINE u == UserOf(t)
           j == job[t]
           n == at[t] - 1
           v == VisibleRow(t)
<1>1. /\ v.version = seen[t].version /\ holder[u] = t /\ u \in User /\ v \in Row
  BY ReadIsUpdated, VisibleType
     DEF UpdateBalance, NoVersionConflict, IInv, TxInv, HeldPastLock
<1>2. /\ pc[t] = "update" /\ holder' = [holder EXCEPT ![u] = t]
      /\ draft'[t].row.balance = [v.balance EXCEPT ![Input(t).currency] = @ + Input(t).amount]
      /\ UNCHANGED <<stored, balances, ledger, job, seen>>
      /\ \A s \in Tx \ {t} : pc'[s] = pc[s] /\ at'[s] = at[s] /\ draft'[s] = draft[s]
  <2> DEFINE row == [balance |-> [v.balance EXCEPT ![Input(t).currency] = @ + Input(t).amount],
                     version |-> v.version + 1]
  <2>1. /\ pc[t] = "update" /\ holder' = [holder EXCEPT ![u] = t]
        /\ draft' = [draft EXCEPT ![t].row = row]
        /\ UNCHANGED <<stored, balances, ledger, job, seen>>
        /\ \A s \in Tx \ {t} : pc'[s] = pc[s] /\ at'[s] = at[s]
    BY <1>1 DEF UpdateBalance, IInv, TypeOK
  <2>. HIDE DEF row
  <2>2. draft'[t].row = row /\ \A s \in Tx \ {t} : draft'[s] = draft[s]
    BY <2>1 DEF IInv, TypeOK
  <2>3. row.balance = [v.balance EXCEPT ![Input(t).currency] = @ + Input(t).amount]
    BY DEF row
  <2>. QED BY <2>1, <2>2, <2>3
<1>3. Private(t)
  BY <1>1, <1>2 DEF Private, IInv, TypeOK
<1>4. /\ j \in Job /\ at[t] \in 1..Len(j.posts) /\ Len(j.posts) \in Nat
      /\ n \in Nat /\ n < Len(j.posts) /\ n + 1 = at[t]
  BY PostsType
<1>5. Made(t)' = n + 1 /\ Made(t) = n /\ u' = u /\ holder'[u] = t
  BY <1>1, <1>2, <1>4 DEF UpdateBalance, Made, IInv, TypeOK, UserOf
<1>6. ASSUME NEW c \in Currency
      PROVE  draft'[t].row.balance[c] = balances[u].balance[c] + Partial(j, n + 1, c)
  <2>1. v.balance[c] = balances[u].balance[c] + Partial(j, n, c)
    BY <1>2, <1>5 DEF SumInv, SumOK, GetBalance, Active, InPost
  <2>2. /\ Partial(j, n + 1, c) = Partial(j, n, c) + Adds(j, c)[n + 1]
        /\ Partial(j, n, c) \in Int /\ Adds(j, c)[n + 1] \in Int
    BY <1>4, PartialMore
  <2>3. draft'[t].row.balance[c] = v.balance[c] + Adds(j, c)[n + 1]
    <3>1. Input(t).amount \in Int /\ Input(t).currency \in Currency /\ v.balance \in [Currency -> Int]
      BY <1>1, InputType DEF IInv, Row
    <3>2. Input(t) = j.posts[n + 1]
      BY <1>4 DEF Input
    <3>3. Adds(j, c)[n + 1] = IF Input(t).currency = c THEN Input(t).amount ELSE 0
      BY <1>4, <3>2, AddsType
    <3>. QED BY <1>2, <3>1, <3>3
  <2>4. balances[u].balance[c] \in Int
    BY <1>1 DEF IInv, TypeOK, Row
  <2>. QED BY <2>1, <2>2, <2>3, <2>4
<1>7. SumOK(t)'
  <2>1. VisibleRow(t)' = draft'[t].row
    BY <1>5 DEF VisibleRow
  <2>. QED BY <1>2, <1>5, <1>6, <2>1
           DEF SumOK, GetBalance, Partial, Adds, Abstract!Amounts
<1>. QED BY <1>3, <1>7, PrivateSum

LEMMA CommitSum ==
  ASSUME IInv, SumInv, NEW t \in Tx, Commit(t)
  PROVE  SumInv'
<1> DEFINE u == UserOf(t)
<1>1. /\ holder[u] = t /\ u \in User /\ job' = job /\ at' = at
      /\ holder' = [holder EXCEPT ![u] = NoTx]
      /\ draft' = [draft EXCEPT ![t] = Clean]
  BY CommitPublishes DEF Commit
<1>2. /\ balances' = [balances EXCEPT ![u] = VisibleRow(t)]
      /\ pc' = [pc EXCEPT ![t] = "committed"]
  BY DEF Commit
<1> SUFFICES ASSUME NEW s \in Tx PROVE SumOK(s)'
  BY DEF SumInv
<1>3. CASE s = t
  BY <1>2, <1>3 DEF SumOK, IInv, TypeOK, Active, InPost
<1>4. CASE s # t
  <2>1. /\ pc'[s] = pc[s] /\ UserOf(s)' = UserOf(s) /\ UserOf(s) \in User
        /\ Made(s)' = Made(s) /\ draft'[s] = draft[s]
    BY <1>1, <1>2, <1>4, VisibleType DEF IInv, TypeOK, UserOf, Made
  <2>2. CASE UserOf(s) # u
    <3>1. VisibleRow(s)' = VisibleRow(s) /\ balances'[UserOf(s)] = balances[UserOf(s)]
      BY <1>1, <1>2, <2>1, <2>2 DEF VisibleRow, IInv, TypeOK
    <3>. QED BY <1>1, <2>1, <3>1
             DEF SumInv, SumOK, GetBalance, Partial, Adds, Abstract!Amounts
  <2>3. CASE UserOf(s) = u
    <3>1. VisibleRow(s)' = balances'[u] /\ VisibleRow(s) = balances[u]
      BY <1>1, <1>2, <1>4, <2>1, <2>3, NoTxAssumption DEF VisibleRow, IInv, TypeOK
    <3>2. balances'[u] = VisibleRow(t) /\ VisibleRow(t) \in Row /\ balances[u] \in Row
      BY <1>1, <1>2, VisibleType DEF IInv, TypeOK
    <3>3. ASSUME pc[s] \in Active, NEW c \in Currency PROVE Partial(job[s], Made(s), c) = 0
      <4>1. balances[u].balance[c] = balances[u].balance[c] + Partial(job[s], Made(s), c)
        BY <2>3, <3>1, <3>3 DEF SumInv, SumOK, GetBalance
      <4>2. Partial(job[s], Made(s), c) \in Int
        <5>1. job[s] \in Job /\ Made(s) \in Nat /\ Made(s) <= Len(job[s].posts)
          BY PostsType DEF Made
        <5>. QED BY <5>1, PartialType
      <4>. QED BY <3>2, <4>1, <4>2 DEF Row
    <3>. QED BY <1>1, <2>1, <2>3, <3>1, <3>2, <3>3
             DEF SumOK, GetBalance, Partial, Adds, Abstract!Amounts, Row
  <2>. QED BY <2>2, <2>3
<1>. QED BY <1>3, <1>4

LEMMA SumInit == Init => SumInv
BY DEF Init, SumInv, SumOK, Active, InPost

LEMMA SumNext ==
  ASSUME IInv, SumInv, [Next]_vars
  PROVE  SumInv'
<1>1. CASE UNCHANGED vars
  BY <1>1 DEF vars, SumInv, SumOK, VisibleRow, GetBalance, UserOf, Partial, Made, Adds, Abstract!Amounts
<1>2. ASSUME NEW t \in Tx, Step(t) PROVE SumInv'
  <2>1. CASE RejectZeroAmount(t) \/ InsufficientBalance(t) \/ DuplicateEntry(t)
    BY <2>1, RollbackSum DEF RejectZeroAmount, InsufficientBalance, DuplicateEntry
  <2>. QED BY <1>2, <2>1, TakesSum, InsertSum, UpdateSum, CommitSum DEF Step
<1>3. ASSUME NEW t \in Tx, Fail(t) PROVE SumInv'
  BY <1>3, RollbackSum DEF Fail
<1>. QED BY <1>1, <1>2, <1>3, BeginSum DEF Next

\* Where the elements of two sequences are in their concatenation.
LEMMA ConcatPlaces ==
  ASSUME NEW s \in Seq(Entry), NEW d \in Seq(Entry)
  PROVE  /\ \A i \in DOMAIN s : i \in DOMAIN (s \o d) /\ (s \o d)[i] = s[i]
         /\ \A k \in DOMAIN d : \E i \in DOMAIN (s \o d) : i \notin DOMAIN s /\ (s \o d)[i] = d[k]
<1> DEFINE r == s \o d
           m == Len(s)
           n == Len(d)
<1>1. /\ m \in Nat /\ n \in Nat /\ DOMAIN s = 1..m /\ DOMAIN d = 1..n
      /\ DOMAIN r = 1..(m + n)
      /\ \A i \in 1..(m + n) : r[i] = IF i <= m THEN s[i] ELSE d[i - m]
  BY ConcatProperties, LenProperties
<1>. HIDE DEF r, m, n
<1>2. ASSUME NEW k \in DOMAIN s PROVE k \in DOMAIN r /\ r[k] = s[k]
  BY <1>1
<1>3. ASSUME NEW k \in DOMAIN d
      PROVE  k + m \in DOMAIN r /\ k + m \notin DOMAIN s /\ r[k + m] = d[k]
  BY <1>1
<1>. QED BY <1>2, <1>3 DEF r

\* A row of the holder's is not committed yet: the unique index tells them apart.
LEMMA NewIds ==
  ASSUME IInv, OnceInv, NEW t \in Tx, holder[UserOf(t)] = t
  PROVE  IdsIn(ledger[UserOf(t)]) \cap IdsIn(draft[t].entries) = {}
<1> DEFINE old == ledger[UserOf(t)]
           new == draft[t].entries
           all == ViewOf(t)
<1>1. old \in Book /\ new \in Book /\ UniqueIds(all)
  BY ViewType DEF OnceInv
<1>2. \A c \in Currency : all[c] = old[c] \o new[c]
  BY DEF ViewOf, View
<1>. HIDE DEF old, new, all
<1>3. ASSUME NEW c \in Currency
      PROVE  /\ \A i \in DOMAIN old[c] : i \in DOMAIN all[c] /\ all[c][i] = old[c][i]
             /\ \A k \in DOMAIN new[c] :
                  \E i \in DOMAIN all[c] : i \notin DOMAIN old[c] /\ all[c][i] = new[c][k]
  <2>1. old[c] \in Seq(Entry) /\ new[c] \in Seq(Entry)
    BY <1>1 DEF Book
  <2> DEFINE a == old[c]
             b == new[c]
  <2>. HIDE DEF a, b
  <2>2. /\ \A i \in DOMAIN a : i \in DOMAIN (a \o b) /\ (a \o b)[i] = a[i]
        /\ \A k \in DOMAIN b : \E i \in DOMAIN (a \o b) : i \notin DOMAIN a /\ (a \o b)[i] = b[k]
    BY <2>1, ConcatPlaces DEF a, b
  <2>3. a \o b = all[c]
    BY <1>2 DEF a, b
  <2>. QED BY <2>2, <2>3 DEF a, b
<1> SUFFICES ASSUME NEW x \in IdsIn(old), x \in IdsIn(new) PROVE FALSE
  BY DEF old, new
<1>4. PICK c \in Currency : \E i \in DOMAIN old[c] : old[c][i].id = x
  BY DEF IdsIn
<1>5. PICK i \in DOMAIN all[c] : i \in DOMAIN old[c] /\ all[c][i].id = x
  BY <1>3, <1>4
<1>6. PICK d \in Currency : \E k \in DOMAIN new[d] : new[d][k].id = x
  BY DEF IdsIn
<1>7. PICK k \in DOMAIN all[d] : k \notin DOMAIN old[d] /\ all[d][k].id = x
  BY <1>3, <1>6
<1>8. c = d /\ i = k
  BY <1>1, <1>5, <1>7 DEF UniqueIds
<1>. QED BY <1>5, <1>7, <1>8

\* A commit is the one step of the abstract wallet: its whole job is applied.
LEMMA CommitApplies ==
  ASSUME IInv, OnceInv, WholeInv, SumInv, NEW t \in Tx, Commit(t)
  PROVE  Abstract!Apply(job[t])
<1> DEFINE u == UserOf(t)
           j == job[t]
<1>1. /\ holder[u] = t /\ u \in User /\ j \in Job /\ u = j.user
      /\ ledger' = [ledger EXCEPT ![u] = ViewOf(t)]
  BY CommitPublishes, PostsType DEF UserOf
<1>2. /\ balances' = [balances EXCEPT ![u] = VisibleRow(t)]
      /\ pc[t] = "commit" /\ VisibleRow(t) \in Row
  BY VisibleType DEF Commit, IInv
<1>3. at[t] = Len(j.posts) /\ Made(t) = Len(j.posts) /\ Inserted(t) = Len(j.posts)
  BY <1>2 DEF WholeInv, Made, Inserted
<1>4. IdsIn(draft[t].entries) = Abstract!Ids(j)
  <2>1. DOMAIN j.posts = 1..Len(j.posts)
    BY <1>1, AddsType
  <2>2. IdsIn(draft[t].entries) = {j.posts[k].id : k \in 1..Len(j.posts)}
    BY <1>3 DEF WholeInv
  <2>. QED BY <2>1, <2>2 DEF Abstract!Ids
<1>5. Abstract!Ids(j) \cap Posted(u) = {}
  BY <1>1, <1>4, NewIds DEF Posted
<1>6. ASSUME NEW c \in Currency
      PROVE  /\ VisibleRow(t).balance[c] = GetBalance(u)[c] + Abstract!Sum(j, c)
             /\ VisibleRow(t).balance[c] >= 0
  <2>1. VisibleRow(t).balance[c] = GetBalance(u)[c] + Abstract!Sum(j, c)
    <3>1. Partial(j, Made(t), c) = Abstract!Sum(j, c)
      BY <1>1, <1>3, PartialAll
    <3>. QED BY <1>2, <3>1 DEF SumInv, SumOK, Active
  <2>2. NeverOverdrawn'
    <3>1. IInv'
      BY NextInv DEF Next, Step
    <3>. QED BY <3>1, NothingNegative, PTL
  <2>3. balances'[u].balance[c] >= 0
    BY <1>1, <2>2 DEF NeverOverdrawn, GetBalance
  <2>4. balances'[u] = VisibleRow(t)
    BY <1>1, <1>2 DEF IInv, TypeOK
  <2>. QED BY <2>1, <2>3, <2>4
<1> DEFINE b == [v \in User |-> GetBalance(v)]
           a == [v \in User |-> Posted(v)]
<1>7. b' = [b EXCEPT ![u] = [c \in Currency |-> b[u][c] + Abstract!Sum(j, c)]]
  <2>1. VisibleRow(t).balance = [c \in Currency |-> b[u][c] + Abstract!Sum(j, c)]
    BY <1>1, <1>2, <1>6 DEF Row
  <2>2. ASSUME NEW v \in User
        PROVE  b'[v] = IF v = u THEN VisibleRow(t).balance ELSE b[v]
    BY <1>1, <1>2 DEF GetBalance, IInv, TypeOK
  <2>. QED BY <2>1, <2>2
<1>8. a' = [a EXCEPT ![u] = a[u] \cup Abstract!Ids(j)]
  <2>1. IdsIn(ViewOf(t)) = Posted(u) \cup Abstract!Ids(j)
    BY <1>4, ViewType DEF Posted
  <2>2. ASSUME NEW v \in User
        PROVE  a'[v] = IF v = u THEN IdsIn(ViewOf(t)) ELSE a[v]
    <3>1. ledger'[v] = IF v = u THEN ViewOf(t) ELSE ledger[v]
      BY <1>1 DEF IInv, TypeOK
    <3>. QED BY <3>1 DEF Posted, IdsIn
  <2>. QED BY <2>1, <2>2
<1>. QED BY <1>1, <1>5, <1>6, <1>7, <1>8 DEF Abstract!Apply

(***************************************************************************)
(* The ledger implements the one-step wallet: a commit applies the whole   *)
(* job of the transaction once, every other step changes nothing a caller  *)
(* can see.                                                                *)
(***************************************************************************)
THEOREM LedgerIsWallet == Spec => ImplementsWallet
<1> DEFINE I == IInv /\ OnceInv /\ WholeInv /\ SumInv
<1>1. Init => I
  BY InitInv, OnceInit, WholeInit, SumInit
<1>2. I /\ [Next]_vars => I'
  BY NextInv, OnceNext, WholeNext, SumNext
<1>3. Init => Abstract!Init
  BY DEF Init, Abstract!Init, GetBalance, Posted, IdsIn, ZeroRow, NoEntries
<1>4. ASSUME I, [Next]_vars
      PROVE  [Abstract!Next]_(Abstract!vars)
  <2>1. ASSUME NEW t \in Tx, Commit(t) PROVE Abstract!Next
    BY <1>4, <2>1, CommitApplies, PostsType DEF Abstract!Next
  <2>2. (\E t \in Tx : Commit(t)) \/ UNCHANGED <<balances, ledger>>
    BY <1>4 DEF Next, vars, Step, Fail, Rollback, Begin, RejectZeroAmount, EnsureBalanceRow,
       LockBalanceRow, InsufficientBalance, InsertLedgerRow, DuplicateEntry, UpdateBalance
  <2>3. UNCHANGED <<balances, ledger>> => UNCHANGED Abstract!vars
    BY DEF Abstract!vars, GetBalance, Posted, IdsIn
  <2>. QED BY <2>1, <2>2, <2>3
<1>5. I /\ [Next]_vars => [Abstract!Next]_(Abstract!vars)
  BY <1>4
<1>. HIDE DEF I
<1>. QED BY <1>1, <1>2, <1>3, <1>5, PTL DEF Spec, ImplementsWallet, Abstract!Spec
=============================================================================
