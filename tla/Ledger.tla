-------------------------------- MODULE Ledger --------------------------------
(***************************************************************************)
(* The wallet ledger: wallet/ledger.service.ts.  Every movement of money   *)
(* is a LedgerService.post inside a database transaction opened by the     *)
(* caller (a deposit webhook, a bet, a bonus claim, ...).  A job is what   *)
(* one such transaction posts, in order, for one user; a job is tried      *)
(* again after a failure, or after a commit whose answer was lost.         *)
(*                                                                         *)
(* Postgres runs these transactions at READ COMMITTED.  What the model     *)
(* keeps of it: a statement sees committed rows and the transaction's own  *)
(* writes; SELECT .. FOR UPDATE and UPDATE wait for the row's lock, then   *)
(* see the row as last committed; an INSERT .. ON CONFLICT DO NOTHING      *)
(* waits for an uncommitted insert of the same key; locks are held to the  *)
(* end of the transaction.                                                 *)
(***************************************************************************)
EXTENDS Integers, Sequences

CONSTANTS User, Currency, Tx, NoTx,
          Id,    \* what the unique index tells apart: (kind, idempotency_key)
          Job    \* [user |-> u, posts |-> sequence of [id, currency, amount]]

ASSUME NoTxAssumption == NoTx \notin Tx

\* input.idempotencyKey is given by every caller, hence never NULL.
ASSUME JobAssumption ==
  \A j \in Job : /\ j.user \in User
                 /\ j.posts \in Seq([id : Id, currency : Currency, amount : Int])
                 /\ Len(j.posts) > 0

IdsOf(j) == {j.posts[k].id : k \in DOMAIN j.posts}

\* Keys are made from the intent, the entry or the day: two jobs of a user
\* that have one in common are attempts at the same thing.
ASSUME IdAssumption ==
  \A i, j \in Job : i.user = j.user /\ IdsOf(i) \cap IdsOf(j) # {} => IdsOf(i) = IdsOf(j)

VARIABLES
  stored,   \* users whose balances row is committed
  balances, \* committed balances row of each user (zeros when not stored)
  ledger,   \* committed wallet_ledger rows of each user and currency
  holder,   \* the transaction that holds the user's balances row, or NoTx
  pc, job,  \* where each transaction is, and its job
  at,       \* the post it is at
  seen,     \* the row read FOR UPDATE by that post
  draft     \* what it wrote and has not committed: its row, its ledger rows

vars == <<stored, balances, ledger, holder, pc, job, at, seen, draft>>

Row == [balance : [Currency -> Int], version : Nat]
Entry == [id : Id, amount : Int, after : Int]

ZeroRow == [balance |-> [c \in Currency |-> 0], version |-> 0]
NoEntries == [c \in Currency |-> <<>>]
Clean == [row |-> ZeroRow, entries |-> NoEntries]

Ended == {"idle", "committed", "aborted"}
InPost == {"ensure", "lock", "insert", "update"}
Active == InPost \cup {"commit"}

TypeOK ==
  /\ stored \subseteq User
  /\ balances \in [User -> Row]
  /\ ledger \in [User -> [Currency -> Seq(Entry)]]
  /\ holder \in [User -> Tx \cup {NoTx}]
  /\ pc \in [Tx -> Ended \cup Active]
  /\ job \in [Tx -> Job]
  /\ at \in [Tx -> Nat] /\ \A t \in Tx : at[t] \in 1..Len(job[t].posts)
  /\ seen \in [Tx -> Row]
  /\ draft \in [Tx -> [row : Row, entries : [Currency -> Seq(Entry)]]]

Init ==
  /\ stored = {}
  /\ balances = [u \in User |-> ZeroRow]
  /\ ledger = [u \in User |-> NoEntries]
  /\ holder = [u \in User |-> NoTx]
  /\ pc = [t \in Tx |-> "idle"]
  /\ job \in [Tx -> Job]
  /\ at = [t \in Tx |-> 1]
  /\ seen = [t \in Tx |-> ZeroRow]
  /\ draft = [t \in Tx |-> Clean]

-----------------------------------------------------------------------------
UserOf(t) == job[t].user
Input(t) == job[t].posts[at[t]]

\* The balances row as t's next statement sees it: its own write, or the
\* last committed one.
VisibleRow(t) ==
  IF holder[UserOf(t)] = t THEN draft[t].row ELSE balances[UserOf(t)]

RowFree(t) == holder[UserOf(t)] \in {NoTx, t}

\* getBalance, read by anyone on a connection of its own.
GetBalance(u) == balances[u].balance

\* Bug: the connection goes back to the pool without a ROLLBACK.
Rollback_KeepsLock(t) ==
  /\ pc' = [pc EXCEPT ![t] = "aborted"]
  /\ UNCHANGED <<stored, balances, ledger, holder, job, at, seen, draft>>

\* ROLLBACK: an exception leaves the transaction callback.
Rollback(t) ==
  /\ pc' = [pc EXCEPT ![t] = "aborted"]
  /\ holder' = [u \in User |-> IF holder[u] = t THEN NoTx ELSE holder[u]]
  /\ draft' = [draft EXCEPT ![t] = Clean]
  /\ UNCHANGED <<stored, balances, ledger, job, at, seen>>

-----------------------------------------------------------------------------
\* Bug: a retry goes on at the post that failed.
Begin_Resumes(t, j) ==
  /\ pc[t] \in Ended
  /\ pc' = [pc EXCEPT ![t] = "ensure"]
  /\ job' = [job EXCEPT ![t] = j]
  /\ at' = [at EXCEPT ![t] = IF job[t] = j THEN @ ELSE 1]
  /\ UNCHANGED <<stored, balances, ledger, holder, seen, draft>>

Begin(t, j) ==
  /\ pc[t] \in Ended
  /\ pc' = [pc EXCEPT ![t] = "ensure"]
  /\ job' = [job EXCEPT ![t] = j]
  /\ at' = [at EXCEPT ![t] = 1]
  /\ UNCHANGED <<stored, balances, ledger, holder, seen, draft>>

RejectZeroAmount(t) ==
  /\ pc[t] = "ensure"
  /\ Input(t).amount = 0
  /\ Rollback(t)

\* INSERT .. ON CONFLICT DO NOTHING: without a row it inserts one, which
\* locks it; with a committed row it neither waits nor writes.
EnsureBalanceRow(t) ==
  /\ pc[t] = "ensure"
  /\ Input(t).amount # 0
  /\ \/ /\ UserOf(t) \in stored
        /\ UNCHANGED holder
     \/ /\ UserOf(t) \notin stored
        /\ RowFree(t)
        /\ holder' = [holder EXCEPT ![UserOf(t)] = t]
  /\ pc' = [pc EXCEPT ![t] = "lock"]
  /\ UNCHANGED <<stored, balances, ledger, job, at, seen, draft>>

NextBalance(t) == VisibleRow(t).balance[Input(t).currency] + Input(t).amount

\* Bug: the row is read without FOR UPDATE.
LockBalanceRow_NoForUpdate(t) ==
  /\ pc[t] = "lock"
  /\ NextBalance(t) >= 0
  /\ seen' = [seen EXCEPT ![t] = VisibleRow(t)]
  /\ pc' = [pc EXCEPT ![t] = "insert"]
  /\ UNCHANGED <<stored, balances, ledger, holder, job, at, draft>>

\* Bug: the overdraft check is missing.
LockBalanceRow_Unchecked(t) ==
  /\ pc[t] = "lock"
  /\ RowFree(t)
  /\ holder' = [holder EXCEPT ![UserOf(t)] = t]
  /\ seen' = [seen EXCEPT ![t] = VisibleRow(t)]
  /\ draft' = [draft EXCEPT ![t].row = VisibleRow(t)]
  /\ pc' = [pc EXCEPT ![t] = "insert"]
  /\ UNCHANGED <<stored, balances, ledger, job, at>>

\* SELECT .. FOR UPDATE, then the overdraft check on the row it returned.
LockBalanceRow(t) ==
  /\ pc[t] = "lock"
  /\ RowFree(t)
  /\ NextBalance(t) >= 0
  /\ holder' = [holder EXCEPT ![UserOf(t)] = t]
  /\ seen' = [seen EXCEPT ![t] = VisibleRow(t)]
  /\ draft' = [draft EXCEPT ![t].row = VisibleRow(t)]
  /\ pc' = [pc EXCEPT ![t] = "insert"]
  /\ UNCHANGED <<stored, balances, ledger, job, at>>

InsufficientBalance(t) ==
  /\ pc[t] = "lock"
  /\ RowFree(t)
  /\ NextBalance(t) < 0
  /\ Rollback(t)

IdsIn(entries) == UNION {{entries[c][k].id : k \in DOMAIN entries[c]} : c \in Currency}

\* Bug: the unique index is missing.
Duplicate_NoIndex(t) == FALSE

\* The unique index wallet_ledger_idem_uq (user_id, kind, idempotency_key).
Duplicate(t) ==
  Input(t).id \in IdsIn(ledger[UserOf(t)]) \cup IdsIn(draft[t].entries)

\* Bug: balance_after is computed from getBalance, on another connection.
InsertLedgerRow_CommittedRead(t) ==
  /\ pc[t] = "insert"
  /\ ~Duplicate(t)
  /\ LET c == Input(t).currency
         entry == [id |-> Input(t).id, amount |-> Input(t).amount,
                   after |-> GetBalance(UserOf(t))[c] + Input(t).amount]
     IN draft' = [draft EXCEPT ![t].entries[c] = Append(@, entry)]
  /\ pc' = [pc EXCEPT ![t] = "update"]
  /\ UNCHANGED <<stored, balances, ledger, holder, job, at, seen>>

InsertLedgerRow(t) ==
  /\ pc[t] = "insert"
  /\ ~Duplicate(t)
  /\ LET c == Input(t).currency
         entry == [id |-> Input(t).id, amount |-> Input(t).amount,
                   after |-> seen[t].balance[c] + Input(t).amount]
     IN draft' = [draft EXCEPT ![t].entries[c] = Append(@, entry)]
  /\ pc' = [pc EXCEPT ![t] = "update"]
  /\ UNCHANGED <<stored, balances, ledger, holder, job, at, seen>>

DuplicateEntry(t) ==
  /\ pc[t] = "insert"
  /\ Duplicate(t)
  /\ Rollback(t)

\* Bug: off by one, a post after the last.
UpdateBalance_OneMore(t) ==
  /\ pc[t] = "update"
  /\ at' = [at EXCEPT ![t] = @ + 1]
  /\ pc' = [pc EXCEPT ![t] = IF at[t] <= Len(job[t].posts) THEN "ensure" ELSE "commit"]
  /\ UNCHANGED <<stored, balances, ledger, holder, job, seen, draft>>

\* UPDATE .. SET balance = balance + amount, version = version + 1
\* WHERE version = row.version; no row updated is an error.
UpdateBalance(t) ==
  /\ pc[t] = "update"
  /\ RowFree(t)
  /\ IF VisibleRow(t).version = seen[t].version
     THEN /\ holder' = [holder EXCEPT ![UserOf(t)] = t]
          /\ draft' = [draft EXCEPT ![t].row =
                 [balance |-> [VisibleRow(t).balance EXCEPT ![Input(t).currency] = @ + Input(t).amount],
                  version |-> VisibleRow(t).version + 1]]
          /\ IF at[t] < Len(job[t].posts)
             THEN /\ at' = [at EXCEPT ![t] = @ + 1]
                  /\ pc' = [pc EXCEPT ![t] = "ensure"]
             ELSE /\ pc' = [pc EXCEPT ![t] = "commit"]
                  /\ UNCHANGED at
          /\ UNCHANGED <<stored, balances, ledger, job, seen>>
     ELSE Rollback(t)

\* Bug: each post is a transaction of its own.
Commit_PerPost(t) ==
  LET u == UserOf(t) IN
  /\ pc[t] = "commit" \/ (pc[t] = "ensure" /\ at[t] > 1)
  /\ stored' = stored \cup {u}
  /\ balances' = [balances EXCEPT ![u] = VisibleRow(t)]
  /\ ledger' = [ledger EXCEPT ![u] = [c \in Currency |-> @[c] \o draft[t].entries[c]]]
  /\ holder' = [holder EXCEPT ![u] = NoTx]
  /\ draft' = [draft EXCEPT ![t] = Clean]
  /\ pc' = [pc EXCEPT ![t] = IF @ = "commit" THEN "committed" ELSE @]
  /\ UNCHANGED <<job, at, seen>>

Commit(t) ==
  LET u == UserOf(t) IN
  /\ pc[t] = "commit"
  /\ stored' = stored \cup {u}
  /\ balances' = [balances EXCEPT ![u] = VisibleRow(t)]
  /\ ledger' = [ledger EXCEPT ![u] = [c \in Currency |-> @[c] \o draft[t].entries[c]]]
  /\ holder' = [holder EXCEPT ![u] = NoTx]
  /\ draft' = [draft EXCEPT ![t] = Clean]
  /\ pc' = [pc EXCEPT ![t] = "committed"]
  /\ UNCHANGED <<job, at, seen>>

\* The caller throws between two statements, or the process or its
\* connection dies: Postgres rolls back.
Fail(t) ==
  /\ pc[t] \in Active
  /\ Rollback(t)

Step(t) ==
  \/ RejectZeroAmount(t)
  \/ EnsureBalanceRow(t)
  \/ LockBalanceRow(t)
  \/ InsufficientBalance(t)
  \/ InsertLedgerRow(t)
  \/ DuplicateEntry(t)
  \/ UpdateBalance(t)
  \/ Commit(t)

Next == \E t \in Tx : \/ Step(t)
                      \/ Fail(t)
                      \/ \E j \in Job : Begin(t, j)

Spec == Init /\ [][Next]_vars
FairSpec == Spec /\ \A t \in Tx : SF_vars(Step(t))

-----------------------------------------------------------------------------
Posted(u) == IdsIn(ledger[u])

Chained(s) ==
  \A k \in 1..Len(s) : s[k].after = s[k].amount + (IF k = 1 THEN 0 ELSE s[k - 1].after)

Final(s) == IF s = <<>> THEN 0 ELSE s[Len(s)].after

(***************************************************************************)
(* The balance a reader gets is the one the ledger explains: each ledger   *)
(* row's balance_after is its predecessor's plus its own amount, and the   *)
(* last one is the balance.  Concurrent posts, retries and rollbacks must  *)
(* not lose or double an update of post's read-then-write.                 *)
(***************************************************************************)
LedgerExplainsBalance ==
  \A u \in User, c \in Currency :
    /\ Chained(ledger[u][c])
    /\ GetBalance(u)[c] = Final(ledger[u][c])

(***************************************************************************)
(* No balance, present or recorded in balance_after, is ever negative:     *)
(* the check in post is made on a row that cannot change before the write. *)
(***************************************************************************)
NeverOverdrawn ==
  \A u \in User, c \in Currency :
    /\ GetBalance(u)[c] >= 0
    /\ \A k \in DOMAIN ledger[u][c] : ledger[u][c][k].after >= 0

(***************************************************************************)
(* A job, however often it is retried or raced by a copy of itself, is in  *)
(* the ledger at most once ...                                             *)
(***************************************************************************)
PostedOnce ==
  \A u \in User, c, d \in Currency :
    \A i \in DOMAIN ledger[u][c], k \in DOMAIN ledger[u][d] :
      ledger[u][c][i].id = ledger[u][d][k].id => c = d /\ i = k

(***************************************************************************)
(* ... and as a whole: a reader never finds some of a job's posts without  *)
(* the others (a deposit's purchase without its first-purchase bonus).     *)
(***************************************************************************)
AllOrNothing ==
  \A j \in Job :
    (\E k \in DOMAIN j.posts : j.posts[k].id \in Posted(j.user))
      => \A k \in DOMAIN j.posts : j.posts[k].id \in Posted(j.user)

(***************************************************************************)
(* post's 'Concurrent balance update conflict' cannot happen: under the    *)
(* row lock the version it read is still the version it updates.           *)
(***************************************************************************)
NoVersionConflict ==
  \A t \in Tx : pc[t] = "update" => /\ RowFree(t)
                                    /\ VisibleRow(t).version = seen[t].version

(***************************************************************************)
(* The ledger is append-only, for whatever happens to the transactions     *)
(* that are in flight; a row that was committed is never changed.          *)
(***************************************************************************)
AppendOnly ==
  [][\A u \in User, c \in Currency :
       /\ Len(ledger[u][c]) <= Len(ledger'[u][c])
       /\ \A k \in DOMAIN ledger[u][c] : ledger'[u][c][k] = ledger[u][c][k]]_vars

(***************************************************************************)
(* Every transaction that began ends: no lock is leaked and transactions   *)
(* that wait for each other's rows do not wait forever.                    *)
(***************************************************************************)
EveryTransactionEnds == \A t \in Tx : pc[t] \in Active ~> pc[t] \in Ended

-----------------------------------------------------------------------------
Abstract == INSTANCE Wallet WITH
  balance <- [u \in User |-> GetBalance(u)],
  applied <- [u \in User |-> Posted(u)]

(***************************************************************************)
(* The posts of a transaction, interleaved with those of others, fail or   *)
(* take effect together in one step: the one-step wallet the callers of    *)
(* LedgerService are written against.                                      *)
(***************************************************************************)
ImplementsWallet == Abstract!Spec

-----------------------------------------------------------------------------
(* The inductive invariant behind these properties. *)

\* Past LockBalanceRow the row is held.
HeldPastLock(t) == pc[t] \in {"insert", "update", "commit"} => holder[UserOf(t)] = t

NothingWithoutLock(t) == holder[UserOf(t)] # t => draft[t] = Clean

\* The ledger as the transaction that holds the row sees it.
View(t, c) == ledger[UserOf(t)][c] \o draft[t].entries[c]

Explains(s, balance) ==
  /\ Chained(s)
  /\ \A k \in 1..Len(s) : s[k].after >= 0
  /\ Final(s) = balance

\* Between InsertLedgerRow and UpdateBalance the view is one amount ahead.
Ahead(t, c) ==
  IF pc[t] = "update" /\ c = Input(t).currency THEN Input(t).amount ELSE 0

HolderExplained(t) ==
  holder[UserOf(t)] = t =>
    \A c \in Currency : Explains(View(t, c), draft[t].row.balance[c] + Ahead(t, c))

ReadIsCurrent(t) ==
  pc[t] \in {"insert", "update"} =>
    /\ seen[t] = draft[t].row
    /\ seen[t].balance[Input(t).currency] + Input(t).amount >= 0

\* A lock belongs to a transaction of that user that has not ended.
LockIsLive(u) ==
  holder[u] # NoTx => pc[holder[u]] \in Active /\ job[holder[u]].user = u

NothingWithoutRow(u) ==
  u \notin stored => balances[u] = ZeroRow /\ ledger[u] = NoEntries

CommittedExplained(u) ==
  \A c \in Currency : Explains(ledger[u][c], balances[u].balance[c])

TxInv(t) ==
  HeldPastLock(t) /\ NothingWithoutLock(t) /\ HolderExplained(t) /\ ReadIsCurrent(t)

UserInv(u) == LockIsLive(u) /\ NothingWithoutRow(u) /\ CommittedExplained(u)

(***************************************************************************)
(* Why the properties above hold: only the holder of a user's row has      *)
(* uncommitted writes, they extend the committed ledger without a gap, and *)
(* the row a post read is the row it updates.                              *)
(***************************************************************************)
IInv ==
  /\ TypeOK
  /\ \A t \in Tx : TxInv(t)
  /\ \A u \in User : UserInv(u)
=============================================================================
