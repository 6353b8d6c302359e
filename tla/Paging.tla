------------------------------- MODULE Paging -------------------------------
(***************************************************************************)
(* The history of one user's wallet, read page by page while transactions  *)
(* add to it: TransactionsService.list.  A page is one SELECT, ordered     *)
(* from the newest row to the oldest, and the cursor it returns is what    *)
(* the next request sends back.  Postgres keeps created_at in microseconds *)
(* and a JavaScript Date, from which the cursor is made, in milliseconds.  *)
(***************************************************************************)
EXTENDS Integers, FiniteSets

CONSTANTS
  Tx,           \* the transactions that post to this user's ledger
  Posts,        \* Posts[t]: the ids and kinds of the rows t inserts
  Filters,      \* the filters a client asks for
  Limits,       \* the page sizes a client asks for
  Milli,        \* instants (microseconds) in a millisecond
  LastInstant   \* bound of the clock

Kinds ==
  {"deposit_purchase", "deposit_first_purchase_bonus", "promo_redeem",
   "daily_bonus", "unlock_sweeps", "bet_stake", "bet_refund", "bet_payout",
   "cashout_request", "cashout_reversal", "admin_adjustment"}

FilterToKinds ==
  [top_ups |-> {"deposit_purchase", "deposit_first_purchase_bonus",
                "promo_redeem", "daily_bonus", "unlock_sweeps"},
   wins    |-> {"bet_payout"},
   picks   |-> {"bet_stake", "bet_refund"},
   payouts |-> {"cashout_request", "cashout_reversal"}]

KindsForFilter(f) == IF f = "all" THEN Kinds ELSE FilterToKinds[f]

\* Ids are random and distinct; only their order matters, so they are numbers.
ASSUME PagingAssumption ==
  /\ Posts \in [Tx -> SUBSET [id : Nat, kind : Kinds]]
  /\ Filters \subseteq {"all"} \cup DOMAIN FilterToKinds
  /\ Limits \subseteq Nat \ {0}
  /\ Milli \in Nat \ {0}
  /\ LastInstant \in Nat

VARIABLES
  now,        \* the database's clock
  began,      \* began[t]: when transaction t began, or NotBegun
  committed,  \* the transactions that committed
  table,      \* the committed rows of wallet_ledger
  filter,     \* the client's walk: its filter,
  cursor,     \*   the nextCursor it was given last, or NoCursor,
  page,       \*   the rows of the page it was given last,
  earlier,    \*   the rows of the pages before that one,
  cuts,       \*   the last rows of the pages that had a successor, and
  atStart     \*   the rows of the filter when the walk began

database == <<now, began, committed, table>>
walk == <<filter, cursor, page, earlier, cuts, atStart>>
vars == <<database, walk>>

NotBegun == -1
NoCursor == [at |-> -1, id |-> -1]
Row == [id : Nat, kind : Kinds, at : Nat]
Cursor == [at : Nat, id : Nat]

Init ==
  /\ now = 0
  /\ began = [t \in Tx |-> NotBegun]
  /\ committed = {}
  /\ table = {}
  /\ filter = "all"
  /\ cursor = NoCursor
  /\ page = {}
  /\ earlier = {}
  /\ cuts = {}
  /\ atStart = {}

----------------------------------------------------------------------------
(* The writers.  created_at defaults to now(), which is the time at which  *)
(* the transaction began: its rows share it, and appear when it commits.   *)

Tick ==
  /\ now < LastInstant
  /\ now' = now + 1
  /\ UNCHANGED <<began, committed, table, walk>>

Begin(t) ==
  /\ began[t] = NotBegun
  /\ began' = [began EXCEPT ![t] = now]
  /\ UNCHANGED <<now, committed, table, walk>>

Inserted(t) ==
  {[id |-> p.id, kind |-> p.kind, at |-> began[t]] : p \in Posts[t]}

Commit(t) ==
  /\ began[t] # NotBegun
  /\ t \notin committed
  /\ committed' = committed \cup {t}
  /\ table' = table \cup Inserted(t)
  /\ UNCHANGED <<now, began, walk>>

----------------------------------------------------------------------------
(* The reader. *)

\* r comes before s in ORDER BY created_at DESC, id DESC.
Newer(r, s) == r.at > s.at \/ (r.at = s.at /\ r.id > s.id)

\* Bug: the tie on created_at is decided by <=.
After_Inclusive(c, r) ==
  \/ c = NoCursor
  \/ r.at < c.at
  \/ r.at = c.at /\ r.id <= c.id

\* The conditions a cursor adds to the SELECT.
After(c, r) ==
  \/ c = NoCursor
  \/ r.at < c.at
  \/ r.at = c.at /\ r.id < c.id

\* Bug: the tie is an alternative to the filter, not to the older time.
Selected_LooseTie(f, c) ==
  {r \in table :
     \/ r.kind \in KindsForFilter(f) /\ (c = NoCursor \/ r.at < c.at)
     \/ c # NoCursor /\ r.at = c.at /\ r.id < c.id}

Selected(f, c) == {r \in table : r.kind \in KindsForFilter(f) /\ After(c, r)}

\* What ORDER BY .. LIMIT n returns of S.
FirstOf(S, n) ==
  {T \in SUBSET S : /\ Cardinality(T) = n \/ (T = S /\ Cardinality(S) <= n)
                    /\ \A t \in T, s \in S \ T : Newer(t, s)}

IsLast(r, S) == r \in S /\ \A s \in S : s = r \/ Newer(s, r)

\* toISOString of a Date: what is below the millisecond is gone.
ToMillis(at) == at - (at % Milli)

BuildCursor(r) == [at |-> ToMillis(r.at), id |-> r.id]

\* Bug: the cursor is that of the row read to know whether there is more.
List_CursorOfExtraRow(f, c, n) ==
  \E rows \in FirstOf(Selected(f, c), n + 1) :
    \/ /\ Cardinality(rows) > n
       /\ \E sliced \in FirstOf(rows, n), last \in rows, extra \in rows :
            /\ IsLast(last, sliced)
            /\ IsLast(extra, rows)
            /\ page' = sliced
            /\ cursor' = BuildCursor(extra)
            /\ cuts' = (IF c = NoCursor THEN {} ELSE cuts) \cup {last}
    \/ /\ Cardinality(rows) <= n
       /\ page' = rows
       /\ cursor' = NoCursor
       /\ cuts' = IF c = NoCursor THEN {} ELSE cuts

\* A page of filter f after cursor c: n + 1 rows are read to know whether
\* there is more, n are returned, and the cursor is that of the last of them.
List(f, c, n) ==
  \E rows \in FirstOf(Selected(f, c), n + 1) :
    \/ /\ Cardinality(rows) > n
       /\ \E sliced \in FirstOf(rows, n), last \in rows :
            /\ IsLast(last, sliced)
            /\ page' = sliced
            /\ cursor' = BuildCursor(last)
            /\ cuts' = (IF c = NoCursor THEN {} ELSE cuts) \cup {last}
    \/ /\ Cardinality(rows) <= n
       /\ page' = rows
       /\ cursor' = NoCursor
       /\ cuts' = IF c = NoCursor THEN {} ELSE cuts

\* A walk is over, or none was begun, when there is no cursor to follow.
FirstPage(f, n) ==
  /\ cursor = NoCursor
  /\ List(f, NoCursor, n)
  /\ filter' = f
  /\ earlier' = {}
  /\ atStart' = Selected(f, NoCursor)
  /\ UNCHANGED database

NextPage(n) ==
  /\ cursor # NoCursor
  /\ List(filter, cursor, n)
  /\ earlier' = earlier \cup page
  /\ UNCHANGED <<database, filter, atStart>>

Next ==
  \/ Tick
  \/ \E t \in Tx : Begin(t) \/ Commit(t)
  \/ \E f \in Filters, n \in Limits : FirstPage(f, n)
  \/ \E n \in Limits : NextPage(n)

Spec == Init /\ [][Next]_vars

----------------------------------------------------------------------------
(* What a walk shows. *)

\* Every variable keeps its type: a page holds committed rows of its filter's
\* kinds, and so do the sets of rows that describe the walk (list).
TypeOK ==
  /\ now \in Nat
  /\ began \in [Tx -> Nat \cup {NotBegun}]
  /\ committed \subseteq Tx
  /\ table \subseteq Row
  /\ filter \in {"all"} \cup DOMAIN FilterToKinds
  /\ cursor \in Cursor \cup {NoCursor}
  /\ page \subseteq {r \in table : r.kind \in KindsForFilter(filter)}
  /\ earlier \subseteq table
  /\ cuts \subseteq earlier \cup page
  /\ atStart \subseteq table

\* A walk goes from new to old and never back: whatever is committed while it
\* lasts, every row of a page is older than every row of the pages before it,
\* so none is shown twice (the conditions on the cursor, transactions.service).
PagesDescend == \A s \in earlier, r \in page : Newer(s, r)

\* The rows of the walk's filter that were there when it began and that it has
\* ended without showing.
Skipped == IF cursor = NoCursor THEN atStart \ (earlier \cup page) ELSE {}

\* What a walk loses is bounded by the precision of its cursors: a row that was
\* there from the start is missed only if it follows the last row of some page
\* within that row's millisecond.
SkippedWithinAMillisecond ==
  \A r \in Skipped :
    \E c \in cuts : Newer(c, r) /\ ToMillis(c.at) <= r.at

\* What transactions.service.spec.ts says of a walk ("paginates with cursor and
\* stops when exhausted"): it shows every row that was there when it began.
WalkIsComplete == Skipped = {}

=============================================================================
