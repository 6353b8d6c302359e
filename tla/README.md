# Kavidy backend: a TLA+ model of its money and its concurrency

The repository is a NestJS backend for a sweepstakes product: users buy coin
packages, claim daily bonuses and promo codes, and place multi-pick entries on
prediction markets that outside workers open and resolve. State lives in
Postgres (READ COMMITTED, through drizzle); every request is handled by an
asynchronous function that mixes single statements with short transactions, on
any number of server processes. What is hard to get right is therefore not the
code of one request but what two of them do to the same rows, what a retry does
to a request that was already carried out, and what remains when a process dies
between two commits. That is what this directory models.

## Inventory

| part | state | operations | what makes it correct |
|---|---|---|---|
| wallet ledger (`wallet/ledger.service.ts`) | `balances`, `wallet_ledger` | `post` inside the caller's transaction | the rows explain the balance; nothing is overdrawn or posted twice; a transaction is all or nothing |
| bets (`bets/bets.service.ts`, `bets.settlement.service.ts`) | `bet_entries`, `bet_picks` | `placeEntry`, `settlePicksForMarket`, `settle-market` | one entry per key; status, picks and money agree; what is settled is final |
| markets (`markets/markets.service.ts`) | `markets` | `upsert`, `upsertBulk` | a resolved market stays resolved |
| exposure (`bets/market-exposure.service.ts`) | none of its own: sums over `bet_picks`, writes `markets.status` | `checkAndCloseIfNeeded` after an entry | an open market is within its limits once the checks are done |
| deposits (`wallet/deposits.service.ts`) | `deposit_intents` | `createCheckout`, `handleProviderEvent`, `simulatePayment` | what is credited is what was paid for, once; one first-purchase bonus |
| idempotency (`wallet/idempotency.service.ts`) | `idempotency_keys` | `execute` | the handler of a key commits at most once; a replay is its result |
| daily bonus (`wallet/daily-bonus.service.ts`) | `daily_bonus_state` | `claim` | a day is paid once; a streak is one that was had |
| promo codes (`wallet/promo-codes.service.ts`) | `promo_codes`, `promo_redemptions` | `redeem` | the limit holds; one redemption per user |
| sessions (`auth/tokens.service.ts`, `auth/guards/jwt-auth.guard.ts`, `sessions/`) | `refresh_tokens` | issue, rotate, revoke one, the others, a family, all; the guard's question whether a session is active | no refresh prolongs a session; a family of sessions that has ended stays ended |
| accounts (`auth/auth.service.ts`, `users/`, `auth/password-reset.service.ts`) | `users`, `oauth_accounts`, `password_reset_tokens` | sign-up, sign-in, Google, onboarding, changes of e-mail, name, password and preferences, deletion, reset | no two users share a name; what is deleted stays deleted; a request that no other of its user overlaps keeps its promise |
| ideas (`ideas/ideas.service.ts`) | `posts`, `post_likes` | `createPost`, `like`, `unlike`, `listFeed` | the counter is the number of likes, in answers and pages too |
| cursors (`wallet/transactions.service.ts`; bets and ideas alike) | none | `list` | paging reaches every row once |
| markets event stream, streamers, eligibility, wiring | none worth a model | | |

They interact by calls inside a transaction (every part that moves money calls
`LedgerService.post` with its own `tx`; bonus and promo run as handlers of
`IdempotencyService.execute`), by calls after one (an upsert starts
settlement, a placement starts exposure checks it does not wait for; changes of
an account revoke its sessions within the same transaction) and through shared
rows. `PROJECT.json` lists the hazards line by line.

## Modules

| module | models | uses |
|---|---|---|
| `Ledger` | `LedgerService`, statement by statement; `ImplementsWallet` maps it to `Wallet` | `Wallet` |
| `Wallet` | the abstract wallet: a job is applied at once, at most once, if affordable | |
| `SumTheorems` | lemmas about sums over a finite set | |
| `LedgerProofs` | theorems about `Ledger`: balances and locks, a job at most once and as a whole, the refinement of `Wallet` | `Ledger`, `SumTheorems` |
| `BetRules` | multipliers, pick and entry outcomes; no state | |
| `Bets` | placement, upserts, settlement | `BetRules`; the promise of `Wallet` |
| `BetsProofs` | theorems about `Bets`, `BetRules` and `Exposure` | `Bets`, `Exposure`, `SumTheorems` |
| `Exposure` | the exposure of one market and the checks that may close it | `BetRules` |
| `Deposits` | checkouts and provider events | the promise of `Wallet` |
| `DepositsProofs` | theorems about `Deposits` | `Deposits`, `SumTheorems` |
| `Idempotency` | `execute` without its handler | |
| `DailyBonus` | `claim`, the handler of `execute` | `Idempotency`; the promise of `Wallet` |
| `DailyBonusProofs` | theorems about `DailyBonus` and `Idempotency` | `DailyBonus` |
| `PromoCodes` | `redeem`, the handler of `execute`, and the connection pool | `Idempotency`; the promise of `Wallet` |
| `PromoCodesProofs` | theorems about `PromoCodes` | `PromoCodes` |
| `Paging` | `list` of the wallet history, page by page, with writers | |
| `Feed` | posts, likes, counters and pages of the ideas feed | |
| `PagingProofs` | theorems about `Paging` and `Feed` | `Paging`, `Feed` |
| `Sessions` | `refresh_tokens`, statement by statement | |
| `Accounts` | the requests of `auth/` and `users/` over it | `Sessions` |
| `AccountsProofs` | theorems about `Accounts` and `Sessions` | `Accounts` |
| `MC*` | small instances for TLC; `MCBetting` and `MCLists` put two parts that share no state into one run, where a behaviour is one of either | |

Operators named `X_Something` and introduced by "Bug:" are plausible mistakes in
the code behind `X`. No specification uses them: they stand next to what they
break, and replacing `X` by one of them makes TLC refute the property
`PROJECT.json` pairs it with.

### Ledger

State: committed rows (`stored`, `balances`, `ledger`), the row locks
(`holder`), and per transaction where it is, what it read (`seen`) and what it
wrote and has not committed (`draft`). A *job* is what one business operation
posts: a user and a sequence of (id, currency, amount). The actions are the
statements of `post` in their order: `EnsureBalanceRow` (INSERT .. ON CONFLICT DO NOTHING),
`LockBalanceRow` or `InsufficientBalance` (SELECT .. FOR UPDATE and the check),
`InsertLedgerRow` or `DuplicateEntry` (the unique index), `UpdateBalance`
(conditional on `version`), then the next post or `Commit`; `Fail` may happen
anywhere. A transaction that ended may begin again with any job, so retries of
what failed and of what had in fact committed are both there.

What is assumed of Postgres: a statement sees committed rows and its own
transaction's; row locks and an uncommitted insert of the same key are waited
for; locks last to the end of the transaction. `isUniqueViolation` is taken to
recognise the driver's error 23505 as the code intends. A post of zero is
refused in every caller's path before it matters; the job `Zero` is the one of
the unit test.

### Bets

A placement is `LookUpKey`, `CheckMarkets` (both before the transaction), then
`PlaceEntry`, `ReplayEntry` (unique index) or `RefuseStake`. An upsert is
`UpsertRead` (drops markets that are `Resolved`) and `UpsertWrite`, followed by
the settlement of the markets it resolved. `AdminSettle` starts the same
settlement at the caller's status. Settlement is `Collect` (entries with a
pending pick), then per entry `LockEntry` (FOR UPDATE and what is read under
it) and `SettleEntry` or `AlreadySettled`, `SettleFails` for an error the loop
swallows, `MarketDone`, and `Crash`. The transaction of a placement touches
only rows it creates and the ledger, so it is one step. Market statuses
`void` and `abandoned` are final for settlement but not for an upsert, and an
upsert to them starts no settlement, as in the code. `AutoClose` is the
exposure check seen from here: a market with bets may close at any moment.

### Exposure

That closing, looked at closely, for one market: `checkAndCloseIfNeeded` reads
the picks of its own market and nothing else, so other markets add nothing. A
*ticket* is an entry with a pick on it. `SeeOpen` is the status check of
`placeEntry`, `Commits` its commit, after which the check runs on its own:
`ComputeExposure` is the SELECT with the sums and comparisons made of it,
`CloseIfOpen` the conditional UPDATE, `CheckFails` the error that is only
logged, or the end of the process. Meanwhile `Decides` takes a ticket out of the
sum and `Upsert` writes the status. Amounts are cents and the limits are the
code's; the quotient of the skew is compared as integers (100 times the larger
side against 80 times both), which is exact.

`LimitsHoldWhenChecked` says that overlapping checks do not each miss what the
other has placed: the entry is committed before its exposure is summed, so
whoever sums last sees all. `loose` names what the property leaves out because
nobody looks: an entry that is decided may leave the rest more uneven than the
skew allows until the next placement; a market a worker opens again, or one
whose check failed, is looked at with the next placement too.

### Deposits

Checkout: key lookup, offer, insert, session, in four steps with a crash after
each. Events: a failure or expiry is one conditional update; a completion is a
locked read and a commit (`Complete`, `AmountMismatch`, `AlreadyCompleted`,
`HandlerFails`). `simulatePayment` reads the intent, builds an event for it and
handles it like any other, so it is an event delivered to an intent with a
session. Events with another amount come from the provider interface only
(the unit tests send one).

### Idempotency and DailyBonus

`Idempotency` has the four commits of `execute`: look up, insert, handler,
store, with `InsertCollides` for the recursion after a unique violation,
`HandlerThrows` and `Dies`. `DailyBonus` EXTENDS it, says what the handler's
transaction does (`ClaimWithin`), and adds the clock. The row lock of
`daily_bonus_state` spans the handler from its first read, so it is one step.

### PromoCodes

A second handler of `Idempotency`, here in steps, because a redemption competes
for two things: the row of the code and the connections of the pool.
`Statement` is a statement of `execute` (it needs a free connection for as long
as it runs), `Open` is BEGIN, `LockCode` the FOR UPDATE read, then `Refuse` or
`Grant`. What the transaction writes is seen at `Commit`; nobody else can write
that code's redemptions in between, and the ledger post is the promise of
`Wallet`. A code worth nothing goes through `GrantNothing` and `FetchBalance`,
which asks the pool for a second connection while the transaction keeps its
own. `Turn` is everything that makes a code usable or not: time, and the
operator's SQL (no code of the repository changes those columns).

`EveryRedemptionEnds` says exactly what that costs: if redemptions of such codes
take the whole pool (`Starved`), they and all who want a connection wait for
ever, since the driver's queue has no timeout; in every other case each call
ends. `Starved` is reachable in the instance. `sweeps_cents` defaults to 0 and
nothing in the repository forbids such a code.

### Paging

The table is the ledger of one user; a transaction takes its time at `Begin`
and shows its rows, all with that time, at `Commit`. A client walks: `FirstPage`
without a cursor, `NextPage` with the one it was given, until there is none.
`List` is the SELECT of `limit + 1` rows and what is made of it; `FirstOf` is
what ORDER BY and LIMIT promise of a set. The conversion that matters is
`ToMillis`: `created_at` has microseconds, the `Date` drizzle makes of it and the
cursor made of that have milliseconds, and `After` compares the two. Rows of
other users never meet the SELECT and are left out; `listEntries` of the bets
pages in the same way. `earlier`, `cuts` and `atStart` record what the walk has
shown and what it began with.

### Feed

State: the posts with their counters (`likeCount`), the `likes`, the lock of each
post's row, and per request what it wants, what it has read and what it has
answered. `like` and `unlike` are a transaction of three statements: `LockPost`
(FOR UPDATE, which also returns the counter), `ChangeLike` (the INSERT .. ON
CONFLICT DO NOTHING or the DELETE, which has an effect or not), `UpdateCount` if
it had one, then `CommitLike`; `AbortLike` stands for any error and for a
process that dies. A like of a post that there is not is answered 404 and
changes nothing. `KeyBusy` is the wait for somebody else's uncommitted like; the
row lock keeps it from ever happening, and it is there so that the model without
that lock (`LockPost_NoLock`) is still a database.

`listFeed` is `ReadPage` (the posts, the next cursor) and, later, `ReadLikes`. Its
order has pinned posts first, though nothing in the repository pins any, and
its cursor loses what is below the millisecond as that of `Paging` does. A page
may show a post as liked with a counter from before the viewer's own like, if
that like came between the two reads; `own` records that, and
`ShownLikesAreCounted` says it is the only way.

### Sessions and Accounts

A *call* is one request; the instance gives each behaviour a *workload* that
says what the calls ask for. A token is a row of `refresh_tokens`: its user, its
family, its two ends (`expires`, `absolute`), when it was used, and whether it is
revoked. Hashes, the successor's id and the user agent decide nothing. `pc` names
the statement a call is at: `rotateRefreshToken` is `ReadForRefresh`, `LoadUser`,
`Issue` (the successor), `Retire` (the old one, without a condition);
`issueTokenPair` at sign-in is `FindOthers` and `Issue`. An UPDATE of many rows
is two steps, the rows it finds and what it does to those that still match
(`Sweep` and `Apply`; `FindOthers` and `Issue`; `LockUser` and `CommitUser`): a row
that another call inserts in between is not among them. `revokeAllForUser` with
a session to except revokes that one too and gives it back in `Restore`. Since
`expires` never exceeds `absolute`, the branch of `rotateRefreshToken` for a token
that is past its absolute end but has not expired is not reached; `Overdue` has
it with the idle time, which is.

`Accounts` adds the rows of `users` and the reset links. A name stands for all
its spellings, since the code compares and indexes lower-case forms. `Admit` is
the guard in front of the requests of a signed-in user. Those that also sign the
user out (e-mail, password, reset, deletion) hold the lock of the user's row from
`LockUser` to `CommitUser`, and so, for an e-mail, does the entry of the unique
index (`EmailFree`). A name is looked up by one statement (`HeldByOther`, `Holders`)
and written by a later one, which fails if the unique index has it by then
(`Clashes`). Passwords and eligibility are refusals that may always
happen; a payout and a stake (`MoneyMoves`) are what the wallet does to the
balance that a deletion asks for. `Dies` ends a call between any two of its
steps, also when Postgres aborts it. Left out: `touchLastLogin`, the row of an
empty balance, and the statuses `suspended` and `banned`, which no code sets.

What two calls may do to each other is in the model and is not held against the
code where it promises nothing: two refreshes of one token both succeed, two
logins leave two sessions, a refresh that dies leaves two live tokens, `Restore`
gives back a session that was logged out in between, a link is used by two
overlapping calls, one of two changes of the preferences is lost, a payout falls
between the question for the balance and the deletion. The properties are what
holds nevertheless. `AloneKeepsPromise` is the contract of all these requests
and the isolation of users from each other, from any state that any of the races
has left: if no other call of its user takes a step while a call lasts (`alone`),
it leaves exactly the sessions, names, links and preferences it is for, or, if it
refuses, what was there before, whatever other users do in between: they take
the name it has just found free, name its sessions in a request to revoke one, or
let its time run out. The races of calls of one user listed above are not its
subject: what two overlapping requests of one user leave together, the code
does not say. `NamesAreUnique` is about calls of different users that have each
found a name free: only one of them may get it, be it at once (`Write`,
`CreateUser`) or over the two steps of a transaction that has the index entry
before it commits (`LockUser`, `CommitUser`).
`EndedFamilyStaysEnded` and `GoneForGood` are for every interleaving: a family
without a session and without a call that could still give it one
(`FamilyEnded`), and a deleted account of which the same is true (`Gone`), remain
so whatever is presented later.

## Runs

| run | instance | shows |
|---|---|---|
| `ledger` | 2 users, 2 currencies, 5 jobs, 2 transactions that repeat for ever | the six invariants, `ImplementsWallet` (refinement of `Wallet`), every transaction ends |
| `bets` | 3 markets, 2 placements of one key, 2 workers, bulk, single and admin settlement; or, in `Exposure`, 4 entries on one market | money, posts, statuses and picks agree; settled is final; settlement ends; checked markets are within their limits |
| `bets_open_markets` | `MCBets`: the first of these | **violation**: an entry on a market resolved after the check |
| `bets_terminal_markets` | the same | **violation**: a resolved market overwritten by a concurrent upsert |
| `deposits` | 3 checkouts (one a retry), 6 events, 2 handlers | credited = paid, one intent per key, completed is final |
| `deposits_first_purchase` | the same | **violation**: two first-purchase bonuses |
| `daily_bonus` | 3 days, 4 calls on 3 keys | one handler per key, replays, streaks, one payment a day |
| `idempotency_in_progress` | that of `daily_bonus` | **violation**: "in progress" with nothing running |
| `promo_codes` | 3 codes, 2 users, 4 calls on 3 keys, 2 connections | limits, one credit per user, redemptions end |
| `paging` | 3 transactions, 4 rows, 2 filters, page sizes 1 and 2, 2 instants a millisecond; or, in `Feed`, 2 users, 2 posts, 2 requests at a time | a walk never goes back; what it misses is within a millisecond of a cut; counters are likes, answers are exact, pages count what they show |
| `accounts` | 18 workloads of up to 5 requests, 3 users, 4 tokens, 2 links, 4 names | no session is prolonged; ended and deleted is for good; a call keeps its promise whatever other users do; no name is held twice |
| `paging_complete` | `MCPaging`: the first of these | **violation**: a row lost between two pages |

Bounds. Two transactions (workers, handlers) are enough for the conflicts of
these protocols: each property relates one row or one user, and a row has one
holder and one next waiter. The five jobs of `ledger` are the smallest that
collide: a user's row shared, two posts in one transaction, a debit, an amount
of zero, the same id for another user. Three markets are the least an entry may
have, and enough for won, lost, void and undecided entries; the stakes (1 and 2
for a balance of 1) make one of the two placements refusable. Three days
reach a streak at the cap, which the instance puts at 40 instead of 100 cents.
Two connections instead of ten make the pool run out with the calls at hand; the
codes are one without a limit, one for a single user and one worth nothing, and
the set each call may name (`Asks`) is what keeps the liveness check small.
Two instants to a millisecond, and ids in no order, are what it takes for rows to
share a millisecond, an instant or neither. The four entries of the exposure
reach the cap exactly with three on one side, and the least stake exactly with
one, so that both comparisons are met at their edge; the fourth is what makes a
market even again. Two requests on two posts are two likes of one post, a like
against an unlike, and a page against both. Each workload of `accounts` puts
together requests that touch the same rows: refreshes of one family with
a sign-out, logins with each other, a deletion with everything that could undo
it, resets with resets, renames and sign-ups that want one name, the requests of one
user with another's that names his sessions. No workload
issues more than the four tokens and two links there are. The workloads with a
clock (`Horizon` 4, else 0) give a short session 1, a remembered one 3, a family 4,
idleness and a reset link 1: a short session expires before it can be idle, a
remembered one is too idle at 2, before it expires at 3, and the successor of one
refreshed at 1 and again at 2 ends with its family at 4 although its own lifetime
would be longer.
The clocks (`LastDay`, `LastInstant`, `Horizon`) are the only counters and the only
bounds in guards. Symmetry is used for ids no specification tells apart: tokens
and links, the viewers and the requests of the feed; no run with symmetry
checks liveness.

Deadlock is not checked in `bets`, `deposits`, `daily_bonus`, `promo_codes` and `accounts`, where
calls end and nothing need follow; in `ledger`, where work never ends, it is.

Fairness. `Ledger!FairSpec` has strong fairness of each transaction's steps,
`Bets!FairSpec` of each worker's settlement loop and `PromoCodes!FairSpec` of
each call (the pool's queue is first come, first served); `MCBetting` takes over
that of `Bets`. All stand for a server
that runs its promises to the end and for Postgres' lock queue: a waiter is
woken in turn, so one that can get the row again and again gets it in the end;
weak fairness would let others overtake it for ever. `Fail`, `SettleFails` and
`Crash` have no fairness: they may happen, or never. Nothing else is assumed
fair.

## Proofs

`LedgerProofs` proves for every set of users, currencies, transactions and jobs
(a job names a known user and posts known ids: `JobAssumption`; `NoTx` is no
transaction): `TypeCorrect`, `BalanceIsExplained`, `NoOverdraft`,
`VersionCheckIsBackstop`, `LedgerIsAppendOnly`.

The argument is one inductive invariant, `IInv`. The properties alone are not
inductive: that the committed ledger explains the committed balance says
nothing of what a transaction is about to commit. `TxInv` adds, per
transaction: past its lock it holds the row (`HeldPastLock`); without the row it
has written nothing (`NothingWithoutLock`); what it read is what it would see
now (`ReadIsCurrent`), which makes the version check succeed; and with its own
uncommitted rows the ledger explains its own balance, up to the one row that
is inserted before the balance is updated (`HolderExplained`, `Ahead`).
`UserInv` says that a lock belongs to a running transaction and that the
committed rows explain the committed balance. `Inductive` proves IInv from
Init and each action; the results follow from it by conjuncts.

`JobsPostOnce` and `JobsPostWhole` stand on top of `IInv`.
`OnceInv` says that no id is twice in a user's committed rows, nor in those rows
with the uncommitted ones of the transaction that holds the user's row: the
unique index looks at both, and since nobody else can commit rows of that user
meanwhile, the commit keeps them unique. `WholeInv` says that a transaction has
inserted the posts before the one it is at and no other, hence all of them when
it commits. The second result needs `IdAssumption`: jobs of a user that share a
key post the same keys. The callers see to that: a key names the entry, the
deposit intent, the day or the code, and whether an intent has a first-purchase
bonus is stored when it is created, so that a redelivered event posts the same.

`LedgerIsWallet` is the refinement: every step of the ledger is a step of
`Wallet` under the mapping of `ImplementsWallet`, or leaves it alone. All steps but
`Commit` leave alone the committed balances and entries, which are all that the mapping sees. Of a `Commit`
it must be shown that it applies the whole job at once. `SumInv` says that the row
a transaction sees is the committed row and the sum of its posts so far in each
currency; at the end these are all of the job's. That its ids are new is the unique
index again (`NewIds`), that all of them are there is `WholeInv` (`ConcatPlaces`), and
that the wallet can afford it is that no balance is negative (`NothingNegative`).

`SumTheorems` has what these proofs need of sums. `SumFunctionOnSet` is a fold
over a set, defined by recursion over its subsets with CHOOSE. That such a fold
is what its recursion says, and that it does not depend on the choices, is an
induction over the subsets of a finite set; it is done with the
well-foundedness of strict subsets of a finite set, for a set of subsets in
place of a predicate. The lemmas to use are `SumOfNone`, `SumAdd`, `SumRemove`, `SumChange`
(one amount changes), `SumSame`, `SumIsInt`, `SumIsNat` and `SumGrows`.

`BetsProofs` proves, for any bettors, markets, batches of upserts and workers,
`BetsTypeCorrect`, `PostsAreByStatus`, `PlacementsMakeOneEntry`,
`StatusIsOfPicks` and `SettlementIsFinal`. It assumes of a slip what
`placeEntry` checks first (three to six picks on distinct markets, a positive
stake) and of a batch that it sets market statuses. The properties are made
inductive by three facts: an entry has a pick on exactly the markets of its
slip (`PicksOK`); what a worker has queued are final markets and picks that
exist (`QueueOK`); and the row a worker holds is held by no other and is still
as it was read (`LocksOK`), which is what FOR UPDATE in `settleEntry` is for.
`PayoutPositive` shows that a won entry always has something to post: with
truncation to cents, no stake and number of effective picks gives zero.

`WalletsMatchEntries` adds to them that a bettor has finitely many entries at any time
(`MoneyInv`), so that the sum over them is one: a placement adds an entry,
a settlement changes the amount of one (`SettlementPays`), everything else
leaves all amounts alone. `ChecksMissNothing` is about `Exposure`, for any tickets
and limits (`LimitsAssumption`: they are not negative). Its invariant,
`ExposureInv`, is the property with one way out: as long as a check has still to sum or to
close, the open market may be over a limit. It is kept since the sums count what
is committed, a check that finds nothing tripped has seen all of it, and
taking a ticket away brings no side above the cap (`ExposureGrows`). The skew it
may bring about is what `loose` is for.

`DepositsProofs` proves `DepositsTypeCorrect`, `CheckoutsMakeOneIntent`,
`CompletedStaysCompleted` and `BuyersGetWhatIsPaid` for any users, packages, checkouts,
events and handlers, from the same kind of invariant: an intent's row exists from its
insert on (`RowsOK`), a locked intent is as its handler read it (`LocksOK`),
and ledger rows are there for completed intents only (`PostsOK`). For the sums of
`BuyersGetWhatIsPaid` a completion is one more summand, once: the intent it
locked was not completed.

`DailyBonusProofs` proves `OneHandlerPerKey`, `ReplaysAreResults`,
`StreakIsEarned`, `EachDayPaidOnce` and the types, for any calls, keys, number
of days and award schedule whose cap is at least its base. No lock spans
`execute`; what replaces one is that only one call can have inserted the key's
row (`OneOwner`) and that a stored response is some such call's result
(`StoredResponses`). `IdemInv` speaks of the calls and `BonusInv` of the claims;
the two meet only in the result a handler returns.

`PromoCodesProofs` proves `PromoLimit`, `PromoCredits` and the types for any
calls, users, codes, limits and pool. The invariant is that of a row lock held
over a check and a write: one transaction at a time is past `LockCode`
(`OneHolder`), the count it read is the count (`ReadIsCurrent`), and the checks it
passed still hold when it commits (`ChecksHold`), also while it waits for a
connection.

`PagingProofs` proves `WalksDescend`, `MissesAreNearCuts` and the types for any
transactions, rows, filters, page sizes and length of a millisecond, and
`CompleteWithExactCursors`: with a millisecond of one instant the property of
`paging_complete` holds, so the precision of the cursor is all that is wrong.
The invariant says that whatever passes the cursor is older than all that was
shown (`CursorIsBehind`), and that a row that was there at the start is shown,
passes the cursor, or is held back by the cursor of some cut (`Accounted`).

The same module proves `CountersCountLikes`, `LikesAnswerExactly` and
`PagesCountOwnLike` of `Feed`, for any finite set of users and any posts, times
and requests at a time. `LikeInv` says of a request past its first statement
that it holds the row of its post and that the counter it read is still the
counter; past the second, that its user's like is, or is not, there as the
effect of that statement said. With `LikeCountIsLikes` that is enough: adding or
taking away one like changes a cardinality by one (`Counting`). `PageInv` says of
a page between its two reads that it counts every like of its viewer but those
in `own`.

`AccountsProofs` proves, for any users, names, requests, lifetimes and numbers of
calls, `TypeCorrect`, `FamilyLifetime`, `EndedStays`, `GoneStays`, `NamesStayUnique`
and `AloneKeeps`. Assumed are the shapes of the constants and that the founders'
addresses differ (`SessionAssumption`, `AccountAssumption`).
`IInv` adds to the types which requests get to which statements (`PcOK`) and,
since rows are read and used later, what a call still knows of the row it
read: its user, family, absolute end and `remember` never change (`CopiesOK`),
whatever became of its revocation. That a family's rows agree would not be
inductive without knowing that the family's first row is there
(`FamiliesFounded`): a new family takes a fresh id and has no member yet. The two
action properties follow step by step: nearly all steps revoke at most
(`OnlyRevokes`), which keeps what has ended; what remains are `Issue` and
`Restore`, and neither is about a family that has ended, or an account that is
gone, by definition of the two. 
`NamesStayUnique` needs `Reserved` beside the property: a change of address checks the
index when it takes its locks and writes when it commits, so what is inductive
is that an address about to be committed is held by nobody else and wanted by no
other commit. Every other statement that writes names checks and writes at once,
and a sign-up must wait for such an entry (`EmailFree`), which is why it cannot
take the address in between.

`AloneKeeps` proves the contract `AloneKeepsPromise`: it compares the end of a call with
its beginning, so `AloneInv` says for each statement what a call that has been
alone so far has done to its user (`Untouched`: nothing, up to the statement that
writes) and what it holds (`Prepared`: that the sessions an UPDATE has found are
those of the user, that the token to keep is live, that the name or the
balance it asked for is still as it was). Three facts are needed of calls that are
not alone: what a statement's locals are (`PathOK`; a refresh, for one, revokes nobody
when it issues), that there are no sessions before there is the account
(`AbsentHaveNone`), for a sign-up revokes none and yet leaves one, and that the
rows a call has found or picked to revoke, and the link it uses up, are its user's
(`Owned`). The last is what isolates users: a step changes rows of its own user
only (`OnlyRowsOf`, `LinksApart`, together `Alongside`), so a step of another
user's call leaves what a call has found as it is (`OthersKeep`, with `ScopeKept` for the
families, each of which is one user's), while one of the same user's ends
`alone`. That each statement of the call itself
keeps the three is one lemma per statement, and most leave sessions, names and
preferences as they are (`Still`).

Only model-checked: all liveness (`EveryTransactionEnds`, `SettlementEnds`,
`EveryRedemptionEnds`), which is out of the provers' reach under fairness, as is
ENABLED. No RECURSIVE operator is used.

## Not modelled

- `listEntries` and `findEntryById` of the bets. They read entries by one statement
  and picks by another; since a decided entry is final (`SettledIsFinal`) and
  decided by its picks (`StatusFollowsPicks`), what they show as decided comes
  with the picks that decided it. Their paging is that of `Paging`. `list` and
  `findById` of the markets are single reads.
- `exportCsv`: one read of at most 10,000 rows that does not say when there are
  more, and the wording of the rows.
- The columns of a market other than its status, and the event stream, an
  in-memory subject that promises its subscribers nothing they missed.
- Three things that go wrong and contradict nothing the repository says: a
  resolved market whose process dies before its settlement waits for somebody
  to call `settle-market`; an intent whose process dies before the session is
  stored answers its key with an error, as the code says; a long history is
  exported without its end. The first two are steps of the models (`Crash`,
  `CheckoutDies`).
- Streamers (reads of a seeded table), eligibility (dates and regions of one
  request), cookies, throttling, validation, schema migration and wiring: no
  shared state, or none that a property is about.
