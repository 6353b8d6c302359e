-------------------------------- MODULE Wallet --------------------------------
(***************************************************************************)
(* What LedgerService promises its callers: a job (all the posts of one    *)
(* transaction) is applied in one step, as a whole, at most once, and only *)
(* if the user can afford it.  The other modules build on this promise.    *)
(***************************************************************************)
EXTENDS Integers, Functions

CONSTANTS User, Currency, Id, Job

VARIABLES balance, \* what the user has, per currency
          applied  \* the ids posted for the user

vars == <<balance, applied>>

Ids(j) == {j.posts[k].id : k \in DOMAIN j.posts}

\* What the posts of job j add to currency c, each and together.
Amounts(j, c) ==
  [k \in DOMAIN j.posts |-> IF j.posts[k].currency = c THEN j.posts[k].amount ELSE 0]

Sum(j, c) == SumFunctionOnSet(Amounts(j, c), DOMAIN j.posts)

Init ==
  /\ balance = [u \in User |-> [c \in Currency |-> 0]]
  /\ applied = [u \in User |-> {}]

Apply(j) ==
  LET u == j.user IN
  /\ Ids(j) \cap applied[u] = {}
  /\ \A c \in Currency : balance[u][c] + Sum(j, c) >= 0
  /\ balance' = [balance EXCEPT ![u] = [c \in Currency |-> @[c] + Sum(j, c)]]
  /\ applied' = [applied EXCEPT ![u] = @ \cup Ids(j)]

Next == \E j \in Job : Apply(j)

Spec == Init /\ [][Next]_vars
=============================================================================
