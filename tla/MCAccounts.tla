------------------------------ MODULE MCAccounts ------------------------------
(***************************************************************************)
(* Workloads of two to five requests each.  The founder f signs in with    *)
(* a password, g signs up, h comes by Google.                              *)
(***************************************************************************)
EXTENDS Accounts, TLC

CONSTANTS f, g, h, fmail, gmail, short, long, c1, c2, c3, c4, c5, t1, t2, t3, t4, l1, l2

Users == {f, g, h}
Calls == {c1, c2, c3, c4, c5}
Tokens == {t1, t2, t3, t4}
Links == {l1, l2}
Ids == Permutations(Tokens) \cup Permutations(Links)
MCFounderEmail == [u \in {f} |-> fmail]

\* A request of u that renames to, or signs up with, n.
Req(op, u, n) ==
  [op |-> op, user |-> u, remember |-> TRUE, name |-> n, username |-> short, digest |-> FALSE]
Ask(op) == Req(op, f, gmail)
Short(r) == [r EXCEPT !.remember = FALSE]
Auto(r) == [r EXCEPT !.username = None]

Load(r1, r2, r3, r4, r5) ==
  c1 :> r1 @@ c2 :> r2 @@ c3 :> r3 @@ c4 :> r4 @@ c5 :> r5

Never == Req("payout", h, gmail) \* h has no account, so it is not made

Timeless ==
  { Load(Ask("login"), Ask("refresh"), Ask("refresh"), Ask("refresh"), Never),
    Load(Ask("login"), Ask("refresh"), Ask("refresh"), Ask("elsewhere"), Ask("logout")),
    Load(Ask("login"), Ask("login"), Ask("refresh"), Ask("elsewhere"), Never),
    Load(Ask("login"), Ask("login"), Ask("everywhere"), Ask("revoke"), Never),
    Load(Ask("login"), Ask("login"), Ask("delete"), Ask("prefs"), Never),
    Load(Ask("login"), Ask("refresh"), Ask("delete"), Ask("refresh"), Never),
    Load(Ask("login"), Ask("payout"), Ask("delete"), Ask("email"), Ask("stake")),
    Load(Ask("forgot"), Ask("forgot"), Ask("reset"), Ask("reset"), Ask("login")),
    Load(Ask("login"), Ask("forgot"), Ask("delete"), Ask("reset"), Ask("password")),
    Load(Ask("login"), Ask("email"), Ask("email"), Req("signup", g, gmail), Never),
    Load(Ask("login"), Ask("display"), Req("display", g, gmail), Req("signup", g, gmail), Never),
    Load(Ask("login"), Ask("display"), Ask("display"), Req("google", h, long), Ask("password")),
    Load(Req("google", h, gmail), Req("google", h, gmail), Req("onboard", h, gmail),
         Req("signup", g, gmail), Never),
    Load(Auto(Req("google", h, gmail)), Req("signup", g, fmail), Req("revoke", h, gmail),
         Req("delete", h, gmail), Req("email", h, fmail)),
    Load(Req("signup", g, gmail), Req("refresh", g, gmail), Ask("login"), Ask("revoke"), Never) }

Timed ==
  { Load(Ask("login"), Ask("refresh"), Ask("refresh"), Never, Never),
    Load(Short(Ask("login")), Ask("refresh"), Ask("elsewhere"), Never, Never),
    Load(Ask("forgot"), Ask("reset"), Ask("reset"), Never, Never) }

Workloads == Timeless \cup Timed
Horizons == [w \in Workloads |-> IF w \in Timed THEN 4 ELSE 0]
=============================================================================
