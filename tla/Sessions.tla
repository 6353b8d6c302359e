------------------------------ MODULE Sessions ------------------------------
(***************************************************************************)
(* auth/tokens.service.ts over the table refresh_tokens, statement by      *)
(* statement.  A session is a row; refreshing replaces it by a successor   *)
(* of the same family.  A call is one HTTP request: ask[c] says which.     *)
(* Every read and every UPDATE outside a transaction is a step of its own, *)
(* and an UPDATE of many rows is two: the rows it finds, and what it does  *)
(* to those of them that still match when it gets them (READ COMMITTED).   *)
(***************************************************************************)
EXTENDS Integers, FiniteSets

CONSTANTS User, Name, Token, Link, Call,
          Workload,    \* which requests the calls make: functions Call -> Request
          Horizon,     \* bound of the clock, for each workload
          ShortTtl, LongTtl, AbsoluteTtl, IdleTtl, ResetTtl,
          None

SignIns == {"login", "signup", "google"}
SessionOps == {"refresh", "logout", "revoke", "elsewhere", "everywhere"}
AccountOps == {"email", "display", "password", "prefs", "onboard", "delete", "forgot", "reset"}
MoneyOps == {"payout", "stake"}

\* What a request carries; a request ignores the fields it has no use for.
Op == SignIns \cup SessionOps \cup AccountOps \cup MoneyOps
Request == [op : Op, user : User, remember : BOOLEAN, name : Name, username : Name \cup {None},
            digest : BOOLEAN]

ASSUME SessionAssumption ==
  /\ Workload \subseteq [Call -> Request]
  /\ {ShortTtl, LongTtl, AbsoluteTtl, IdleTtl, ResetTtl} \subseteq Nat \ {0}
  /\ Horizon \in [Workload -> Nat]
  /\ None \notin User \cup Name \cup Token \cup Link

VARIABLES
  now,      \* the clock
  ask,      \* the workload
  status,   \* users.status, "absent" before the row exists
  session,  \* refresh_tokens: id -> row
  pc,       \* the statement a call is at
  token,    \* the session a call presents or is about
  row,      \*   the row it read of it
  snap,     \* the rows its UPDATE of many has found
  took,     \*   and those it has revoked
  made,     \* the session it inserted
  answer

tables == <<status, session>>
locals == <<token, row, snap, took, made>>
sessVars == <<now, ask, tables, pc, answer, locals>>

\* remember, the lifetimes and the revocation of a session; the hash of the
\* secret, the successor's id and where it was used from decide nothing.
Row == [user : User, family : Token, expires : Nat, absolute : Nat,
        lastUsed : Nat, remember : BOOLEAN, revoked : BOOLEAN]

NoRow == [user |-> None, family |-> None, expires |-> 0, absolute |-> 0,
          lastUsed |-> 0, remember |-> FALSE, revoked |-> TRUE]

SessInit ==
  /\ now = 0
  /\ ask \in Workload
  /\ session = [t \in {} |-> NoRow]
  /\ pc = [c \in Call |-> "new"]
  /\ token = [c \in Call |-> None]
  /\ row = [c \in Call |-> NoRow]
  /\ snap = [c \in Call |-> {}]
  /\ took = [c \in Call |-> {}]
  /\ made = [c \in Call |-> None]
  /\ answer = [c \in Call |-> "none"]

Issued == DOMAIN session
TokensOf(u) == {t \in Issued : session[t].user = u}
Members(f) == {t \in Issued : session[t].family = f}
Unrevoked == {t \in Issued : ~session[t].revoked}
Live(u) == TokensOf(u) \cap Unrevoked

Goto(c, p) == pc' = [pc EXCEPT ![c] = p] /\ UNCHANGED answer
End(c, a) == pc' = [pc EXCEPT ![c] = "ended"] /\ answer' = [answer EXCEPT ![c] = a]

\* Bug: a revoked row is deleted.
Revoking_Deletes(S) == [t \in Issued \ S |-> session[t]]

\* The table after the rows of S are revoked.
Revoking(S) == [t \in Issued |-> [session[t] EXCEPT !.revoked = @ \/ t \in S]]

Tick ==
  /\ now < Horizon[ask]
  /\ now' = now + 1
  /\ UNCHANGED <<ask, tables, pc, answer, locals>>

-----------------------------------------------------------------------------
(* issueTokenPair *)

Min2(a, b) == IF a < b THEN a ELSE b

\* The row of a session that starts now.
NewRow(u, family, remember, absolute) ==
  [user |-> u, family |-> family, absolute |-> absolute,
   expires |-> Min2(now + (IF remember THEN LongTtl ELSE ShortTtl), absolute),
   lastUsed |-> now, remember |-> remember, revoked |-> FALSE]

\* revokeOthers: the UPDATE finds the user's sessions.
FindOthers(c) ==
  /\ pc[c] = "others"
  /\ snap' = [snap EXCEPT ![c] = Live(ask[c].user)]
  /\ Goto(c, "issue")
  /\ UNCHANGED <<now, ask, tables, token, row, took, made>>

\* Bug: a refresh starts a new absolute lifetime.
RowFor_FreshLifetime(c, t) ==
  IF ask[c].op = "refresh"
  THEN NewRow(row[c].user, row[c].family, row[c].remember, now + AbsoluteTtl)
  ELSE NewRow(ask[c].user, t, ask[c].remember, now + AbsoluteTtl)

\* The session inserted under id t: a successor in the family of the row that
\* was read, or the first of a family of its own.
RowFor(c, t) ==
  IF ask[c].op = "refresh"
  THEN NewRow(row[c].user, row[c].family, row[c].remember, row[c].absolute)
  ELSE NewRow(ask[c].user, t, ask[c].remember, now + AbsoluteTtl)

\* Bug: a sign-in leaves the user's other sessions alone.
Issue_KeepsOthers(c) ==
  /\ pc[c] = "issue"
  /\ \E t \in Token \ Issued :
       /\ session' = [x \in Issued \cup {t} |-> IF x = t THEN RowFor(c, t) ELSE session[x]]
       /\ made' = [made EXCEPT ![c] = t]
  /\ IF ask[c].op = "refresh" THEN Goto(c, "retire") ELSE End(c, "ok")
  /\ UNCHANGED <<now, ask, status, token, row, snap, took>>

\* The transaction of issueTokenPair commits.
Issue(c) ==
  /\ pc[c] = "issue"
  /\ \E t \in Token \ Issued :
       /\ session' = [x \in Issued \cup {t} |->
                        IF x = t THEN RowFor(c, t) ELSE Revoking(snap[c])[x]]
       /\ made' = [made EXCEPT ![c] = t]
  /\ IF ask[c].op = "refresh" THEN Goto(c, "retire") ELSE End(c, "ok")
  /\ UNCHANGED <<now, ask, status, token, row, snap, took>>

-----------------------------------------------------------------------------
(* rotateRefreshToken *)

Expired(r) == r.expires <= now
Overdue(r) == r.absolute <= now \/ now - r.lastUsed > IdleTtl

\* Bug: a retired token is not recognised.
Reused_Never(r) == FALSE

Reused(r) == r.revoked

\* The client presents a token of its own: the newest it has or an older one.
ReadForRefresh(c) ==
  /\ pc[c] = "new" /\ ask[c].op = "refresh"
  /\ \E t \in TokensOf(ask[c].user) :
       LET r == session[t] IN
       /\ token' = [token EXCEPT ![c] = t]
       /\ row' = [row EXCEPT ![c] = r]
       /\ \/ Reused(r) /\ Goto(c, "sweep")
          \/ ~Reused(r) /\ Expired(r) /\ End(c, "refused")
          \/ ~Reused(r) /\ ~Expired(r) /\ Overdue(r) /\ Goto(c, "sweep")
          \/ ~Reused(r) /\ ~Expired(r) /\ ~Overdue(r) /\ Goto(c, "load")
  /\ UNCHANGED <<now, ask, tables, snap, took, made>>

LoadUser(c) ==
  /\ pc[c] = "load"
  /\ IF status[row[c].user] = "active" THEN Goto(c, "issue") ELSE End(c, "refused")
  /\ UNCHANGED <<now, ask, tables, locals>>

\* The old row is retired whatever became of it since it was read.
Retire(c) ==
  /\ pc[c] = "retire"
  /\ session' = [Revoking({token[c]}) EXCEPT ![token[c]].lastUsed = now]
  /\ End(c, "ok")
  /\ UNCHANGED <<now, ask, status, locals>>

-----------------------------------------------------------------------------
(* revokeRefreshToken, revokeSessionById *)

ReadForLogout(c) ==
  /\ pc[c] = "new" /\ ask[c].op = "logout"
  /\ \E t \in TokensOf(ask[c].user) :
       /\ token' = [token EXCEPT ![c] = t]
       /\ IF session[t].revoked THEN End(c, "ok") ELSE Goto(c, "revoke")
  /\ UNCHANGED <<now, ask, tables, row, snap, took, made>>

\* Bug: the id names any session, whoever it belongs to.
ReadTarget_OfAnyone(c) ==
  /\ pc[c] = "target"
  /\ \E t \in Issued :
       /\ token' = [token EXCEPT ![c] = t]
       /\ IF session[t].revoked THEN End(c, "ok") ELSE Goto(c, "revoke")
  /\ UNCHANGED <<now, ask, tables, row, snap, took, made>>

ReadTarget(c) ==
  /\ pc[c] = "target"
  /\ \E t \in Issued :
       /\ token' = [token EXCEPT ![c] = t]
       /\ IF session[t].user # ask[c].user THEN End(c, "refused")
          ELSE IF session[t].revoked THEN End(c, "ok") ELSE Goto(c, "revoke")
  /\ UNCHANGED <<now, ask, tables, row, snap, took, made>>

RevokeOne(c) ==
  /\ pc[c] = "revoke"
  /\ session' = Revoking({token[c]})
  /\ End(c, "ok")
  /\ UNCHANGED <<now, ask, status, locals>>

-----------------------------------------------------------------------------
(* revokeAllForUser, with and without a session to except, and revokeFamily *)

IsSessionActive(t, u) ==
  /\ t \in Live(u)
  /\ ~Expired(session[t])

\* Signing a user out everywhere is an administrator's request.
SignOutEverywhere(c) ==
  /\ pc[c] = "new" /\ ask[c].op = "everywhere"
  /\ Goto(c, "sweep")
  /\ UNCHANGED <<now, ask, tables, locals>>

\* What the UPDATE is about: the family of a reused or overdue token, or all
\* sessions of the user.
Scope(c) ==
  IF ask[c].op = "refresh" THEN Members(row[c].family) ELSE TokensOf(ask[c].user)

Sweep(c) ==
  /\ pc[c] = "sweep"
  /\ snap' = [snap EXCEPT ![c] = Scope(c) \cap Unrevoked]
  /\ Goto(c, "apply")
  /\ UNCHANGED <<now, ask, tables, token, row, took, made>>

\* Bug: the session to keep is restored even if it was not revoked here.
Restores_Always(c, S) == ask[c].op = "elsewhere"

Restores(c, S) == ask[c].op = "elsewhere" /\ token[c] \in S

Apply(c) ==
  LET S == snap[c] \cap Unrevoked IN
  /\ pc[c] = "apply"
  /\ session' = Revoking(S)
  /\ took' = [took EXCEPT ![c] = S]
  /\ \/ Restores(c, S) /\ Goto(c, "restore")
     \/ ~Restores(c, S) /\ End(c, IF ask[c].op = "refresh" THEN "refused" ELSE "ok")
  /\ UNCHANGED <<now, ask, status, token, row, snap, made>>

\* The session a user signs out the others from comes back.
Restore(c) ==
  /\ pc[c] = "restore"
  /\ session' = [session EXCEPT ![token[c]].revoked = FALSE]
  /\ End(c, "ok")
  /\ UNCHANGED <<now, ask, status, locals>>

SessStep(c) ==
  \/ FindOthers(c) \/ Issue(c)
  \/ ReadForRefresh(c) \/ LoadUser(c) \/ Retire(c)
  \/ ReadForLogout(c) \/ ReadTarget(c) \/ RevokeOne(c)
  \/ SignOutEverywhere(c) \/ Sweep(c) \/ Apply(c) \/ Restore(c)

-----------------------------------------------------------------------------
(* What holds of sessions, in every module that extends this one. *)

(***************************************************************************)
(* However often a session is refreshed, by whatever calls at once: all    *)
(* sessions of a family belong to one user, end at the latest when the     *)
(* first of them was to end, and stay "remembered" or not                  *)
(* (rotateRefreshToken, issueTokenPair).                                   *)
(***************************************************************************)
FamilyKeepsLifetime ==
  \A t \in Issued :
    /\ session[t].expires <= session[t].absolute
    /\ \A s \in Members(session[t].family) :
         /\ session[s].user = session[t].user
         /\ session[s].absolute = session[t].absolute
         /\ session[s].remember = session[t].remember

\* No session of family f is left, no refresh that found one unrevoked is
\* under way, and no sign-out that is to give one back.
FamilyEnded(f) ==
  /\ Members(f) # {}
  /\ Members(f) \cap Unrevoked = {}
  /\ \A c \in Call : pc[c] \in {"load", "issue"} /\ ask[c].op = "refresh" => row[c].family # f
  /\ \A c \in Call : pc[c] = "restore" => token[c] \notin Members(f)

(***************************************************************************)
(* A family that has ended never has a session again: whichever of its     *)
(* tokens is presented later, by whatever calls (the reuse check of        *)
(* rotateRefreshToken and the filter of revokeAllForUser).                 *)
(***************************************************************************)
EndedFamilyStaysEnded ==
  [][\A f \in Token : FamilyEnded(f) => FamilyEnded(f)']_sessVars
=============================================================================
