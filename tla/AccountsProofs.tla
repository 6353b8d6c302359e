---------------------------- MODULE AccountsProofs ----------------------------
(***************************************************************************)
(* Proofs about accounts and their sessions, for any users, requests and   *)
(* lifetimes and any number of calls.                                      *)
(***************************************************************************)
EXTENDS Accounts, TLAPS

PcSet == {"new", "others", "issue", "load", "retire", "target", "revoke", "sweep", "apply",
          "restore", "create", "findEmail", "resolve", "me", "find", "write", "balance",
          "closeLinks", "insertLink", "lock", "commit", "ended"}

\* Which requests get to which statements.
PcOK ==
  /\ pc \in [Call -> PcSet]
  /\ \A c \in Call :
       /\ pc[c] \in {"load", "retire"} => ask[c].op = "refresh"
       /\ pc[c] = "restore" => ask[c].op = "elsewhere"
       /\ pc[c] = "find" => ask[c].op \in {"email", "display"}
       /\ pc[c] \in {"others", "create", "findEmail", "resolve"} => ask[c].op \in SignIns
       /\ pc[c] = "issue" => ask[c].op \in SignIns \cup {"refresh"}
       /\ pc[c] \in {"sweep", "apply"} => ask[c].op \in {"refresh", "elsewhere", "everywhere"}

\* The part of a row that never changes.
SameSession(r, s) ==
  /\ r.user = s.user /\ r.family = s.family
  /\ r.absolute = s.absolute /\ r.remember = s.remember

\* What a call knows of the session it is about.
CopyOK(c) ==
  /\ pc[c] \in {"load", "issue", "retire", "sweep", "apply"} /\ ask[c].op = "refresh" =>
       /\ token[c] \in TokensOf(ask[c].user)
       /\ row[c] \in Row
       /\ SameSession(row[c], session[token[c]])
  /\ pc[c] \in {"sweep", "apply", "restore"} /\ ask[c].op = "elsewhere" =>
       token[c] \in TokensOf(ask[c].user)
  /\ pc[c] = "revoke" => token[c] \in Issued

CopiesOK == \A c \in Call : CopyOK(c)

FamiliesFounded == \A t \in Issued : session[t].family \in Issued

IInv == TypeOK /\ PcOK /\ CopiesOK /\ FamiliesFounded /\ FamilyKeepsLifetime
-----------------------------------------------------------------------------
(* The table. *)

\* A step that keeps the rows there are, up to their revocation and last use.
SameRows ==
  /\ Issued' = Issued
  /\ session' \in [Issued -> Row]
  /\ \A t \in Issued : /\ SameSession(session'[t], session[t])
                       /\ session'[t].expires = session[t].expires

\* A step that does no more to the table than revoke rows.
OnlyRevokes ==
  /\ SameRows
  /\ \A t \in Issued : session[t].revoked => session'[t].revoked

LEMMA RevokingRevokes ==
  ASSUME TypeOK, NEW S
  PROVE  /\ Revoking(S) \in [Issued -> Row]
         /\ DOMAIN Revoking(S) = Issued
         /\ \A t \in Issued : /\ SameSession(Revoking(S)[t], session[t])
                              /\ Revoking(S)[t].expires = session[t].expires
                              /\ Revoking(S)[t].lastUsed = session[t].lastUsed
                              /\ Revoking(S)[t].revoked = (session[t].revoked \/ t \in S)
<1>1. \A t \in Issued : session[t] \in Row
  BY DEF TypeOK
<1>2. \A t \in Issued : [session[t] EXCEPT !.revoked = @ \/ t \in S] \in Row
  BY <1>1 DEF Row
<1>. QED BY <1>1, <1>2 DEF Revoking, SameSession, Row, Issued

LEMMA RevokingOnlyRevokes ==
  ASSUME TypeOK, NEW S, session' = Revoking(S)
  PROVE  OnlyRevokes
BY RevokingRevokes DEF OnlyRevokes, SameRows, Issued

LEMMA UnchangedOnlyRevokes ==
  ASSUME TypeOK, session' = session
  PROVE  OnlyRevokes
BY DEF OnlyRevokes, SameRows, TypeOK, SameSession, Issued

LEMMA RetireOnlyRevokes ==
  ASSUME IInv, NEW c \in Call, Retire(c)
  PROVE  OnlyRevokes
<1>1. token[c] \in Issued
  BY DEF Retire, IInv, CopiesOK, CopyOK, PcOK, TokensOf
<1>2. TypeOK /\ now \in Nat
  BY SessionAssumption DEF IInv, TypeOK
<1>. DEFINE R == Revoking({token[c]})
<1>3. R \in [Issued -> Row] /\ DOMAIN R = Issued
  BY <1>2, RevokingRevokes
<1>4. session' = [R EXCEPT ![token[c]].lastUsed = now]
  BY DEF Retire
<1>5. \A t \in Issued : /\ SameSession(R[t], session[t]) /\ R[t].expires = session[t].expires
                        /\ session[t].revoked => R[t].revoked
  BY <1>2, RevokingRevokes
<1>. HIDE DEF R
<1>6. \A t \in Issued : /\ session'[t] \in Row
                        /\ SameSession(session'[t], R[t])
                        /\ session'[t].expires = R[t].expires
                        /\ session'[t].revoked = R[t].revoked
  BY <1>1, <1>2, <1>3, <1>4 DEF Row, SameSession
<1>7. Issued' = Issued /\ session' \in [Issued -> Row]
  BY <1>1, <1>2, <1>3, <1>4, <1>6 DEF Issued, Row
<1>. QED BY <1>5, <1>6, <1>7 DEF OnlyRevokes, SameRows, SameSession

-----------------------------------------------------------------------------
(* What a step of call c leaves alone. *)

Frame(c) ==
  /\ ask' = ask
  /\ \A d \in Call \ {c} : pc'[d] = pc[d] /\ token'[d] = token[d] /\ row'[d] = row[d]

LEMMA CallFunctions ==
  ASSUME IInv
  PROVE  /\ DOMAIN pc = Call /\ DOMAIN token = Call /\ DOMAIN row = Call
         /\ pc = [d \in Call |-> pc[d]] /\ token = [d \in Call |-> token[d]]
         /\ row = [d \in Call |-> row[d]]
BY DEF IInv, TypeOK, PcOK

LEMMA Kept ==
  ASSUME IInv, NEW c \in Call, SameRows, Frame(c), TypeOK', PcOK', CopyOK(c)'
  PROVE  IInv'
<1>1. FamiliesFounded'
  BY DEF IInv, FamiliesFounded, SameRows, SameSession
<1>2. FamilyKeepsLifetime'
  <2>1. \A f \in Token : Members(f)' = Members(f)
    BY DEF SameRows, Members, SameSession
  <2>2. \A t \in Issued : session'[t].family \in Token /\ session'[t].family = session[t].family
    BY DEF IInv, TypeOK, SameRows, SameSession, Row
  <2>. QED BY <2>1, <2>2 DEF IInv, FamilyKeepsLifetime, SameRows, SameSession, Members
<1>3. ASSUME NEW d \in Call \ {c} PROVE CopyOK(d)'
  <2>1. CopyOK(d) /\ pc'[d] = pc[d] /\ token'[d] = token[d] /\ row'[d] = row[d] /\ ask' = ask
    BY DEF IInv, CopiesOK, Frame
  <2>2. \A u \in User : TokensOf(u)' = TokensOf(u)
    BY DEF SameRows, TokensOf, SameSession
  <2>3. ask[d].user \in User
    BY DEF IInv, TypeOK, Request
  <2>4. Issued' = Issued /\ \A t \in Issued : SameSession(session'[t], session[t])
    BY DEF SameRows
  <2>. QED BY <2>1, <2>2, <2>3, <2>4 DEF CopyOK, SameSession, TokensOf
<1>. QED BY <1>1, <1>2, <1>3 DEF IInv, CopiesOK

-----------------------------------------------------------------------------
(* The steps of TokensService, but for those that insert or restore. *)

LEMMA FindOthersStep ==
  ASSUME IInv, NEW c \in Call, FindOthers(c), UNCHANGED <<userVars, accLocals>>
  PROVE  IInv' /\ OnlyRevokes /\ Frame(c)
<1>. TypeOK /\ PcOK /\ CopyOK(c)
  BY DEF IInv, CopiesOK
<1>1. OnlyRevokes
  BY UnchangedOnlyRevokes DEF FindOthers, tables
<1>2. Frame(c)
  BY CallFunctions DEF Frame, FindOthers, Goto, End, tables, locals
<1>3. TypeOK'
  BY <1>1 DEF TypeOK, OnlyRevokes, SameRows, userVars, accLocals, FindOthers, Goto, End, tables, locals, Issued, Live, TokensOf, Unrevoked, Members
<1>4. PcOK'
  BY DEF PcOK, PcSet, FindOthers, Goto, End, tables, locals
<1>5. CopyOK(c)'
  BY <1>1 DEF CopyOK, OnlyRevokes, SameRows, TypeOK, PcOK, FindOthers, Goto, End, tables, locals, SameSession, TokensOf, Issued, SignIns
<1>. QED BY <1>1, <1>2, <1>3, <1>4, <1>5, Kept DEF OnlyRevokes

LEMMA ReadForRefreshStep ==
  ASSUME IInv, NEW c \in Call, ReadForRefresh(c), UNCHANGED <<userVars, accLocals>>
  PROVE  IInv' /\ OnlyRevokes /\ Frame(c)
<1>. TypeOK /\ PcOK /\ CopyOK(c)
  BY DEF IInv, CopiesOK
<1>1. OnlyRevokes
  BY UnchangedOnlyRevokes DEF ReadForRefresh, tables
<1>2. Frame(c)
  BY CallFunctions DEF Frame, ReadForRefresh, Goto, End, tables, locals, Reused
<1>3. TypeOK'
  BY <1>1 DEF TypeOK, OnlyRevokes, SameRows, userVars, accLocals, ReadForRefresh, Goto, End, tables, locals, Reused, Issued, Live, TokensOf, Unrevoked, Members
<1>4. PcOK'
  BY DEF PcOK, PcSet, ReadForRefresh, Goto, End, tables, locals, Reused
<1>5. CopyOK(c)'
  BY <1>1 DEF CopyOK, OnlyRevokes, SameRows, TypeOK, PcOK, ReadForRefresh, Goto, End, tables, locals, Reused, SameSession, TokensOf, Issued, SignIns
<1>. QED BY <1>1, <1>2, <1>3, <1>4, <1>5, Kept DEF OnlyRevokes

LEMMA LoadUserStep ==
  ASSUME IInv, NEW c \in Call, LoadUser(c), UNCHANGED <<userVars, accLocals>>
  PROVE  IInv' /\ OnlyRevokes /\ Frame(c)
<1>. TypeOK /\ PcOK /\ CopyOK(c)
  BY DEF IInv, CopiesOK
<1>1. OnlyRevokes
  BY UnchangedOnlyRevokes DEF LoadUser, tables
<1>2. Frame(c)
  BY CallFunctions DEF Frame, LoadUser, Goto, End, tables, locals
<1>3. TypeOK'
  BY <1>1 DEF TypeOK, OnlyRevokes, SameRows, userVars, accLocals, LoadUser, Goto, End, tables, locals, Issued, Live, TokensOf, Unrevoked, Members
<1>4. PcOK'
  BY DEF PcOK, PcSet, LoadUser, Goto, End, tables, locals
<1>5. CopyOK(c)'
  BY <1>1 DEF CopyOK, OnlyRevokes, SameRows, TypeOK, PcOK, LoadUser, Goto, End, tables, locals, SameSession, TokensOf, Issued, SignIns
<1>. QED BY <1>1, <1>2, <1>3, <1>4, <1>5, Kept DEF OnlyRevokes

LEMMA ReadForLogoutStep ==
  ASSUME IInv, NEW c \in Call, ReadForLogout(c), UNCHANGED <<userVars, accLocals>>
  PROVE  IInv' /\ OnlyRevokes /\ Frame(c)
<1>. TypeOK /\ PcOK /\ CopyOK(c)
  BY DEF IInv, CopiesOK
<1>1. OnlyRevokes
  BY UnchangedOnlyRevokes DEF ReadForLogout, tables
<1>2. Frame(c)
  BY CallFunctions DEF Frame, ReadForLogout, Goto, End, tables, locals
<1>3. TypeOK'
  BY <1>1 DEF TypeOK, OnlyRevokes, SameRows, userVars, accLocals, ReadForLogout, Goto, End, tables, locals, Issued, Live, TokensOf, Unrevoked, Members
<1>4. PcOK'
  BY DEF PcOK, PcSet, ReadForLogout, Goto, End, tables, locals
<1>5. CopyOK(c)'
  BY <1>1 DEF CopyOK, OnlyRevokes, SameRows, TypeOK, PcOK, ReadForLogout, Goto, End, tables, locals, SameSession, TokensOf, Issued, SignIns
<1>. QED BY <1>1, <1>2, <1>3, <1>4, <1>5, Kept DEF OnlyRevokes

LEMMA ReadTargetStep ==
  ASSUME IInv, NEW c \in Call, ReadTarget(c), UNCHANGED <<userVars, accLocals>>
  PROVE  IInv' /\ OnlyRevokes /\ Frame(c)
<1>. TypeOK /\ PcOK /\ CopyOK(c)
  BY DEF IInv, CopiesOK
<1>1. OnlyRevokes
  BY UnchangedOnlyRevokes DEF ReadTarget, tables
<1>2. Frame(c)
  BY CallFunctions DEF Frame, ReadTarget, Goto, End, tables, locals
<1>3. PICK t \in Issued : token' = [token EXCEPT ![c] = t]
  BY DEF ReadTarget
<1>4. TypeOK'
  <2>1. token' \in [Call -> Issued' \cup {None}]
    BY <1>1, <1>3 DEF TypeOK, OnlyRevokes, SameRows
  <2>. QED BY <2>1 DEF TypeOK, ReadTarget, Goto, End, tables, userVars, accLocals, Issued
<1>5. PcOK'
  BY DEF PcOK, PcSet, ReadTarget, Goto, End, tables
<1>6. CopyOK(c)'
  <2>1. token'[c] = t /\ pc'[c] \in {"ended", "revoke"} /\ Issued' = Issued
    BY <1>1, <1>3 DEF TypeOK, PcOK, ReadTarget, Goto, End, OnlyRevokes, SameRows
  <2>. QED BY <2>1 DEF CopyOK
<1>. QED BY <1>1, <1>2, <1>4, <1>5, <1>6, Kept DEF OnlyRevokes

LEMMA RevokeOneStep ==
  ASSUME IInv, NEW c \in Call, RevokeOne(c), UNCHANGED <<userVars, accLocals>>
  PROVE  IInv' /\ OnlyRevokes /\ Frame(c)
<1>. TypeOK /\ PcOK /\ CopyOK(c)
  BY DEF IInv, CopiesOK
<1>1. OnlyRevokes
  BY RevokingOnlyRevokes DEF RevokeOne, tables
<1>2. Frame(c)
  BY CallFunctions DEF Frame, RevokeOne, Goto, End, tables, locals
<1>3. TypeOK'
  BY <1>1 DEF TypeOK, OnlyRevokes, SameRows, userVars, accLocals, RevokeOne, Goto, End, tables, locals, Issued, Live, TokensOf, Unrevoked, Members
<1>4. PcOK'
  BY DEF PcOK, PcSet, RevokeOne, Goto, End, tables, locals
<1>5. CopyOK(c)'
  BY <1>1 DEF CopyOK, OnlyRevokes, SameRows, TypeOK, PcOK, RevokeOne, Goto, End, tables, locals, SameSession, TokensOf, Issued, SignIns
<1>. QED BY <1>1, <1>2, <1>3, <1>4, <1>5, Kept DEF OnlyRevokes

LEMMA SignOutEverywhereStep ==
  ASSUME IInv, NEW c \in Call, SignOutEverywhere(c), UNCHANGED <<userVars, accLocals>>
  PROVE  IInv' /\ OnlyRevokes /\ Frame(c)
<1>. TypeOK /\ PcOK /\ CopyOK(c)
  BY DEF IInv, CopiesOK
<1>1. OnlyRevokes
  BY UnchangedOnlyRevokes DEF SignOutEverywhere, tables
<1>2. Frame(c)
  BY CallFunctions DEF Frame, SignOutEverywhere, Goto, End, tables, locals
<1>3. TypeOK'
  BY <1>1 DEF TypeOK, OnlyRevokes, SameRows, userVars, accLocals, SignOutEverywhere, Goto, End, tables, locals, Issued, Live, TokensOf, Unrevoked, Members
<1>4. PcOK'
  BY DEF PcOK, PcSet, SignOutEverywhere, Goto, End, tables, locals
<1>5. CopyOK(c)'
  BY <1>1 DEF CopyOK, OnlyRevokes, SameRows, TypeOK, PcOK, SignOutEverywhere, Goto, End, tables, locals, SameSession, TokensOf, Issued, SignIns
<1>. QED BY <1>1, <1>2, <1>3, <1>4, <1>5, Kept DEF OnlyRevokes

LEMMA SweepStep ==
  ASSUME IInv, NEW c \in Call, Sweep(c), UNCHANGED <<userVars, accLocals>>
  PROVE  IInv' /\ OnlyRevokes /\ Frame(c)
<1>. TypeOK /\ PcOK /\ CopyOK(c)
  BY DEF IInv, CopiesOK
<1>1. OnlyRevokes
  BY UnchangedOnlyRevokes DEF Sweep, tables
<1>2. Frame(c)
  BY CallFunctions DEF Frame, Sweep, Goto, End, tables, locals, Scope
<1>3. TypeOK'
  BY <1>1 DEF TypeOK, OnlyRevokes, SameRows, userVars, accLocals, Sweep, Goto, End, tables, locals, Scope, Issued, Live, TokensOf, Unrevoked, Members
<1>4. PcOK'
  BY DEF PcOK, PcSet, Sweep, Goto, End, tables, locals, Scope
<1>5. CopyOK(c)'
  BY <1>1 DEF CopyOK, OnlyRevokes, SameRows, TypeOK, PcOK, Sweep, Goto, End, tables, locals, Scope, SameSession, TokensOf, Issued, SignIns
<1>. QED BY <1>1, <1>2, <1>3, <1>4, <1>5, Kept DEF OnlyRevokes

LEMMA ApplyStep ==
  ASSUME IInv, NEW c \in Call, Apply(c), UNCHANGED <<userVars, accLocals>>
  PROVE  IInv' /\ OnlyRevokes /\ Frame(c)
<1>. TypeOK /\ PcOK /\ CopyOK(c)
  BY DEF IInv, CopiesOK
<1>1. OnlyRevokes
  BY RevokingOnlyRevokes DEF Apply, tables
<1>2. Frame(c)
  BY CallFunctions DEF Frame, Apply, Goto, End, tables, locals, Restores
<1>3. TypeOK'
  BY <1>1 DEF TypeOK, OnlyRevokes, SameRows, userVars, accLocals, Apply, Goto, End, tables, locals, Restores, Issued, Live, TokensOf, Unrevoked, Members
<1>4. PcOK'
  BY DEF PcOK, PcSet, Apply, Goto, End, tables, locals, Restores
<1>5. CopyOK(c)'
  BY <1>1 DEF CopyOK, OnlyRevokes, SameRows, TypeOK, PcOK, Apply, Goto, End, tables, locals, Restores, SameSession, TokensOf, Issued, SignIns
<1>. QED BY <1>1, <1>2, <1>3, <1>4, <1>5, Kept DEF OnlyRevokes

LEMMA RetireStep ==
  ASSUME IInv, NEW c \in Call, Retire(c), UNCHANGED <<userVars, accLocals>>
  PROVE  IInv' /\ OnlyRevokes /\ Frame(c)
<1>. TypeOK /\ PcOK /\ CopyOK(c)
  BY DEF IInv, CopiesOK
<1>1. OnlyRevokes
  BY RetireOnlyRevokes DEF Retire, tables
<1>2. Frame(c)
  BY CallFunctions DEF Frame, Retire, Goto, End, tables, locals
<1>3. TypeOK'
  BY <1>1 DEF TypeOK, OnlyRevokes, SameRows, userVars, accLocals, Retire, Goto, End, tables, locals, Issued, Live, TokensOf, Unrevoked, Members
<1>4. PcOK'
  BY DEF PcOK, PcSet, Retire, Goto, End, tables, locals
<1>5. CopyOK(c)'
  BY <1>1 DEF CopyOK, OnlyRevokes, SameRows, TypeOK, PcOK, Retire, Goto, End, tables, locals, SameSession, TokensOf, Issued, SignIns
<1>. QED BY <1>1, <1>2, <1>3, <1>4, <1>5, Kept DEF OnlyRevokes

-----------------------------------------------------------------------------
(* The steps that insert a row and that give one back. *)

LEMMA RestoreRows ==
  ASSUME IInv, NEW c \in Call, Restore(c)
  PROVE  /\ SameRows
         /\ token[c] \in TokensOf(ask[c].user)
         /\ \A t \in Issued \ {token[c]} : session'[t] = session[t]
<1>. TypeOK /\ PcOK /\ CopyOK(c)
  BY DEF IInv, CopiesOK
<1>1. token[c] \in TokensOf(ask[c].user)
  BY DEF Restore, PcOK, CopyOK
<1>2. session \in [Issued -> Row] /\ token[c] \in Issued
  BY <1>1 DEF TypeOK, TokensOf
<1>3. session' = [session EXCEPT ![token[c]].revoked = FALSE]
  BY DEF Restore
<1>4. \A t \in Issued : /\ session'[t] \in Row
                        /\ SameSession(session'[t], session[t])
                        /\ session'[t].expires = session[t].expires
  BY <1>2, <1>3 DEF Row, SameSession
<1>5. Issued' = Issued /\ session' \in [Issued -> Row]
  BY <1>2, <1>3, <1>4 DEF Issued
<1>6. \A t \in Issued \ {token[c]} : session'[t] = session[t]
  BY <1>2, <1>3
<1>. QED BY <1>1, <1>4, <1>5, <1>6 DEF SameRows

LEMMA RestoreStep ==
  ASSUME IInv, NEW c \in Call, Restore(c), UNCHANGED <<userVars, accLocals>>
  PROVE  IInv'
<1>. TypeOK /\ PcOK
  BY DEF IInv
<1>1. SameRows
  BY RestoreRows
<1>2. Frame(c)
  BY CallFunctions DEF Frame, Restore, End, locals
<1>3. TypeOK'
  BY <1>1 DEF TypeOK, SameRows, userVars, accLocals, Restore, End, locals, Issued
<1>4. PcOK'
  BY DEF PcOK, PcSet, Restore, End
<1>5. CopyOK(c)'
  BY DEF CopyOK, PcOK, Restore, End
<1>. QED BY <1>1, <1>2, <1>3, <1>4, <1>5, Kept

\* The row that is inserted: a first session, or one more of a family there is.
LEMMA NewRowOK ==
  ASSUME IInv, NEW c \in Call, pc[c] = "issue", NEW t \in Token \ Issued
  PROVE  /\ RowFor(c, t) \in Row
         /\ RowFor(c, t).expires <= RowFor(c, t).absolute
         /\ RowFor(c, t).user = ask[c].user
         /\ ask[c].op # "refresh" => RowFor(c, t).family = t
         /\ ask[c].op = "refresh" => /\ token[c] \in Issued
                                     /\ row[c].family = RowFor(c, t).family
                                     /\ SameSession(RowFor(c, t), session[token[c]])
<1>. TypeOK /\ PcOK /\ CopyOK(c)
  BY DEF IInv, CopiesOK
<1>1. now \in Nat /\ now + AbsoluteTtl \in Nat /\ now + LongTtl \in Nat /\ now + ShortTtl \in Nat
  BY SessionAssumption DEF TypeOK
<1>2. \A a, b \in Nat : Min2(a, b) \in Nat /\ Min2(a, b) <= b
  BY DEF Min2
<1>3. ASSUME NEW u \in User, NEW f \in Token, NEW r \in BOOLEAN, NEW a \in Nat
      PROVE  NewRow(u, f, r, a) \in Row /\ NewRow(u, f, r, a).expires <= NewRow(u, f, r, a).absolute
  BY <1>1, <1>2 DEF NewRow, Row
<1>4. ask[c].user \in User /\ ask[c].remember \in BOOLEAN
  BY DEF TypeOK, Request
<1>5. CASE ask[c].op = "refresh"
  <2>1. /\ token[c] \in TokensOf(ask[c].user) /\ row[c] \in Row
        /\ SameSession(row[c], session[token[c]])
    BY <1>5 DEF CopyOK
  <2>2. RowFor(c, t) = NewRow(row[c].user, row[c].family, row[c].remember, row[c].absolute)
    BY <1>5 DEF RowFor
  <2>3. RowFor(c, t) \in Row /\ RowFor(c, t).expires <= RowFor(c, t).absolute
    BY <1>3, <2>1, <2>2 DEF Row
  <2>4. SameSession(RowFor(c, t), row[c])
    BY <2>2 DEF NewRow, SameSession
  <2>. QED BY <1>5, <2>1, <2>3, <2>4 DEF SameSession, TokensOf
<1>6. CASE ask[c].op # "refresh"
  <2>1. RowFor(c, t) = NewRow(ask[c].user, t, ask[c].remember, now + AbsoluteTtl)
    BY <1>6 DEF RowFor
  <2>2. RowFor(c, t) \in Row /\ RowFor(c, t).expires <= RowFor(c, t).absolute
    BY <1>1, <1>3, <1>4, <2>1
  <2>3. RowFor(c, t).user = ask[c].user /\ RowFor(c, t).family = t
    BY <2>1 DEF NewRow
  <2>. QED BY <1>6, <2>2, <2>3
<1>. QED BY <1>5, <1>6

LEMMA IssueRows ==
  ASSUME IInv, NEW c \in Call, Issue(c)
  PROVE  \E t \in Token \ Issued :
           /\ Issued' = Issued \cup {t}
           /\ session'[t] = RowFor(c, t)
           /\ \A x \in Issued : /\ session'[x] \in Row
                                /\ SameSession(session'[x], session[x])
                                /\ session'[x].expires = session[x].expires
                                /\ session[x].revoked => session'[x].revoked
           /\ made' = [made EXCEPT ![c] = t]
<1>. TypeOK
  BY DEF IInv
<1>1. PICK t \in Token \ Issued :
        /\ session' = [x \in Issued \cup {t} |->
                        IF x = t THEN RowFor(c, t) ELSE Revoking(snap[c])[x]]
        /\ made' = [made EXCEPT ![c] = t]
  BY DEF Issue
<1>. DEFINE R == Revoking(snap[c])
<1>2. \A x \in Issued : /\ R[x] \in Row /\ SameSession(R[x], session[x])
                        /\ R[x].expires = session[x].expires
                        /\ session[x].revoked => R[x].revoked
  <2>1. /\ R \in [Issued -> Row]
        /\ \A x \in Issued : /\ SameSession(R[x], session[x])
                             /\ R[x].expires = session[x].expires
                             /\ R[x].revoked = (session[x].revoked \/ x \in snap[c])
    BY RevokingRevokes
  <2>. HIDE DEF R
  <2>2. \A x \in Issued : R[x] \in Row /\ (session[x].revoked => R[x].revoked)
    BY <2>1
  <2>. QED BY <2>1, <2>2
<1>3. session' = [x \in Issued \cup {t} |-> IF x = t THEN RowFor(c, t) ELSE R[x]]
  BY <1>1
<1>. HIDE DEF R
<1>4. Issued' = Issued \cup {t}
  BY <1>3 DEF Issued
<1>5. session'[t] = RowFor(c, t) /\ \A x \in Issued : session'[x] = R[x]
  BY <1>3
<1>. QED BY <1>1, <1>2, <1>4, <1>5

LEMMA IssueStep ==
  ASSUME IInv, NEW c \in Call, Issue(c), UNCHANGED <<userVars, accLocals>>
  PROVE  IInv'
<1>. TypeOK /\ PcOK /\ CopiesOK /\ FamiliesFounded /\ FamilyKeepsLifetime
  BY DEF IInv
<1>1. PICK t \in Token \ Issued :
           /\ Issued' = Issued \cup {t}
           /\ session'[t] = RowFor(c, t)
           /\ \A x \in Issued : /\ session'[x] \in Row
                                /\ SameSession(session'[x], session[x])
                                /\ session'[x].expires = session[x].expires
                                /\ session[x].revoked => session'[x].revoked
           /\ made' = [made EXCEPT ![c] = t]
  BY IssueRows
<1>2. /\ RowFor(c, t) \in Row
      /\ RowFor(c, t).expires <= RowFor(c, t).absolute
      /\ RowFor(c, t).user = ask[c].user
      /\ ask[c].op # "refresh" => RowFor(c, t).family = t
      /\ ask[c].op = "refresh" => /\ token[c] \in Issued
                                  /\ row[c].family = RowFor(c, t).family
                                  /\ SameSession(RowFor(c, t), session[token[c]])
  BY NewRowOK DEF Issue
<1>. DEFINE r == RowFor(c, t)
<1>. HIDE DEF r
<1>3. Frame(c)
  BY CallFunctions DEF Frame, Issue, Goto, End
<1>4. session' \in [Issued' -> Row]
  <2>1. \E i : session' = [x \in Issued \cup {t} |-> i[x]]
    BY <1>1 DEF Issue, Issued
  <2>. QED BY <1>1, <1>2, <2>1 DEF Issued
<1>5. TypeOK'
  BY <1>1, <1>4 DEF TypeOK, userVars, accLocals, Issue, Goto, End
<1>6. PcOK'
  BY DEF PcOK, PcSet, Issue, Goto, End
<1>7. \A x \in Issued : session'[x].family = session[x].family /\ session[x].family \in Issued
  BY <1>1 DEF FamiliesFounded, SameSession
<1>8. FamiliesFounded'
  BY <1>1, <1>2, <1>7 DEF FamiliesFounded, SameSession
<1>9. \A x, y \in Issued' : session'[x].family = session'[y].family => SameSession(session'[x], session'[y])
  <2>1. \A x, y \in Issued : session[x].family = session[y].family => SameSession(session[x], session[y])
    BY DEF FamilyKeepsLifetime, Members, SameSession
  <2>2. \A x, y \in Issued : session'[x].family = session'[y].family => SameSession(session'[x], session'[y])
    BY <1>1, <2>1 DEF SameSession
  <2>3. \A x \in Issued : session'[x].family = session'[t].family => SameSession(session'[x], session'[t])
    <3>1. CASE ask[c].op = "refresh"
      BY <1>1, <1>2, <2>2, <3>1 DEF SameSession
    <3>2. CASE ask[c].op # "refresh"
      BY <1>1, <1>2, <1>7, <3>2
    <3>. QED BY <3>1, <3>2
  <2>. QED BY <1>1, <2>2, <2>3 DEF SameSession
<1>10. \A x \in Issued' : session'[x].expires <= session'[x].absolute
  BY <1>1, <1>2 DEF FamilyKeepsLifetime, SameSession
<1>11. FamilyKeepsLifetime'
  BY <1>9, <1>10 DEF FamilyKeepsLifetime, Members, SameSession
<1>12. ASSUME NEW d \in Call PROVE CopyOK(d)'
  <2>1. ask' = ask /\ token' = token /\ row' = row
    BY DEF Issue
  <2>2. CopyOK(d)
    BY DEF CopiesOK
  <2>3. \A u \in User : TokensOf(u) \subseteq TokensOf(u)'
    BY <1>1 DEF TokensOf, SameSession
  <2>4. ask[d].user \in User
    BY DEF TypeOK, Request
  <2>5. CASE d # c
    <3>1. pc'[d] = pc[d]
      BY <1>3, <2>5 DEF Frame
    <3>. QED BY <1>1, <2>1, <2>2, <2>3, <2>4, <3>1 DEF CopyOK, SameSession, TokensOf
  <2>6. CASE d = c
    <3>1. pc'[c] \in {"retire", "ended"} /\ (pc'[c] = "retire" => ask[c].op = "refresh") /\ pc[c] = "issue"
      BY <2>6 DEF Issue, Goto, End, PcOK
    <3>. QED BY <1>1, <2>1, <2>2, <2>3, <2>4, <2>6, <3>1 DEF CopyOK, SameSession, TokensOf
  <2>. QED BY <2>5, <2>6
<1>. QED BY <1>5, <1>6, <1>8, <1>11, <1>12 DEF IInv, CopiesOK

-----------------------------------------------------------------------------
(* The steps of the account services. *)

\* A step of call c that leaves the sessions, and what calls know of them, alone.
Quiet(c) ==
  /\ UNCHANGED <<ask, session, token, row>>
  /\ \A d \in Call \ {c} : pc'[d] = pc[d]
  /\ pc'[c] \notin {"load", "retire", "sweep", "apply", "restore", "revoke"}
  /\ pc'[c] = "issue" => ask[c].op \in SignIns

LEMMA QuietKeeps ==
  ASSUME IInv, NEW c \in Call, Quiet(c), TypeOK', PcOK'
  PROVE  IInv'
<1>1. SameRows
  BY UnchangedOnlyRevokes DEF IInv, Quiet, OnlyRevokes
<1>2. Frame(c)
  BY DEF Quiet, Frame
<1>3. CopyOK(c)'
  BY DEF Quiet, CopyOK, SignIns
<1>. QED BY <1>1, <1>2, <1>3, Kept

LEMMA NamesType ==
  ASSUME NEW m \in [Kinds -> [User -> Name \cup {None}]], NEW k \in Kinds, NEW u \in User,
         NEW n \in Name \cup {None}
  PROVE  [m EXCEPT ![k][u] = n] \in [Kinds -> [User -> Name \cup {None}]]
OBVIOUS

LEMMA SignUpStep ==
  ASSUME IInv, NEW c \in Call, SignUp(c)
  PROVE  IInv' /\ Quiet(c)
<1>. TypeOK /\ PcOK
  BY DEF IInv
<1>1. TypeOK'
  BY DEF TypeOK, Issued, SignUp, Goto, End, tables, locals, userVars, accLocals, Request, Op
<1>2. PcOK'
  BY DEF PcOK, PcSet, SignUp, Goto, End, SignIns, AccountOps, MoneyOps
<1>3. Quiet(c)
  BY DEF Quiet, PcOK, SignUp, Goto, End, tables, locals, SignIns
<1>. QED BY <1>1, <1>2, <1>3, QuietKeeps

LEMMA LogInStep ==
  ASSUME IInv, NEW c \in Call, LogIn(c)
  PROVE  IInv' /\ Quiet(c)
<1>. TypeOK /\ PcOK
  BY DEF IInv
<1>1. TypeOK'
  BY DEF TypeOK, Issued, LogIn, Goto, End, tables, locals, userVars, accLocals
<1>2. PcOK'
  BY DEF PcOK, PcSet, LogIn, Goto, End, SignIns, AccountOps, MoneyOps
<1>3. Quiet(c)
  BY DEF Quiet, PcOK, LogIn, Goto, End, tables, locals, SignIns
<1>. QED BY <1>1, <1>2, <1>3, QuietKeeps

LEMMA LogInWithGoogleStep ==
  ASSUME IInv, NEW c \in Call, LogInWithGoogle(c)
  PROVE  IInv' /\ Quiet(c)
<1>. TypeOK /\ PcOK
  BY DEF IInv
<1>1. TypeOK'
  BY DEF TypeOK, Issued, LogInWithGoogle, Goto, End, tables, locals, userVars, accLocals
<1>2. PcOK'
  BY DEF PcOK, PcSet, LogInWithGoogle, Goto, End, SignIns, AccountOps, MoneyOps
<1>3. Quiet(c)
  BY DEF Quiet, PcOK, LogInWithGoogle, Goto, End, tables, locals, SignIns
<1>. QED BY <1>1, <1>2, <1>3, QuietKeeps

LEMMA FindEmailStep ==
  ASSUME IInv, NEW c \in Call, FindEmail(c)
  PROVE  IInv' /\ Quiet(c)
<1>. TypeOK /\ PcOK
  BY DEF IInv
<1>1. TypeOK'
  BY DEF TypeOK, Issued, FindEmail, Goto, End, tables, locals, userVars, accLocals
<1>2. PcOK'
  BY DEF PcOK, PcSet, FindEmail, Goto, End, SignIns, AccountOps, MoneyOps
<1>3. Quiet(c)
  BY DEF Quiet, PcOK, FindEmail, Goto, End, tables, locals, SignIns
<1>. QED BY <1>1, <1>2, <1>3, QuietKeeps

LEMMA ResolveUsernameStep ==
  ASSUME IInv, NEW c \in Call, ResolveUsername(c)
  PROVE  IInv' /\ Quiet(c)
<1>. TypeOK /\ PcOK
  BY DEF IInv
<1>1. TypeOK'
  <2>1. ask[c].username \in Name \cup {None}
    BY DEF TypeOK, Request
  <2>2. chosen' \in [Call -> Name \cup {None}]
    BY <2>1, AccountAssumption DEF TypeOK, ResolveUsername
  <2>. QED BY <2>2 DEF TypeOK, Issued, ResolveUsername, Goto, End, tables, locals, userVars, accLocals
<1>2. PcOK'
  BY DEF PcOK, PcSet, ResolveUsername, Goto, End, SignIns, AccountOps, MoneyOps
<1>3. Quiet(c)
  BY DEF Quiet, PcOK, ResolveUsername, Goto, End, tables, locals, SignIns
<1>. QED BY <1>1, <1>2, <1>3, QuietKeeps

LEMMA CreateUserStep ==
  ASSUME IInv, NEW c \in Call, CreateUser(c)
  PROVE  IInv' /\ Quiet(c)
<1>. TypeOK /\ PcOK
  BY DEF IInv
<1>1. TypeOK'
  <2>1. ask[c].user \in User /\ ask[c].name \in Name /\ chosen[c] \in Name \cup {None}
    BY DEF TypeOK, Request
  <2>2. names' \in [Kinds -> [User -> Name \cup {None}]]
    <3>1. PICK shown \in Name \cup {None} :
            \/ names' = names
            \/ names' = [names EXCEPT !["email"][ask[c].user] = ask[c].name,
                                      !["username"][ask[c].user] = chosen[c],
                                      !["display"][ask[c].user] = shown]
      BY AccountAssumption DEF CreateUser
    <3>. DEFINE m == [names EXCEPT !["email"][ask[c].user] = ask[c].name]
                n == [m EXCEPT !["username"][ask[c].user] = chosen[c]]
    <3>2. {"email", "username", "display"} \subseteq Kinds /\ names \in [Kinds -> [User -> Name \cup {None}]]
      BY DEF TypeOK, Kinds
    <3>3. m \in [Kinds -> [User -> Name \cup {None}]]
      BY <2>1, <3>2, NamesType
    <3>4. n \in [Kinds -> [User -> Name \cup {None}]]
      <4>. HIDE DEF m
      <4>. QED BY <2>1, <3>2, <3>3, NamesType
    <3>5. names' = names \/ names' = [n EXCEPT !["display"][ask[c].user] = shown]
      BY <3>1
    <3>. HIDE DEF m, n
    <3>6. [n EXCEPT !["display"][ask[c].user] = shown] \in [Kinds -> [User -> Name \cup {None}]]
      BY <2>1, <3>1, <3>2, <3>4, NamesType
    <3>. QED BY <3>2, <3>5, <3>6
  <2>3. /\ status' \in [User -> {"absent", "active", "deleted"}]
        /\ login' \in [User -> {"none", "password", "google"}]
        /\ onboarded' \in [User -> BOOLEAN]
    BY <2>1 DEF TypeOK, CreateUser
  <2>. QED BY <2>2, <2>3 DEF TypeOK, Issued, CreateUser, Goto, End, tables, locals, userVars, accLocals
<1>2. PcOK'
  BY DEF PcOK, PcSet, CreateUser, Goto, End, SignIns, AccountOps, MoneyOps
<1>3. Quiet(c)
  BY DEF Quiet, PcOK, CreateUser, Goto, End, tables, locals, SignIns
<1>. QED BY <1>1, <1>2, <1>3, QuietKeeps

LEMMA ReadMeForNameStep ==
  ASSUME IInv, NEW c \in Call, ReadMeForName(c)
  PROVE  IInv' /\ Quiet(c)
<1>. TypeOK /\ PcOK
  BY DEF IInv
<1>1. TypeOK'
  BY DEF TypeOK, Issued, ReadMeForName, Goto, End, tables, locals, userVars, accLocals
<1>2. PcOK'
  BY DEF PcOK, PcSet, ReadMeForName, Goto, End, SignIns, AccountOps, MoneyOps
<1>3. Quiet(c)
  BY DEF Quiet, PcOK, ReadMeForName, Goto, End, tables, locals, SignIns
<1>. QED BY <1>1, <1>2, <1>3, QuietKeeps

LEMMA FindNameStep ==
  ASSUME IInv, NEW c \in Call, FindName(c)
  PROVE  IInv' /\ Quiet(c)
<1>. TypeOK /\ PcOK
  BY DEF IInv
<1>1. TypeOK'
  BY DEF TypeOK, Issued, FindName, Goto, End, tables, locals, userVars, accLocals
<1>2. PcOK'
  BY DEF PcOK, PcSet, FindName, Goto, End, SignIns, AccountOps, MoneyOps
<1>3. Quiet(c)
  BY DEF Quiet, PcOK, FindName, Goto, End, tables, locals, SignIns
<1>. QED BY <1>1, <1>2, <1>3, QuietKeeps

LEMMA ReadMeStep ==
  ASSUME IInv, NEW c \in Call, ReadMe(c)
  PROVE  IInv' /\ Quiet(c)
<1>. TypeOK /\ PcOK
  BY DEF IInv
<1>1. TypeOK'
  BY DEF TypeOK, Issued, ReadMe, Goto, End, tables, locals, userVars, accLocals
<1>2. PcOK'
  BY DEF PcOK, PcSet, ReadMe, Goto, End, SignIns, AccountOps, MoneyOps
<1>3. Quiet(c)
  BY DEF Quiet, PcOK, ReadMe, Goto, End, tables, locals, SignIns
<1>. QED BY <1>1, <1>2, <1>3, QuietKeeps

LEMMA ReadMeForPrefsStep ==
  ASSUME IInv, NEW c \in Call, ReadMeForPrefs(c)
  PROVE  IInv' /\ Quiet(c)
<1>. TypeOK /\ PcOK
  BY DEF IInv
<1>1. TypeOK'
  <2>1. prefs[ask[c].user] \in Prefs /\ ask[c].digest \in BOOLEAN
    BY DEF TypeOK, Request
  <2>2. [prefs[ask[c].user] EXCEPT !.digest = ask[c].digest] \in Prefs
    BY <2>1 DEF Prefs
  <2>3. draft' \in [Call -> Prefs]
    BY <2>2 DEF TypeOK, ReadMeForPrefs
  <2>. QED BY <2>3 DEF TypeOK, Issued, ReadMeForPrefs, Goto, End, tables, locals, userVars, accLocals
<1>2. PcOK'
  BY DEF PcOK, PcSet, ReadMeForPrefs, Goto, End, SignIns, AccountOps, MoneyOps
<1>3. Quiet(c)
  BY DEF Quiet, PcOK, ReadMeForPrefs, Goto, End, tables, locals, SignIns
<1>. QED BY <1>1, <1>2, <1>3, QuietKeeps

LEMMA WriteStep ==
  ASSUME IInv, NEW c \in Call, Write(c)
  PROVE  IInv' /\ Quiet(c)
<1>. TypeOK /\ PcOK
  BY DEF IInv
<1>1. TypeOK'
  <2>1. ask[c].user \in User /\ ask[c].name \in Name
    BY DEF TypeOK, Request
  <2>2. names' \in [Kinds -> [User -> Name \cup {None}]]
    <3>1. names' = names \/ names' = [names EXCEPT !["display"][ask[c].user] = ask[c].name]
      BY DEF Write, Named
    <3>2. "display" \in Kinds /\ names \in [Kinds -> [User -> Name \cup {None}]]
      BY DEF TypeOK, Kinds
    <3>3. [names EXCEPT !["display"][ask[c].user] = ask[c].name]
            \in [Kinds -> [User -> Name \cup {None}]]
      BY <2>1, <3>2, NamesType
    <3>. QED BY <3>1, <3>2, <3>3
  <2>3. prefs' \in [User -> Prefs] /\ onboarded' \in [User -> BOOLEAN]
    BY <2>1 DEF TypeOK, Write
  <2>. QED BY <2>2, <2>3 DEF TypeOK, Issued, Write, Goto, End, tables, locals, userVars, accLocals
<1>2. PcOK'
  BY DEF PcOK, PcSet, Write, Goto, End, SignIns, AccountOps, MoneyOps
<1>3. Quiet(c)
  BY DEF Quiet, PcOK, Write, Goto, End, tables, locals, SignIns
<1>. QED BY <1>1, <1>2, <1>3, QuietKeeps

LEMMA ReadBalanceStep ==
  ASSUME IInv, NEW c \in Call, ReadBalance(c)
  PROVE  IInv' /\ Quiet(c)
<1>. TypeOK /\ PcOK
  BY DEF IInv
<1>1. TypeOK'
  BY DEF TypeOK, Issued, ReadBalance, Goto, End, tables, locals, userVars, accLocals
<1>2. PcOK'
  BY DEF PcOK, PcSet, ReadBalance, Goto, End, SignIns, AccountOps, MoneyOps
<1>3. Quiet(c)
  BY DEF Quiet, PcOK, ReadBalance, Goto, End, tables, locals, SignIns
<1>. QED BY <1>1, <1>2, <1>3, QuietKeeps

LEMMA RequestResetStep ==
  ASSUME IInv, NEW c \in Call, RequestReset(c)
  PROVE  IInv' /\ Quiet(c)
<1>. TypeOK /\ PcOK
  BY DEF IInv
<1>1. TypeOK'
  BY DEF TypeOK, Issued, RequestReset, Goto, End, tables, locals, userVars, accLocals
<1>2. PcOK'
  BY DEF PcOK, PcSet, RequestReset, Goto, End, SignIns, AccountOps, MoneyOps
<1>3. Quiet(c)
  BY DEF Quiet, PcOK, RequestReset, Goto, End, tables, locals, SignIns
<1>. QED BY <1>1, <1>2, <1>3, QuietKeeps

LEMMA CloseLinksStep ==
  ASSUME IInv, NEW c \in Call, CloseLinks(c)
  PROVE  IInv' /\ Quiet(c)
<1>. TypeOK /\ PcOK
  BY DEF IInv
<1>1. TypeOK'
  BY DEF TypeOK, Issued, CloseLinks, Goto, End, tables, locals, userVars, accLocals
<1>2. PcOK'
  BY DEF PcOK, PcSet, CloseLinks, Goto, End, SignIns, AccountOps, MoneyOps
<1>3. Quiet(c)
  BY DEF Quiet, PcOK, CloseLinks, Goto, End, tables, locals, SignIns
<1>. QED BY <1>1, <1>2, <1>3, QuietKeeps

LEMMA InsertLinkStep ==
  ASSUME IInv, NEW c \in Call, InsertLink(c)
  PROVE  IInv' /\ Quiet(c)
<1>. TypeOK /\ PcOK
  BY DEF IInv
<1>1. TypeOK'
  <2>. DEFINE LinkRow == [user : User, expires : Nat, used : BOOLEAN]
  <2>1. ask[c].user \in User /\ now + ResetTtl \in Nat
    BY SessionAssumption DEF TypeOK, Request
  <2>2. PICK l \in Link \ DOMAIN link :
          /\ link' = [x \in DOMAIN link \cup {l} |->
                        IF x = l
                        THEN [user |-> ask[c].user, expires |-> now + ResetTtl, used |-> FALSE]
                        ELSE link[x]]
          /\ slip' = [slip EXCEPT ![c] = l]
    BY DEF InsertLink
  <2>3. /\ DOMAIN link' = DOMAIN link \cup {l} /\ l \in Link
        /\ link' \in [DOMAIN link' -> LinkRow]
    BY <2>1, <2>2 DEF TypeOK
  <2>4. slip' \in [Call -> DOMAIN link' \cup {None}]
    BY <2>2, <2>3 DEF TypeOK
  <2>. QED BY <2>3, <2>4 DEF TypeOK, Issued, InsertLink, Goto, End, tables, locals, userVars, accLocals
<1>2. PcOK'
  BY DEF PcOK, PcSet, InsertLink, Goto, End, SignIns, AccountOps, MoneyOps
<1>3. Quiet(c)
  BY DEF Quiet, PcOK, InsertLink, Goto, End, tables, locals, SignIns
<1>. QED BY <1>1, <1>2, <1>3, QuietKeeps

LEMMA ReadLinkStep ==
  ASSUME IInv, NEW c \in Call, ReadLink(c)
  PROVE  IInv' /\ Quiet(c)
<1>. TypeOK /\ PcOK
  BY DEF IInv
<1>1. TypeOK'
  BY DEF TypeOK, Issued, ReadLink, Goto, End, tables, locals, userVars, accLocals
<1>2. PcOK'
  BY DEF PcOK, PcSet, ReadLink, Goto, End, SignIns, AccountOps, MoneyOps
<1>3. Quiet(c)
  BY DEF Quiet, PcOK, ReadLink, Goto, End, tables, locals, SignIns
<1>. QED BY <1>1, <1>2, <1>3, QuietKeeps

LEMMA LockUserStep ==
  ASSUME IInv, NEW c \in Call, LockUser(c)
  PROVE  IInv' /\ Quiet(c)
<1>. TypeOK /\ PcOK
  BY DEF IInv
<1>1. TypeOK'
  BY DEF TypeOK, Issued, LockUser, Goto, End, tables, locals, userVars, accLocals, Live, TokensOf, Unrevoked
<1>2. PcOK'
  BY DEF PcOK, PcSet, LockUser, Goto, End, SignIns, AccountOps, MoneyOps
<1>3. Quiet(c)
  BY DEF Quiet, PcOK, LockUser, Goto, End, tables, locals, SignIns
<1>. QED BY <1>1, <1>2, <1>3, QuietKeeps

LEMMA MoneyMovesStep ==
  ASSUME IInv, NEW c \in Call, MoneyMoves(c)
  PROVE  IInv' /\ Quiet(c)
<1>. TypeOK /\ PcOK
  BY DEF IInv
<1>1. TypeOK'
  BY DEF TypeOK, Issued, MoneyMoves, Goto, End, tables, locals, userVars, accLocals, Request
<1>2. PcOK'
  BY DEF PcOK, PcSet, MoneyMoves, Goto, End, SignIns, AccountOps, MoneyOps
<1>3. Quiet(c)
  BY DEF Quiet, PcOK, MoneyMoves, Goto, End, tables, locals, SignIns
<1>. QED BY <1>1, <1>2, <1>3, QuietKeeps

LEMMA DiesStep ==
  ASSUME IInv, NEW c \in Call, Dies(c)
  PROVE  IInv' /\ Quiet(c)
<1>. TypeOK /\ PcOK
  BY DEF IInv
<1>1. TypeOK'
  BY DEF TypeOK, Issued, Dies, Goto, End, tables, locals, userVars, accLocals
<1>2. PcOK'
  BY DEF PcOK, PcSet, Dies, Goto, End, SignIns, AccountOps, MoneyOps
<1>3. Quiet(c)
  BY DEF Quiet, PcOK, Dies, Goto, End, tables, locals, SignIns
<1>. QED BY <1>1, <1>2, <1>3, QuietKeeps

LEMMA AdmitStep ==
  ASSUME IInv, NEW c \in Call, Admit(c)
  PROVE  IInv' /\ OnlyRevokes /\ Frame(c)
         /\ pc'[c] \in {"sweep", "target", "me", "ended"}
<1>. TypeOK /\ PcOK
  BY DEF IInv
<1>1. PICK t \in TokensOf(ask[c].user) : token' = [token EXCEPT ![c] = t]
  BY DEF Admit
<1>2. pc' = [pc EXCEPT ![c] = pc'[c]] /\ pc'[c] \in {"sweep", "target", "me", "ended"}
  BY DEF Admit, Goto, End, FirstStatement, PcOK
<1>3. pc'[c] = "sweep" => ask[c].op = "elsewhere"
  BY DEF Admit, Goto, End, FirstStatement, PcOK
<1>4. OnlyRevokes
  BY UnchangedOnlyRevokes DEF Admit, tables
<1>5. Frame(c)
  BY <1>1, <1>2, CallFunctions DEF Frame, Admit
<1>6. TypeOK'
  <2>1. token' \in [Call -> Issued' \cup {None}]
    BY <1>1, <1>4 DEF TypeOK, OnlyRevokes, SameRows, TokensOf
  <2>. QED BY <2>1 DEF TypeOK, Issued, Admit, Goto, End, tables, userVars, accLocals
<1>7. PcOK'
  <2>1. pc'[c] \in PcSet
    BY <1>2 DEF PcSet
  <2>2. pc' \in [Call -> PcSet]
    BY <1>2, <2>1 DEF PcOK
  <2>. QED BY <1>2, <1>3, <2>2 DEF PcOK, Admit, SignIns
<1>8. CopyOK(c)'
  <2>1. token'[c] = t /\ ask' = ask /\ session' = session
    BY <1>1 DEF TypeOK, Admit, tables
  <2>. QED BY <1>2, <1>3, <2>1 DEF CopyOK, TokensOf, Issued
<1>. QED BY <1>2, <1>4, <1>5, <1>6, <1>7, <1>8, Kept DEF OnlyRevokes

LEMMA CommitUserStep ==
  ASSUME IInv, NEW c \in Call, CommitUser(c)
  PROVE  IInv' /\ OnlyRevokes /\ Frame(c) /\ pc'[c] = "ended"
<1>. TypeOK /\ PcOK
  BY DEF IInv
<1>1. OnlyRevokes
  BY RevokingOnlyRevokes DEF CommitUser
<1>2. Frame(c)
  BY CallFunctions DEF Frame, CommitUser, End, locals
<1>3. TypeOK'
  <2>1. ask[c].user \in User /\ ask[c].name \in Name
    BY DEF TypeOK, Request
  <2>2. names' \in [Kinds -> [User -> Name \cup {None}]]
    <3>1. names' = names \/ names' = [names EXCEPT !["email"][ask[c].user] = ask[c].name]
      BY DEF CommitUser, Named
    <3>2. "email" \in Kinds /\ names \in [Kinds -> [User -> Name \cup {None}]]
      BY DEF TypeOK, Kinds
    <3>3. [names EXCEPT !["email"][ask[c].user] = ask[c].name]
            \in [Kinds -> [User -> Name \cup {None}]]
      BY <2>1, <3>2, NamesType
    <3>. QED BY <3>1, <3>2, <3>3
  <2>3. status' \in [User -> {"absent", "active", "deleted"}]
    BY <2>1 DEF TypeOK, CommitUser
  <2>4. prefs' \in [User -> Prefs]
    <3>1. PrefsAfter(ask[c].op, ask[c].user) \in Prefs
      BY <2>1 DEF TypeOK, PrefsAfter, NoMail, Prefs
    <3>. QED BY <2>1, <3>1 DEF TypeOK, CommitUser
  <2>5. DOMAIN link' = DOMAIN link /\ link' \in [DOMAIN link -> [user : User, expires : Nat, used : BOOLEAN]]
    BY DEF TypeOK, CommitUser
  <2>. QED BY <1>1, <2>2, <2>3, <2>4, <2>5 DEF TypeOK, OnlyRevokes, SameRows, CommitUser, End, locals, accLocals
<1>4. PcOK'
  BY DEF PcOK, PcSet, CommitUser, End
<1>5. CopyOK(c)'
  BY DEF CopyOK, PcOK, CommitUser, End
<1>6. pc'[c] = "ended"
  BY DEF PcOK, CommitUser, End
<1>. QED BY <1>1, <1>2, <1>3, <1>4, <1>5, <1>6, Kept DEF OnlyRevokes

-----------------------------------------------------------------------------
(* The invariant. *)

LEMMA InitOK == Init => IInv
<1>. SUFFICES ASSUME Init PROVE IInv
  OBVIOUS
<1>. USE DEF Init, SessInit
<1>1. ask \in [Call -> Request] /\ Horizon[ask] \in Nat /\ Issued = {}
  BY SessionAssumption DEF Issued
<1>2. TypeOK
  <2>1. names \in [Kinds -> [User -> Name \cup {None}]]
    BY AccountAssumption DEF Kinds
  <2>2. prefs \in [User -> Prefs] /\ draft \in [Call -> Prefs]
    BY DEF DefaultPrefs, Prefs
  <2>. QED BY <1>1, <2>1, <2>2 DEF TypeOK, Issued
<1>3. PcOK
  BY DEF PcOK, PcSet
<1>4. CopiesOK
  BY DEF CopiesOK, CopyOK
<1>. QED BY <1>1, <1>2, <1>3, <1>4 DEF IInv, FamiliesFounded, FamilyKeepsLifetime

LEMMA TickOK ==
  ASSUME IInv, Tick, UNCHANGED <<userVars, accLocals>>
  PROVE  IInv'
<1>. TypeOK /\ PcOK /\ CopiesOK /\ FamiliesFounded /\ FamilyKeepsLifetime
  BY DEF IInv
<1>1. now' \in 0..Horizon'[ask']
  <2>1. Horizon[ask] \in Nat
    BY SessionAssumption DEF TypeOK
  <2>. QED BY <2>1 DEF TypeOK, Tick
<1>2. TypeOK'
  BY <1>1 DEF TypeOK, Tick, tables, locals, userVars, accLocals, Issued
<1>3. PcOK' /\ CopiesOK' /\ FamiliesFounded' /\ FamilyKeepsLifetime'
  BY DEF Tick, tables, locals, PcOK, CopiesOK, CopyOK, FamiliesFounded, FamilyKeepsLifetime,
         TokensOf, Members, Issued
<1>. QED BY <1>2, <1>3 DEF IInv

LEMMA NextOK ==
  ASSUME IInv, [Next]_vars
  PROVE  IInv'
<1>1. ASSUME NEW c \in Call, SessStep(c), UNCHANGED <<userVars, accLocals>>
      PROVE  IInv'
  BY <1>1, FindOthersStep, IssueStep, ReadForRefreshStep, LoadUserStep, RetireStep,
     ReadForLogoutStep, ReadTargetStep, RevokeOneStep, SignOutEverywhereStep, SweepStep,
     ApplyStep, RestoreStep
     DEF SessStep
<1>2. ASSUME NEW c \in Call, AccountStep(c)
      PROVE  IInv'
  BY <1>2, SignUpStep, LogInStep, LogInWithGoogleStep, FindEmailStep, ResolveUsernameStep,
     CreateUserStep, AdmitStep, ReadMeForNameStep, FindNameStep, ReadMeStep,
     ReadMeForPrefsStep, WriteStep, ReadBalanceStep, RequestResetStep, CloseLinksStep,
     InsertLinkStep, ReadLinkStep, LockUserStep, CommitUserStep, MoneyMovesStep, DiesStep
     DEF AccountStep
<1>3. CASE UNCHANGED vars
  BY <1>3 DEF vars, sessVars, userVars, accLocals, tables, locals, IInv, TypeOK, PcOK,
     CopiesOK, CopyOK, FamiliesFounded, FamilyKeepsLifetime, TokensOf, Members, Issued
<1>. QED BY <1>1, <1>2, <1>3, TickOK DEF Next

LEMMA Invariant == Spec => []IInv
<1>1. Init => IInv
  BY InitOK
<1>2. IInv /\ [Next]_vars => IInv'
  BY NextOK
<1>. QED BY <1>1, <1>2, PTL DEF Spec

(***************************************************************************)
(* Whatever the requests are: every row of users, refresh_tokens and       *)
(* password_reset_tokens stays well-formed, and what a call holds is an id *)
(* of a row there is (TypeOK; all services of auth/ and users/).           *)
(***************************************************************************)
THEOREM TypeCorrect == Spec => []TypeOK
<1>1. IInv => TypeOK
  BY DEF IInv
<1>. QED BY <1>1, Invariant, PTL

(***************************************************************************)
(* Refreshing never prolongs a session past the end it was given at        *)
(* sign-in, and never changes whose it is, for any lifetimes and any       *)
(* number of refreshes at once (issueTokenPair, rotateRefreshToken).       *)
(***************************************************************************)
THEOREM FamilyLifetime == Spec => []FamilyKeepsLifetime
<1>1. IInv => FamilyKeepsLifetime
  BY DEF IInv
<1>. QED BY <1>1, Invariant, PTL

-----------------------------------------------------------------------------
(* A family that has ended. *)

\* A step that revokes at most, and lets no call towards the family.
LEMMA EndedByFrame ==
  ASSUME IInv, NEW c \in Call, NEW f \in Token, FamilyEnded(f), OnlyRevokes, Frame(c),
         pc'[c] \in {"load", "issue"} /\ ask[c].op = "refresh" => row'[c].family # f,
         pc'[c] = "restore" => token'[c] \notin Members(f)
  PROVE  FamilyEnded(f)'
<1>1. Members(f)' = Members(f) /\ Members(f)' \cap Unrevoked' = {}
  BY DEF OnlyRevokes, SameRows, SameSession, Members, Unrevoked, FamilyEnded
<1>2. \A d \in Call : pc'[d] \in {"load", "issue"} /\ ask'[d].op = "refresh" => row'[d].family # f
  BY DEF Frame, FamilyEnded
<1>3. \A d \in Call : pc'[d] = "restore" => token'[d] \notin Members(f)
  BY DEF Frame, FamilyEnded
<1>. QED BY <1>1, <1>2, <1>3 DEF FamilyEnded

LEMMA EndedByIssue ==
  ASSUME IInv, NEW c \in Call, NEW f \in Token, FamilyEnded(f), Issue(c)
  PROVE  FamilyEnded(f)'
<1>. TypeOK /\ PcOK /\ CopiesOK /\ FamiliesFounded
  BY DEF IInv
<1>1. PICK t \in Token \ Issued :
           /\ Issued' = Issued \cup {t}
           /\ session'[t] = RowFor(c, t)
           /\ \A x \in Issued : /\ session'[x] \in Row
                                /\ SameSession(session'[x], session[x])
                                /\ session'[x].expires = session[x].expires
                                /\ session[x].revoked => session'[x].revoked
           /\ made' = [made EXCEPT ![c] = t]
  BY IssueRows
<1>2. /\ ask[c].op # "refresh" => RowFor(c, t).family = t
      /\ ask[c].op = "refresh" => row[c].family = RowFor(c, t).family
  BY NewRowOK DEF Issue
<1>3. pc[c] = "issue" /\ pc'[c] \in {"retire", "ended"} /\ Frame(c)
  BY CallFunctions DEF Issue, Goto, End, Frame, PcOK
<1>4. f \in Issued
  BY DEF FamilyEnded, Members, FamiliesFounded
<1>5. RowFor(c, t).family # f
  BY <1>2, <1>3, <1>4 DEF FamilyEnded
<1>6. Members(f)' = Members(f) /\ Members(f)' \cap Unrevoked' = {}
  BY <1>1, <1>5 DEF SameSession, Members, Unrevoked, FamilyEnded
<1>7. \A d \in Call : pc'[d] \in {"load", "issue"} /\ ask'[d].op = "refresh" => row'[d].family # f
  BY <1>3 DEF Frame, FamilyEnded
<1>8. \A d \in Call : pc'[d] = "restore" => token'[d] \notin Members(f)
  BY <1>3 DEF Frame, FamilyEnded
<1>. QED BY <1>6, <1>7, <1>8 DEF FamilyEnded

LEMMA EndedByRestore ==
  ASSUME IInv, NEW c \in Call, NEW f \in Token, FamilyEnded(f), Restore(c)
  PROVE  FamilyEnded(f)'
<1>1. SameRows /\ \A t \in Issued \ {token[c]} : session'[t] = session[t]
  BY RestoreRows
<1>2. pc[c] = "restore" /\ pc'[c] = "ended" /\ Frame(c)
  BY CallFunctions DEF Restore, End, Frame, IInv, PcOK, locals
<1>3. Members(f)' = Members(f) /\ token[c] \notin Members(f)
  BY <1>1, <1>2 DEF SameRows, SameSession, Members, FamilyEnded
<1>4. Members(f)' \cap Unrevoked' = {}
  BY <1>1, <1>3 DEF SameRows, Members, Unrevoked, FamilyEnded
<1>5. \A d \in Call : pc'[d] \in {"load", "issue"} /\ ask'[d].op = "refresh" => row'[d].family # f
  BY <1>2 DEF Frame, FamilyEnded
<1>6. \A d \in Call : pc'[d] = "restore" => token'[d] \notin Members(f)
  BY <1>2 DEF Frame, FamilyEnded
<1>. QED BY <1>3, <1>4, <1>5, <1>6 DEF FamilyEnded

LEMMA EndedBySession ==
  ASSUME IInv, NEW c \in Call, NEW f \in Token, FamilyEnded(f), SessStep(c),
         UNCHANGED <<userVars, accLocals>>
  PROVE  FamilyEnded(f)'
<1>. TypeOK /\ PcOK
  BY DEF IInv
<1>. DEFINE Ending == pc'[c] \notin {"load", "issue", "restore"}
<1>1. CASE FindOthers(c)
  <2>1. ask[c].op \in SignIns /\ pc'[c] = "issue"
    BY <1>1 DEF FindOthers, Goto, PcOK
  <2>. QED BY <1>1, <2>1, FindOthersStep, EndedByFrame DEF SignIns
<1>2. CASE Issue(c)
  BY <1>2, EndedByIssue
<1>3. CASE ReadForRefresh(c)
  <2>1. PICK t \in TokensOf(ask[c].user) :
          /\ row' = [row EXCEPT ![c] = session[t]]
          /\ pc'[c] \in {"sweep", "ended"} \/ (pc'[c] = "load" /\ ~session[t].revoked)
    BY <1>3 DEF ReadForRefresh, Reused, Goto, End, PcOK
  <2>2. row'[c] = session[t]
    BY <2>1 DEF TypeOK
  <2>3. pc'[c] = "load" => row'[c].family # f
    BY <2>1, <2>2 DEF FamilyEnded, Members, Unrevoked, TokensOf
  <2>. QED BY <1>3, <2>1, <2>3, ReadForRefreshStep, EndedByFrame
<1>4. CASE LoadUser(c)
  <2>1. row'[c].family # f /\ pc'[c] \in {"issue", "ended"}
    BY <1>4 DEF LoadUser, FamilyEnded, PcOK, locals, Goto, End
  <2>. QED BY <1>4, <2>1, LoadUserStep, EndedByFrame
<1>5. CASE Apply(c)
  <2>1. pc'[c] \in {"restore", "ended"} /\ token' = token
    BY <1>5 DEF Apply, Goto, End, PcOK
  <2>2. pc'[c] = "restore" => token[c] \in Unrevoked
    BY <1>5 DEF Apply, Restores, Goto, End, PcOK
  <2>3. pc'[c] = "restore" => token'[c] \notin Members(f)
    BY <2>1, <2>2 DEF FamilyEnded
  <2>. QED BY <1>5, <2>1, <2>3, ApplyStep, EndedByFrame
<1>6. CASE Restore(c)
  BY <1>6, EndedByRestore
<1>7. CASE Retire(c) \/ RevokeOne(c) \/ ReadForLogout(c) \/ ReadTarget(c)
  <2>1. Ending
    BY <1>7 DEF Retire, RevokeOne, ReadForLogout, ReadTarget, Goto, End, PcOK
  <2>. QED BY <1>7, <2>1, RetireStep, RevokeOneStep, ReadForLogoutStep, ReadTargetStep, EndedByFrame
<1>8. CASE SignOutEverywhere(c) \/ Sweep(c)
  <2>1. Ending
    BY <1>8 DEF SignOutEverywhere, Sweep, Goto, PcOK
  <2>. QED BY <1>8, <2>1, SignOutEverywhereStep, SweepStep, EndedByFrame
<1>. QED BY <1>1, <1>2, <1>3, <1>4, <1>5, <1>6, <1>7, <1>8 DEF SessStep

LEMMA EndedByAccount ==
  ASSUME IInv, NEW c \in Call, NEW f \in Token, FamilyEnded(f), AccountStep(c)
  PROVE  FamilyEnded(f)'
<1>1. CASE Admit(c)
  BY <1>1, AdmitStep, EndedByFrame
<1>2. CASE CommitUser(c)
  BY <1>2, CommitUserStep, EndedByFrame
<1>3. ASSUME Quiet(c) PROVE FamilyEnded(f)'
  <2>1. OnlyRevokes /\ Frame(c)
    BY <1>3, UnchangedOnlyRevokes DEF Quiet, Frame, IInv
  <2>. QED BY <1>3, <2>1, EndedByFrame DEF Quiet, SignIns
<1>. QED
  BY <1>1, <1>2, <1>3, SignUpStep, LogInStep, LogInWithGoogleStep, FindEmailStep,
     ResolveUsernameStep, CreateUserStep, ReadMeForNameStep, FindNameStep, ReadMeStep,
     ReadMeForPrefsStep, WriteStep, ReadBalanceStep, RequestResetStep, CloseLinksStep,
     InsertLinkStep, ReadLinkStep, LockUserStep, MoneyMovesStep, DiesStep
     DEF AccountStep

(***************************************************************************)
(* A family of sessions that has ended stays ended: no reuse of any of its *)
(* tokens, at any time and by any number of requests at once, makes it     *)
(* live again (the reuse check of rotateRefreshToken, revokeFamily and the *)
(* condition under which revokeAllForUser restores a session).             *)
(***************************************************************************)
THEOREM EndedStays == Spec => EndedFamilyStaysEnded
<1>1. IInv /\ [Next]_vars => [\A f \in Token : FamilyEnded(f) => FamilyEnded(f)']_sessVars
  <2>. SUFFICES ASSUME IInv, Next, NEW f \in Token, FamilyEnded(f), sessVars' # sessVars
                PROVE  FamilyEnded(f)'
    BY DEF vars
  <2>1. CASE Tick
    BY <2>1 DEF Tick, FamilyEnded, tables, locals, Members, Unrevoked, Issued
  <2>. QED BY <2>1, EndedBySession, EndedByAccount DEF Next
<1>. QED BY <1>1, Invariant, PTL DEF Spec, EndedFamilyStaysEnded

-----------------------------------------------------------------------------
(* Deleted accounts. *)

\* Gone(u), of one call.
CallGone(c, u) ==
  ask[c].user = u =>
    /\ pc[c] \notin {"others", "issue", "restore"}
    /\ ask[c].op = "prefs" => pc[c] \notin {"me", "write"}

\* A step that revokes at most keeps u gone, if call c does.
LEMMA GoneByFrame ==
  ASSUME IInv, NEW c \in Call, NEW u \in User, Gone(u), OnlyRevokes, Frame(c),
         status'[u] = status[u], prefs'[u] = NoMail, CallGone(c, u)'
  PROVE  Gone(u)'
<1>1. Live(u)' = {}
  BY DEF OnlyRevokes, SameRows, SameSession, Live, TokensOf, Unrevoked, Gone
<1>2. \A d \in Call : CallGone(d, u)'
  BY DEF Frame, Gone, CallGone
<1>. QED BY <1>1, <1>2 DEF Gone, CallGone

LEMMA GoneBySession ==
  ASSUME IInv, NEW c \in Call, NEW u \in User, Gone(u), SessStep(c),
         UNCHANGED <<userVars, accLocals>>
  PROVE  Gone(u)'
<1>. TypeOK /\ PcOK /\ CopyOK(c)
  BY DEF IInv, CopiesOK
<1>1. status' = status /\ prefs' = prefs /\ ask' = ask
  BY DEF SessStep, FindOthers, Issue, ReadForRefresh, LoadUser, Retire, ReadForLogout, ReadTarget,
     RevokeOne, SignOutEverywhere, Sweep, Apply, Restore, tables, userVars
<1>2. CASE Issue(c)
  <2>1. PICK t \in Token \ Issued :
           /\ Issued' = Issued \cup {t}
           /\ session'[t] = RowFor(c, t)
           /\ \A x \in Issued : /\ session'[x] \in Row
                                /\ SameSession(session'[x], session[x])
                                /\ session'[x].expires = session[x].expires
                                /\ session[x].revoked => session'[x].revoked
           /\ made' = [made EXCEPT ![c] = t]
    BY <1>2, IssueRows
  <2>2. RowFor(c, t).user = ask[c].user /\ pc[c] = "issue"
    BY <1>2, NewRowOK DEF Issue
  <2>3. ask[c].user # u
    BY <2>2 DEF Gone
  <2>4. Live(u)' = {}
    BY <2>1, <2>2, <2>3 DEF SameSession, Live, TokensOf, Unrevoked, Gone
  <2>5. Frame(c)
    BY <1>2, CallFunctions DEF Issue, Goto, End, Frame
  <2>. QED BY <1>1, <2>3, <2>4, <2>5 DEF Gone, Frame
<1>3. CASE Restore(c)
  <2>1. /\ token[c] \in TokensOf(ask[c].user) /\ SameRows
        /\ \A t \in Issued \ {token[c]} : session'[t] = session[t]
    BY <1>3, RestoreRows
  <2>2. ask[c].user # u
    BY <1>3 DEF Restore, Gone
  <2>3. Live(u)' = {}
    BY <2>1, <2>2 DEF SameRows, SameSession, Live, TokensOf, Unrevoked, Gone
  <2>4. Frame(c)
    BY <1>3, CallFunctions DEF Restore, End, Frame, locals
  <2>. QED BY <1>1, <2>2, <2>3, <2>4 DEF Gone, Frame
<1>4. CASE LoadUser(c)
  <2>1. ask[c].user = u => pc'[c] = "ended"
    <3>1. row[c].user = ask[c].user
      BY <1>4 DEF LoadUser, CopyOK, PcOK, SameSession, TokensOf
    <3>. QED BY <1>4, <3>1 DEF LoadUser, End, Goto, PcOK, Gone
  <2>. QED BY <1>1, <1>4, <2>1, LoadUserStep, GoneByFrame DEF Gone, CallGone
<1>5. CASE Apply(c)
  <2>1. snap[c] \cap Unrevoked \cap TokensOf(u) = {}
    BY DEF Gone, Live
  <2>2. ask[c].user = u => pc'[c] = "ended"
    BY <1>5, <2>1 DEF Apply, Restores, Goto, End, PcOK, CopyOK
  <2>. QED BY <1>1, <1>5, <2>2, ApplyStep, GoneByFrame DEF Gone, CallGone
<1>6. CASE FindOthers(c)
  <2>1. ask[c].user # u
    BY <1>6 DEF FindOthers, Gone
  <2>. QED BY <1>1, <1>6, <2>1, FindOthersStep, GoneByFrame DEF Gone, CallGone
<1>7. CASE ReadForRefresh(c) \/ Retire(c) \/ ReadForLogout(c) \/ ReadTarget(c) \/ RevokeOne(c)
             \/ SignOutEverywhere(c) \/ Sweep(c)
  <2>1. pc'[c] \in {"load", "sweep", "apply", "revoke", "ended"}
    BY <1>7 DEF ReadForRefresh, Retire, ReadForLogout, ReadTarget, RevokeOne, SignOutEverywhere,
       Sweep, Goto, End, PcOK
  <2>2. OnlyRevokes /\ Frame(c)
    BY <1>7, ReadForRefreshStep, RetireStep, ReadForLogoutStep, ReadTargetStep, RevokeOneStep,
       SignOutEverywhereStep, SweepStep
  <2>. QED BY <1>1, <2>1, <2>2, GoneByFrame DEF Gone, CallGone
<1>. QED BY <1>2, <1>3, <1>4, <1>5, <1>6, <1>7 DEF SessStep

\* Of the account services, those that write the status or preferences of users.
LEMMA GoneByWriters ==
  ASSUME IInv, NEW c \in Call, NEW u \in User, Gone(u),
         CreateUser(c) \/ Write(c) \/ CommitUser(c)
  PROVE  Gone(u)'
<1>. TypeOK /\ PcOK
  BY DEF IInv
<1>0. ask[c].user \in User /\ ask' = ask
  BY DEF TypeOK, Request, CreateUser, Write, CommitUser
<1>1. CASE CreateUser(c)
  <2>1. status'[u] = status[u] /\ prefs' = prefs
    BY <1>0, <1>1 DEF CreateUser, TypeOK, Gone
  <2>2. ask[c].user = u => pc'[c] = "ended"
    BY <1>1 DEF CreateUser, End, Goto, PcOK, Gone
  <2>3. OnlyRevokes /\ Frame(c)
    BY <1>1, CreateUserStep, UnchangedOnlyRevokes DEF Quiet, Frame
  <2>. QED BY <1>0, <2>1, <2>2, <2>3, GoneByFrame DEF Gone, CallGone
<1>2. CASE Write(c)
  <2>1. status' = status /\ pc'[c] = "ended"
    BY <1>2 DEF Write, End, PcOK, tables
  <2>2. prefs'[u] = prefs[u]
    BY <1>0, <1>2 DEF Write, TypeOK, Gone
  <2>3. OnlyRevokes /\ Frame(c)
    BY <1>2, WriteStep, UnchangedOnlyRevokes DEF Quiet, Frame
  <2>. QED BY <1>0, <2>1, <2>2, <2>3, GoneByFrame DEF Gone, CallGone
<1>3. CASE CommitUser(c)
  <2>1. status'[u] = status[u]
    BY <1>0, <1>3 DEF CommitUser, TypeOK, Gone
  <2>2. prefs'[u] = NoMail
    BY <1>0, <1>3 DEF CommitUser, PrefsAfter, TypeOK, Gone
  <2>. QED BY <1>0, <1>3, <2>1, <2>2, CommitUserStep, GoneByFrame DEF CallGone
<1>. QED BY <1>1, <1>2, <1>3

LEMMA GoneByAccount ==
  ASSUME IInv, NEW c \in Call, NEW u \in User, Gone(u), AccountStep(c)
  PROVE  Gone(u)'
<1>. TypeOK /\ PcOK
  BY DEF IInv
<1>1. CASE Admit(c)
  <2>1. status' = status /\ prefs' = prefs /\ ask' = ask
    BY <1>1 DEF Admit, tables, userVars
  <2>2. ask[c].user = u => pc'[c] = "ended"
    BY <1>1 DEF Admit, IsSessionActive, Gone, End, Goto, PcOK
  <2>. QED BY <1>1, <2>1, <2>2, AdmitStep, GoneByFrame DEF Gone, CallGone
<1>2. CASE CreateUser(c) \/ Write(c) \/ CommitUser(c)
  BY <1>2, GoneByWriters
<1>3. ASSUME Quiet(c), UNCHANGED <<status, prefs>>, CallGone(c, u)' PROVE Gone(u)'
  <2>1. OnlyRevokes /\ Frame(c)
    BY <1>3, UnchangedOnlyRevokes DEF Quiet, Frame
  <2>. QED BY <1>3, <2>1, GoneByFrame DEF Gone
<1>4. CASE LogIn(c) \/ LogInWithGoogle(c)
  <2>1. UNCHANGED <<ask, status, prefs>>
    BY <1>4 DEF LogIn, LogInWithGoogle, tables, userVars
  <2>2. ask[c].user = u => pc'[c] = "ended"
    BY <1>4 DEF LogIn, LogInWithGoogle, MaySignIn, Gone, End, Goto, PcOK
  <2>. QED BY <1>3, <1>4, <2>1, <2>2, LogInStep, LogInWithGoogleStep DEF CallGone
<1>5. CASE SignUp(c) \/ FindEmail(c) \/ ResolveUsername(c) \/ ReadMeForName(c) \/ FindName(c)
             \/ ReadMe(c) \/ ReadMeForPrefs(c)
  <2>1. UNCHANGED <<ask, status, prefs>>
    BY <1>5 DEF SignUp, FindEmail, ResolveUsername, ReadMeForName, FindName, ReadMe,
       ReadMeForPrefs, tables, userVars
  <2>2. CallGone(c, u)'
    BY <1>5, <2>1 DEF SignUp, FindEmail, ResolveUsername, ReadMeForName, FindName, ReadMe,
       ReadMeForPrefs, Goto, End, PcOK, Gone, CallGone
  <2>. QED
    BY <1>3, <1>5, <2>1, <2>2, SignUpStep, FindEmailStep, ResolveUsernameStep, ReadMeForNameStep,
       FindNameStep, ReadMeStep, ReadMeForPrefsStep
<1>6. CASE ReadBalance(c) \/ RequestReset(c) \/ CloseLinks(c) \/ InsertLink(c) \/ ReadLink(c)
             \/ LockUser(c) \/ MoneyMoves(c) \/ Dies(c)
  <2>1. UNCHANGED <<ask, status, prefs>>
    BY <1>6 DEF ReadBalance, RequestReset, CloseLinks, InsertLink, ReadLink, LockUser,
       MoneyMoves, Dies, tables, userVars
  <2>2. pc'[c] \in {"closeLinks", "insertLink", "lock", "commit", "ended"}
    BY <1>6 DEF ReadBalance, RequestReset, CloseLinks, InsertLink, ReadLink, LockUser,
       MoneyMoves, Dies, Goto, End, PcOK
  <2>. QED
    BY <1>3, <1>6, <2>1, <2>2, ReadBalanceStep, RequestResetStep, CloseLinksStep, InsertLinkStep,
       ReadLinkStep, LockUserStep, MoneyMovesStep, DiesStep
       DEF CallGone
<1>. QED BY <1>1, <1>2, <1>4, <1>5, <1>6 DEF AccountStep

(***************************************************************************)
(* A deleted account stays deleted and silent: no sign-in, no refresh, no  *)
(* reset link, no restored session and no late write of preferences undoes *)
(* it once the requests that were under way are over (softDeleteAccount,   *)
(* login, loginWithGoogle, rotateRefreshToken, JwtAuthGuard).              *)
(***************************************************************************)
THEOREM GoneStays == Spec => GoneForGood
<1>1. IInv /\ [Next]_vars => [\A u \in User : Gone(u) => Gone(u)']_vars
  <2>. SUFFICES ASSUME IInv, Next, NEW u \in User, Gone(u)
                PROVE  Gone(u)'
    OBVIOUS
  <2>1. CASE Tick /\ UNCHANGED <<userVars, accLocals>>
    BY <2>1 DEF Tick, Gone, tables, userVars, Live, TokensOf, Unrevoked, Issued
  <2>. QED BY <2>1, GoneBySession, GoneByAccount DEF Next
<1>. QED BY <1>1, Invariant, PTL DEF Spec, GoneForGood

-----------------------------------------------------------------------------
(* Names. *)

\* A change of address that is about to commit has the address to itself.
Reserved ==
  \A c \in Call : pc[c] = "commit" /\ ask[c].op = "email" =>
    /\ ~Clashes("email", ask[c].name, ask[c].user)
    /\ EmailFree(c, ask[c].name)

NamesInv == NamesAreUnique /\ Reserved

\* A step that writes no name and does not get to a commit.
LEMMA NamesKept ==
  ASSUME NamesInv, NEW c \in Call, ask' = ask, names' = names,
         \A d \in Call \ {c} : pc'[d] = pc[d], pc'[c] # "commit"
  PROVE  NamesInv'
BY DEF NamesInv, NamesAreUnique, Reserved, Clashes, Holders, EmailFree

\* A name that nobody else has may be given.
LEMMA NameGiven ==
  ASSUME NamesAreUnique, names \in [Kinds -> [User -> Name \cup {None}]],
         NEW k \in Kinds, NEW n \in Name, NEW w \in User, ~Clashes(k, n, w),
         names' = Named(k, w, n)
  PROVE  /\ NamesAreUnique'
         /\ \A j \in Kinds, v \in User :
              names'[j][v] = IF j = k /\ v = w THEN n ELSE names[j][v]
<1>1. \A j \in Kinds, v \in User : names'[j][v] = IF j = k /\ v = w THEN n ELSE names[j][v]
  BY DEF Named
<1>2. \A v \in User \ {w} : names[k][v] # n
  BY DEF Clashes, Holders
<1>3. ASSUME NEW j \in Kinds, NEW u \in User, NEW v \in User, u # v, names'[j][u] # None
      PROVE  names'[j][u] # names'[j][v]
  <2>1. CASE j # k \/ (u # w /\ v # w)
    BY <1>1, <1>3, <2>1 DEF NamesAreUnique
  <2>2. CASE j = k /\ u = w
    BY <1>1, <1>2, <1>3, <2>2
  <2>3. CASE j = k /\ v = w
    BY <1>1, <1>2, <1>3, <2>3
  <2>. QED BY <2>1, <2>2, <2>3
<1>. QED BY <1>1, <1>3 DEF NamesAreUnique

LEMMA NamesByLock ==
  ASSUME IInv, NamesInv, NEW c \in Call, LockUser(c)
  PROVE  NamesInv'
<1>. TypeOK /\ PcOK
  BY DEF IInv
<1>1. /\ ask' = ask /\ names' = names /\ \A d \in Call \ {c} : pc'[d] = pc[d]
  BY LockUserStep DEF LockUser, Quiet, userVars
<1>2. CASE pc'[c] # "commit"
  BY <1>1, <1>2, NamesKept
<1>3. CASE pc'[c] = "commit"
  <2>1. ask[c].op = "email" =>
          ~Clashes("email", ask[c].name, ask[c].user) /\ EmailFree(c, ask[c].name)
    BY <1>3 DEF LockUser, End, PcOK
  <2>2. \A k, n, u : Clashes(k, n, u)' = Clashes(k, n, u)
    BY <1>1 DEF Clashes, Holders
  <2>3. Reserved'
    <3>. SUFFICES ASSUME NEW d \in Call, pc'[d] = "commit", ask[d].op = "email"
                  PROVE  /\ ~Clashes("email", ask[d].name, ask[d].user)
                         /\ \A e \in Call \ {d} : pc'[e] = "commit" /\ ask[e].op = "email" =>
                              ask[e].name # ask[d].name
      BY <1>1 DEF Reserved, Clashes, Holders, EmailFree
    <3>1. CASE d = c
      BY <1>1, <2>1, <3>1 DEF EmailFree
    <3>2. CASE d # c
      <4>1. /\ ~Clashes("email", ask[d].name, ask[d].user)
            /\ \A e \in Call \ {d, c} : pc'[e] = "commit" /\ ask[e].op = "email" =>
                 ask[e].name # ask[d].name
        BY <1>1, <3>2 DEF NamesInv, Reserved, EmailFree
      <4>2. ask[c].op = "email" => ask[c].name # ask[d].name
        BY <1>1, <2>1, <3>2 DEF EmailFree
      <4>. QED BY <4>1, <4>2
    <3>. QED BY <3>1, <3>2
  <2>. QED BY <1>1, <2>3 DEF NamesInv, NamesAreUnique
<1>. QED BY <1>2, <1>3

LEMMA NamesByCommit ==
  ASSUME IInv, NamesInv, NEW c \in Call, CommitUser(c)
  PROVE  NamesInv'
<1>. TypeOK /\ PcOK
  BY DEF IInv
<1>1. /\ ask' = ask /\ \A d \in Call \ {c} : pc'[d] = pc[d]
      /\ pc[c] = "commit" /\ pc'[c] = "ended"
  BY CommitUserStep DEF CommitUser, Frame
<1>2. CASE names' = names
  BY <1>1, <1>2, NamesKept
<1>3. CASE ask[c].op = "email" /\ names' = Named("email", ask[c].user, ask[c].name)
  <2>1. /\ ~Clashes("email", ask[c].name, ask[c].user) /\ EmailFree(c, ask[c].name)
        /\ ask[c].user \in User /\ ask[c].name \in Name /\ "email" \in Kinds
    BY <1>1, <1>3 DEF NamesInv, Reserved, TypeOK, Request, Kinds
  <2>2. names \in [Kinds -> [User -> Name \cup {None}]] /\ NamesAreUnique
    BY DEF TypeOK, NamesInv
  <2>3. /\ NamesAreUnique'
        /\ \A v \in User : names'["email"][v] =
             IF v = ask[c].user THEN ask[c].name ELSE names["email"][v]
    BY <1>3, <2>1, <2>2, NameGiven
  <2>4. ASSUME NEW d \in Call, pc'[d] = "commit", ask[d].op = "email"
        PROVE  /\ ~Clashes("email", ask[d].name, ask[d].user)'
               /\ EmailFree(d, ask[d].name)'
    <3>1. d # c /\ pc[d] = "commit"
      BY <1>1, <2>4
    <3>2. ask[d].name # ask[c].name
      BY <2>1, <2>4, <3>1 DEF EmailFree
    <3>3. /\ \A v \in User \ {ask[d].user} : names["email"][v] # ask[d].name
          /\ EmailFree(d, ask[d].name)
      BY <2>4, <3>1 DEF NamesInv, Reserved, Clashes, Holders
    <3>4. \A v \in User \ {ask[d].user} : names'["email"][v] # ask[d].name
      BY <2>3, <3>2, <3>3
    <3>. QED BY <1>1, <3>3, <3>4 DEF Clashes, Holders, EmailFree
  <2>. QED BY <1>1, <2>3, <2>4 DEF NamesInv, Reserved
<1>. QED BY <1>2, <1>3 DEF CommitUser

LEMMA NamesByWrite ==
  ASSUME IInv, NamesInv, NEW c \in Call, Write(c)
  PROVE  NamesInv'
<1>. TypeOK /\ PcOK
  BY DEF IInv
<1>1. ask' = ask /\ (\A d \in Call \ {c} : pc'[d] = pc[d]) /\ pc'[c] = "ended"
  BY WriteStep DEF Write, Quiet, End, PcOK
<1>2. CASE names' = names
  BY <1>1, <1>2, NamesKept
<1>3. CASE /\ ~Clashes("display", ask[c].name, ask[c].user)
           /\ names' = Named("display", ask[c].user, ask[c].name)
  <2>1. ask[c].user \in User /\ ask[c].name \in Name /\ {"display", "email"} \subseteq Kinds
    BY DEF TypeOK, Request, Kinds
  <2>2. names \in [Kinds -> [User -> Name \cup {None}]] /\ NamesAreUnique
    BY DEF TypeOK, NamesInv
  <2>3. NamesAreUnique' /\ \A v \in User : names'["email"][v] = names["email"][v]
    BY <1>3, <2>1, <2>2, NameGiven
  <2>4. Reserved'
    BY <1>1, <2>3 DEF NamesInv, Reserved, Clashes, Holders, EmailFree
  <2>. QED BY <2>3, <2>4 DEF NamesInv
<1>. QED BY <1>2, <1>3 DEF Write

LEMMA NamesByCreate ==
  ASSUME IInv, NamesInv, NEW c \in Call, CreateUser(c)
  PROVE  NamesInv'
<1>. TypeOK /\ PcOK
  BY DEF IInv
<1>. DEFINE u == ask[c].user
            n == ask[c].name
<1>1. /\ ask' = ask /\ \A d \in Call \ {c} : pc'[d] = pc[d]
      /\ pc'[c] # "commit" /\ EmailFree(c, n) /\ u \in User /\ n \in Name
      /\ None \notin Name /\ Kinds = {"email", "username", "display"}
  BY CreateUserStep, SessionAssumption
     DEF CreateUser, Quiet, Goto, End, PcOK, TypeOK, Request, Kinds
<1>2. CASE names' = names
  BY <1>1, <1>2, NamesKept
<1>3. ASSUME NEW shown,
             ~Clashes("email", n, u), ~Clashes("username", chosen[c], u),
             shown # None => ~Clashes("display", shown, u),
             names' = [names EXCEPT !["email"][u] = n, !["username"][u] = chosen[c],
                                    !["display"][u] = shown]
      PROVE  NamesInv'
  <2>. DEFINE given == [k \in Kinds |-> CASE k = "email" -> n
                                          [] k = "username" -> chosen[c]
                                          [] k = "display" -> shown]
  <2>1. names \in [Kinds -> [User -> Name \cup {None}]]
    BY DEF TypeOK
  <2>2. given["email"] = n /\ given["username"] = chosen[c] /\ given["display"] = shown
    BY <1>1
  <2>3. \A k \in Kinds, v \in User : names'[k][v] = IF v = u THEN given[k] ELSE names[k][v]
    BY <1>1, <1>3, <2>1, <2>2
  <2>4. \A k \in Kinds : given[k] # None => \A v \in User \ {u} : names[k][v] # given[k]
    BY <1>1, <1>3, <2>2 DEF Clashes, Holders
  <2>. HIDE DEF u, n, given
  <2>5. NamesAreUnique'
    <3>1. ASSUME NEW k \in Kinds, NEW v \in User, NEW w \in User, v # w, names'[k][v] # None
          PROVE  names'[k][v] # names'[k][w]
      <4>1. CASE v # u /\ w # u
        BY <2>3, <3>1, <4>1 DEF NamesInv, NamesAreUnique
      <4>2. CASE v = u
        BY <2>3, <2>4, <3>1, <4>2
      <4>3. CASE w = u
        BY <2>3, <2>4, <3>1, <4>3
      <4>. QED BY <4>1, <4>2, <4>3
    <3>. QED BY <3>1 DEF NamesAreUnique
  <2>6. ASSUME NEW d \in Call, pc'[d] = "commit", ask[d].op = "email"
        PROVE  /\ ~Clashes("email", ask[d].name, ask[d].user)'
               /\ EmailFree(d, ask[d].name)'
    <3>1. d # c /\ pc[d] = "commit"
      BY <1>1, <2>6
    <3>2. ask[d].name # n
      BY <1>1, <2>6, <3>1 DEF EmailFree
    <3>3. /\ \A v \in User \ {ask[d].user} : names["email"][v] # ask[d].name
          /\ EmailFree(d, ask[d].name)
      BY <2>6, <3>1 DEF NamesInv, Reserved, Clashes, Holders
    <3>4. \A v \in User \ {ask[d].user} : names'["email"][v] # ask[d].name
      BY <1>1, <2>2, <2>3, <3>2, <3>3
    <3>. QED BY <1>1, <3>3, <3>4 DEF Clashes, Holders, EmailFree
  <2>. QED BY <1>1, <2>5, <2>6 DEF NamesInv, Reserved
<1>. QED BY <1>2, <1>3 DEF CreateUser

LEMMA NamesInit == Init => NamesInv
<1>. SUFFICES ASSUME Init PROVE NamesInv
  OBVIOUS
<1>1. NamesAreUnique
  BY AccountAssumption, SessionAssumption DEF Init, NamesAreUnique, Kinds
<1>2. Reserved
  BY DEF Init, SessInit, Reserved
<1>. QED BY <1>1, <1>2 DEF NamesInv

LEMMA NamesNext == IInv /\ NamesInv /\ [Next]_vars => NamesInv'
<1>. SUFFICES ASSUME IInv, NamesInv, [Next]_vars PROVE NamesInv'
  OBVIOUS
<1>. TypeOK /\ PcOK
  BY DEF IInv
<1>1. ASSUME NEW c \in Call, SessStep(c), UNCHANGED <<userVars, accLocals>>
      PROVE  NamesInv'
  <2>1. ask' = ask /\ names' = names /\ \A d \in Call \ {c} : pc'[d] = pc[d]
    BY <1>1 DEF SessStep, FindOthers, Issue, ReadForRefresh, LoadUser, Retire, ReadForLogout,
       ReadTarget, RevokeOne, SignOutEverywhere, Sweep, Apply, Restore, Goto, End, userVars, PcOK
  <2>2. pc'[c] # "commit"
    BY <1>1 DEF SessStep, FindOthers, Issue, ReadForRefresh, LoadUser, Retire, ReadForLogout,
       ReadTarget, RevokeOne, SignOutEverywhere, Sweep, Apply, Restore, Goto, End, PcOK
  <2>. QED BY <2>1, <2>2, NamesKept
<1>2. ASSUME NEW c \in Call, AccountStep(c)
      PROVE  NamesInv'
  <2>1. CASE CreateUser(c) \/ Write(c) \/ LockUser(c) \/ CommitUser(c)
    BY <2>1, NamesByCreate, NamesByWrite, NamesByLock, NamesByCommit
  <2>2. CASE ~(CreateUser(c) \/ Write(c) \/ LockUser(c) \/ CommitUser(c))
    <3>1. ask' = ask /\ names' = names /\ \A d \in Call \ {c} : pc'[d] = pc[d]
      BY <1>2, <2>2 DEF AccountStep, SignUp, LogIn, LogInWithGoogle, FindEmail, ResolveUsername,
         Admit, ReadMeForName, FindName, ReadMe, ReadMeForPrefs, ReadBalance, RequestReset,
         CloseLinks, InsertLink, ReadLink, MoneyMoves, Dies, Goto, End, userVars, PcOK
    <3>2. pc'[c] # "commit"
      BY <1>2, <2>2 DEF AccountStep, SignUp, LogIn, LogInWithGoogle, FindEmail, ResolveUsername,
         Admit, FirstStatement, ReadMeForName, FindName, ReadMe, ReadMeForPrefs, ReadBalance,
         RequestReset, CloseLinks, InsertLink, ReadLink, MoneyMoves, Dies, Goto, End, PcOK
    <3>. QED BY <3>1, <3>2, NamesKept
  <2>. QED BY <2>1, <2>2
<1>3. CASE Tick /\ UNCHANGED <<userVars, accLocals, history>>
  BY <1>3 DEF Tick, userVars, NamesInv, NamesAreUnique, Reserved, Clashes, Holders, EmailFree
<1>4. CASE UNCHANGED vars
  BY <1>4 DEF vars, sessVars, userVars, NamesInv, NamesAreUnique, Reserved, Clashes, Holders,
     EmailFree
<1>. QED BY <1>1, <1>2, <1>3, <1>4 DEF Next

(***************************************************************************)
(* No name is ever held by two users, for any number of sign-ups, Google   *)
(* sign-ups and changes that overlap after each has found the name free:   *)
(* the index entry a change of address has written keeps the address for   *)
(* it until it commits (updateEmail, updateDisplayName, signup,            *)
(* loginWithGoogle and the unique indexes of users).                       *)
(***************************************************************************)
THEOREM NamesStayUnique == Spec => []NamesAreUnique
<1>1. NamesInv => NamesAreUnique
  BY DEF NamesInv
<1>. QED BY <1>1, NamesInit, NamesNext, Invariant, PTL DEF Spec

-----------------------------------------------------------------------------
(* A call that no other call of its user has overlapped so far: what it    *)
(* has done, and what it holds, by the statement it is at.                 *)

\* What is known of a call by the statement it is at, whatever happens meanwhile.
PathOK(c) ==
  /\ pc[c] = "new" => snap[c] = {} /\ slip[c] = None
  /\ pc[c] \in {"load", "issue"} /\ ask[c].op = "refresh" => snap[c] = {}
  /\ pc[c] \in {"others", "issue"} => status[ask[c].user] # "absent"
  /\ pc[c] = "target" => ask[c].op = "revoke"
  /\ pc[c] = "revoke" => ask[c].op \in {"logout", "revoke"}
  /\ pc[c] = "balance" => ask[c].op = "delete"
  /\ pc[c] \in {"closeLinks", "insertLink"} => ask[c].op = "forgot"
  /\ pc[c] \in {"lock", "commit"} => ask[c].op \in {"email", "password", "reset", "delete"}

\* Nobody has a session before the account.
AbsentHaveNone == \A u \in User : status[u] = "absent" => TokensOf(u) = {}

\* The rows a call is to change belong to its user.
Owned(c) ==
  /\ snap[c] \subseteq TokensOf(ask[c].user)
  /\ pc[c] = "revoke" => token[c] \in TokensOf(ask[c].user)
  /\ pc[c] \in {"lock", "commit"} /\ ask[c].op = "reset" =>
       slip[c] \in DOMAIN link /\ link[slip[c]].user = ask[c].user

\* What a call that has been alone so far has done to its user,
Untouched(c) ==
  LET u == ask[c].user IN
  /\ prefs[u] = first[c].prefs
  /\ pc[c] \notin {"issue", "retire"} => names["email"][u] = first[c].email
  /\ pc[c] \notin {"retire", "restore"} => Live(u) = first[c].live

\* and what it holds.
Prepared(c) ==
  LET r == ask[c]
      u == r.user IN
  /\ pc[c] = "retire" =>
       /\ Live(u) = first[c].live \cup {made[c]}
       /\ made[c] # token[c]
  /\ pc[c] = "restore" => Live(u) = {}
  /\ pc[c] = "load" => token[c] \in first[c].live
  /\ pc[c] = "issue" /\ r.op \in SignIns => first[c].live \subseteq snap[c]
  /\ pc[c] = "apply" => snap[c] = Scope(c) \cap Unrevoked
  /\ pc[c] \in {"sweep", "apply"} /\ r.op = "elsewhere" => token[c] \in first[c].live
  /\ pc[c] = "commit" => snap[c] = first[c].live
  /\ pc[c] \in {"find", "lock", "commit"} /\ r.op = "email" => first[c].email # r.name
  /\ pc[c] = "write" /\ r.op = "prefs" => draft[c] = [first[c].prefs EXCEPT !.digest = r.digest]
  /\ pc[c] \in {"lock", "commit"} /\ r.op = "delete" => ~cash[u]
  /\ pc[c] = "insertLink" => OpenLinks(u) = {}

Begun(c) == pc[c] \notin {"new", "ended"} /\ alone[c] => Untouched(c) /\ Prepared(c)

AloneInv ==
  /\ DOMAIN first = Call /\ alone \in [Call -> BOOLEAN]
  /\ AbsentHaveNone
  /\ \A c \in Call : PathOK(c) /\ Begun(c) /\ Owned(c)

\* What the step that ends c owes, if c was alone.
Keeps(c) ==
  pc'[c] = "ended" /\ alone'[c] =>
    /\ answer'[c] = "ok" => Fulfilled(c)'
    /\ answer'[c] \in {"refused", "taken"} => Declined(c)'

Own(c) == PathOK(c)' /\ Begun(c)' /\ Keeps(c)

\* A step of call c leaves what the other calls hold, and nobody's account
\* ceases to exist.
Beside(c) ==
  /\ ask' = ask
  /\ \A d \in Call \ {c} : pc'[d] = pc[d] /\ snap'[d] = snap[d] /\ slip'[d] = slip[d]
  /\ \A u \in User : status'[u] = "absent" => status[u] = "absent"

LEMMA SessBeside ==
  ASSUME IInv, NEW c \in Call, SessStep(c), UNCHANGED <<userVars, accLocals>>
  PROVE  Beside(c) /\ pc[c] # "ended"
<1>. TypeOK /\ PcOK
  BY DEF IInv
<1>1. ask' = ask /\ status' = status /\ slip' = slip /\ pc[c] # "ended"
  BY DEF SessStep, FindOthers, Issue, ReadForRefresh, LoadUser, Retire, ReadForLogout, ReadTarget,
     RevokeOne, SignOutEverywhere, Sweep, Apply, Restore, tables, accLocals
<1>2. \A d \in Call \ {c} : pc'[d] = pc[d] /\ snap'[d] = snap[d]
  BY DEF SessStep, FindOthers, Issue, ReadForRefresh, LoadUser, Retire, ReadForLogout, ReadTarget,
     RevokeOne, SignOutEverywhere, Sweep, Apply, Restore, Goto, End, locals, TypeOK, PcOK
<1>. QED BY <1>1, <1>2 DEF Beside

LEMMA AccountBeside ==
  ASSUME IInv, NEW c \in Call, AccountStep(c)
  PROVE  Beside(c) /\ pc[c] # "ended"
<1>. TypeOK /\ PcOK
  BY DEF IInv
<1>1. ask' = ask /\ pc[c] # "ended"
  BY DEF AccountStep, SignUp, LogIn, LogInWithGoogle, FindEmail, ResolveUsername, CreateUser,
     Admit, ReadMeForName, FindName, ReadMe, ReadMeForPrefs, Write, ReadBalance, RequestReset,
     CloseLinks, InsertLink, ReadLink, LockUser, CommitUser, MoneyMoves, Dies
<1>2. \A d \in Call \ {c} : pc'[d] = pc[d]
  BY DEF AccountStep, SignUp, LogIn, LogInWithGoogle, FindEmail, ResolveUsername, CreateUser,
     Admit, ReadMeForName, FindName, ReadMe, ReadMeForPrefs, Write, ReadBalance, RequestReset,
     CloseLinks, InsertLink, ReadLink, LockUser, CommitUser, MoneyMoves, Dies, Goto, End, PcOK
<1>3. \A d \in Call \ {c} : snap'[d] = snap[d]
  BY DEF AccountStep, SignUp, LogIn, LogInWithGoogle, FindEmail, ResolveUsername, CreateUser,
     Admit, ReadMeForName, FindName, ReadMe, ReadMeForPrefs, Write, ReadBalance, RequestReset,
     CloseLinks, InsertLink, ReadLink, LockUser, CommitUser, MoneyMoves, Dies, locals, TypeOK
<1>4. \A d \in Call \ {c} : slip'[d] = slip[d]
  BY DEF AccountStep, SignUp, LogIn, LogInWithGoogle, FindEmail, ResolveUsername, CreateUser,
     Admit, ReadMeForName, FindName, ReadMe, ReadMeForPrefs, Write, ReadBalance, RequestReset,
     CloseLinks, InsertLink, ReadLink, LockUser, CommitUser, MoneyMoves, Dies, accLocals, TypeOK
<1>5. \A u \in User : status'[u] = "absent" => status[u] = "absent"
  BY DEF AccountStep, SignUp, LogIn, LogInWithGoogle, FindEmail, ResolveUsername, CreateUser,
     Admit, ReadMeForName, FindName, ReadMe, ReadMeForPrefs, Write, ReadBalance, RequestReset,
     CloseLinks, InsertLink, ReadLink, LockUser, CommitUser, MoneyMoves, Dies, tables, TypeOK
<1>. QED BY <1>1, <1>2, <1>3, <1>4, <1>5 DEF Beside

\* What the history says after a step of c.
LEMMA Watched ==
  ASSUME AloneInv, NEW c \in Call, Watch(c), pc[c] # "ended"
  PROVE  /\ DOMAIN first' = Call /\ alone' \in [Call -> BOOLEAN]
         /\ alone'[c] = alone[c]
         /\ \A d \in Call \ {c} :
              /\ alone'[d] => alone[d] /\ (ask[d].user # ask[c].user \/ pc[d] \in {"new", "ended"})
              /\ pc[d] # "ended" => first'[d] = first[d]
         /\ pc[c] = "new" =>
              first'[c] = [live |-> Live(ask[c].user), email |-> names["email"][ask[c].user],
                           prefs |-> prefs[ask[c].user]]
         /\ pc[c] # "new" => first'[c] = first[c]
BY DEF AloneInv, Watch

\* What a step leaves of a user.
Apart(u) ==
  /\ TokensOf(u)' = TokensOf(u)
  /\ \A t \in TokensOf(u) : /\ session'[t].revoked = session[t].revoked
                            /\ session'[t].family = session[t].family
  /\ names'["email"][u] = names["email"][u]
  /\ prefs'[u] = prefs[u] /\ cash'[u] = cash[u]
  /\ OpenLinks(u)' = OpenLinks(u)

\* A step of call c leaves what the other calls know, and takes away no row.
Alongside(c) ==
  /\ \A d \in Call \ {c} : /\ token'[d] = token[d] /\ row'[d] = row[d]
                           /\ made'[d] = made[d] /\ draft'[d] = draft[d]
  /\ \A u \in User : TokensOf(u) \subseteq TokensOf(u)'
  /\ \A l \in DOMAIN link : l \in DOMAIN link' /\ link'[l].user = link[l].user
  /\ \A u \in User \ {ask[c].user} : Apart(u)

\* The table after a step that changes sessions of user w only.
OnlyRowsOf(w) ==
  /\ Issued \subseteq Issued'
  /\ \A t \in Issued : SameSession(session'[t], session[t])
  /\ \A t \in Issued' \ Issued : session'[t].user = w
  /\ \A t \in Issued : session[t].user # w => session'[t].revoked = session[t].revoked

LEMMA RowsApart ==
  ASSUME TypeOK, NEW w \in User, OnlyRowsOf(w)
  PROVE  /\ \A u \in User : TokensOf(u) \subseteq TokensOf(u)'
         /\ \A u \in User \ {w} :
              /\ TokensOf(u)' = TokensOf(u)
              /\ \A t \in TokensOf(u) : /\ session'[t].revoked = session[t].revoked
                                        /\ session'[t].family = session[t].family
BY DEF OnlyRowsOf, TokensOf, SameSession

LEMMA RevokingRowsOf ==
  ASSUME TypeOK, NEW w \in User, NEW S \in SUBSET TokensOf(w), session' = Revoking(S)
  PROVE  OnlyRowsOf(w)
<1>1. Issued' = Issued
  BY RevokingRevokes DEF Issued
<1>2. \A t \in Issued : /\ SameSession(session'[t], session[t])
                        /\ session'[t].revoked = (session[t].revoked \/ t \in S)
  BY RevokingRevokes
<1>3. \A t \in Issued : session[t].user # w => t \notin S
  BY DEF TokensOf
<1>4. \A t \in Issued : session[t].revoked \in BOOLEAN
  BY DEF TypeOK, Row
<1>5. ASSUME NEW t \in Issued, session[t].user # w
      PROVE  session'[t].revoked = session[t].revoked
  <2>1. session'[t].revoked = (session[t].revoked \/ t \in S) /\ t \notin S
        /\ session[t].revoked \in BOOLEAN
    BY <1>2, <1>3, <1>4, <1>5
  <2>. QED BY <2>1
<1>. QED BY <1>1, <1>2, <1>5 DEF OnlyRowsOf

LEMMA SameRowsOf ==
  ASSUME TypeOK, NEW w \in User, session' = session
  PROVE  OnlyRowsOf(w)
BY DEF OnlyRowsOf, SameSession, Issued

LEMMA IssueRowsOf ==
  ASSUME IInv, AloneInv, NEW c \in Call, Issue(c)
  PROVE  OnlyRowsOf(ask[c].user)
<1>. TypeOK /\ Owned(c)
  BY DEF IInv, AloneInv
<1>. DEFINE R == Revoking(snap[c])
            w == ask[c].user
<1>1. PICK t \in Token \ Issued :
        session' = [x \in Issued \cup {t} |-> IF x = t THEN RowFor(c, t) ELSE R[x]]
  BY DEF Issue
<1>2. RowFor(c, t).user = w
  BY NewRowOK DEF Issue
<1>3. \A x \in Issued : /\ SameSession(R[x], session[x])
                        /\ R[x].revoked = (session[x].revoked \/ x \in snap[c])
                        /\ session[x].revoked \in BOOLEAN
  <2>1. \A x \in Issued : session[x].revoked \in BOOLEAN
    BY DEF TypeOK, Row
  <2>. QED BY <2>1, RevokingRevokes
<1>4. \A x \in Issued : session[x].user # w => x \notin snap[c]
  BY DEF Owned, TokensOf
<1>. HIDE DEF R
<1>5. \A x \in Issued : session[x].user # w => R[x].revoked = session[x].revoked
  BY <1>3, <1>4
<1>6. Issued' = Issued \cup {t}
  BY <1>1 DEF Issued
<1>7. session'[t] = RowFor(c, t) /\ \A x \in Issued : session'[x] = R[x]
  BY <1>1
<1>. QED BY <1>2, <1>3, <1>5, <1>6, <1>7 DEF OnlyRowsOf

LEMMA RetireRowsOf ==
  ASSUME IInv, NEW c \in Call, Retire(c)
  PROVE  OnlyRowsOf(ask[c].user)
<1>. TypeOK /\ PcOK /\ CopyOK(c)
  BY DEF IInv, CopiesOK
<1>. DEFINE R == Revoking({token[c]})
            w == ask[c].user
<1>1. token[c] \in TokensOf(w)
  BY DEF Retire, PcOK, CopyOK
<1>2. /\ R \in [Issued -> Row]
      /\ \A x \in Issued : SameSession(R[x], session[x])
      /\ \A x \in Issued : R[x].revoked = (session[x].revoked \/ x \in {token[c]})
      /\ \A x \in Issued : session[x].revoked \in BOOLEAN
  <2>1. \A x \in Issued : session[x].revoked \in BOOLEAN
    BY DEF TypeOK, Row
  <2>. QED BY <2>1, RevokingRevokes
<1>3. session' = [R EXCEPT ![token[c]].lastUsed = now]
  BY DEF Retire
<1>. HIDE DEF R
<1>4. Issued' = Issued
  BY <1>2, <1>3 DEF Issued
<1>5. \A x \in Issued : SameSession(session'[x], R[x])
  BY <1>2, <1>3 DEF SameSession, Row
<1>6. \A x \in Issued \ {token[c]} : session'[x] = R[x]
  BY <1>2, <1>3
<1>7. \A x \in Issued : session[x].user # w => x # token[c]
  BY <1>1 DEF TokensOf
<1>8. \A x \in Issued : session[x].user # w => session'[x].revoked = session[x].revoked
  BY <1>2, <1>6, <1>7
<1>. QED BY <1>2, <1>4, <1>5, <1>8 DEF OnlyRowsOf, SameSession

LEMMA RestoreRowsOf ==
  ASSUME IInv, NEW c \in Call, Restore(c)
  PROVE  OnlyRowsOf(ask[c].user)
<1>1. /\ SameRows /\ token[c] \in TokensOf(ask[c].user)
      /\ \A t \in Issued \ {token[c]} : session'[t] = session[t]
  BY RestoreRows
<1>. QED BY <1>1 DEF SameRows, OnlyRowsOf, TokensOf

LEMMA SessRowsOf ==
  ASSUME IInv, AloneInv, NEW c \in Call, SessStep(c)
  PROVE  OnlyRowsOf(ask[c].user)
<1>. TypeOK /\ PcOK /\ Owned(c) /\ ask[c].user \in User
  BY DEF IInv, AloneInv, TypeOK, Request
<1>1. CASE RevokeOne(c)
  <2>1. {token[c]} \subseteq TokensOf(ask[c].user) /\ session' = Revoking({token[c]})
    BY <1>1 DEF RevokeOne, Owned
  <2>. QED BY <2>1, RevokingRowsOf
<1>2. CASE Apply(c)
  <2>1. /\ snap[c] \cap Unrevoked \subseteq TokensOf(ask[c].user)
        /\ session' = Revoking(snap[c] \cap Unrevoked)
    BY <1>2 DEF Apply, Owned
  <2>. QED BY <2>1, RevokingRowsOf
<1>3. CASE session' = session
  BY <1>3, SameRowsOf
<1>4. CASE Issue(c) \/ Retire(c) \/ Restore(c)
  BY <1>4, IssueRowsOf, RetireRowsOf, RestoreRowsOf
<1>. QED BY <1>1, <1>2, <1>3, <1>4 DEF SessStep, FindOthers, ReadForRefresh, LoadUser,
       ReadForLogout, ReadTarget, SignOutEverywhere, Sweep, tables

LEMMA SessAlongside ==
  ASSUME IInv, AloneInv, NEW c \in Call, SessStep(c), UNCHANGED <<userVars, accLocals>>
  PROVE  Alongside(c)
<1>. TypeOK /\ PcOK /\ ask[c].user \in User
  BY DEF IInv, TypeOK, Request
<1>1. \A d \in Call \ {c} : token'[d] = token[d] /\ row'[d] = row[d]
  BY DEF SessStep, FindOthers, Issue, ReadForRefresh, LoadUser, Retire, ReadForLogout, ReadTarget,
     RevokeOne, SignOutEverywhere, Sweep, Apply, Restore, locals, TypeOK
<1>2. \A d \in Call \ {c} : made'[d] = made[d]
  BY DEF SessStep, FindOthers, Issue, ReadForRefresh, LoadUser, Retire, ReadForLogout, ReadTarget,
     RevokeOne, SignOutEverywhere, Sweep, Apply, Restore, locals, TypeOK
<1>3. OnlyRowsOf(ask[c].user)
  BY SessRowsOf
<1>4. names' = names /\ prefs' = prefs /\ cash' = cash /\ link' = link /\ draft' = draft
  BY DEF userVars, accLocals
<1>5. \A u \in User : OpenLinks(u)' = OpenLinks(u)
  BY <1>4 DEF OpenLinks
<1>. QED BY <1>1, <1>2, <1>3, <1>4, <1>5, RowsApart DEF Alongside, Apart

LEMMA AccountRowsOf ==
  ASSUME IInv, AloneInv, NEW c \in Call, AccountStep(c)
  PROVE  OnlyRowsOf(ask[c].user)
<1>. TypeOK /\ Owned(c) /\ ask[c].user \in User
  BY DEF IInv, AloneInv, TypeOK, Request
<1>1. CASE CommitUser(c)
  BY <1>1, RevokingRowsOf DEF CommitUser, Owned
<1>2. CASE session' = session
  BY <1>2, SameRowsOf
<1>. QED BY <1>1, <1>2 DEF AccountStep, SignUp, LogIn, LogInWithGoogle, FindEmail,
       ResolveUsername, CreateUser, Admit, ReadMeForName, FindName, ReadMe, ReadMeForPrefs, Write,
       ReadBalance, RequestReset, CloseLinks, InsertLink, ReadLink, LockUser, MoneyMoves, Dies,
       tables

\* The links after an account step: those of other users are as open as before.
LEMMA LinksApart ==
  ASSUME IInv, AloneInv, NEW c \in Call, AccountStep(c)
  PROVE  /\ \A l \in DOMAIN link : l \in DOMAIN link' /\ link'[l].user = link[l].user
         /\ \A u \in User \ {ask[c].user} : OpenLinks(u)' = OpenLinks(u)
<1>. TypeOK /\ PathOK(c) /\ Owned(c)
  BY DEF IInv, AloneInv
<1>0. /\ link \in [DOMAIN link -> [user : User, expires : Nat, used : BOOLEAN]]
      /\ \A l \in DOMAIN link : link[l].used \in BOOLEAN
  BY DEF TypeOK
<1>1. CASE link' = link
  BY <1>1 DEF OpenLinks
<1>2. CASE CloseLinks(c)
  <2>1. link' = [l \in DOMAIN link |->
                   [link[l] EXCEPT !.used = @ \/ l \in OpenLinks(ask[c].user)]]
    BY <1>2 DEF CloseLinks
  <2>2. DOMAIN link' = DOMAIN link
    BY <2>1
  <2>3. \A l \in DOMAIN link :
          /\ link'[l].user = link[l].user
          /\ link'[l].used = (link[l].used \/ l \in OpenLinks(ask[c].user))
    BY <1>0, <2>1
  <2>4. \A l \in DOMAIN link : link[l].user # ask[c].user => (~link'[l].used <=> ~link[l].used)
    BY <2>3 DEF OpenLinks
  <2>. QED BY <2>2, <2>3, <2>4 DEF OpenLinks
<1>3. CASE InsertLink(c)
  <2>1. PICK l \in Link \ DOMAIN link :
          link' = [x \in DOMAIN link \cup {l} |->
                     IF x = l
                     THEN [user |-> ask[c].user, expires |-> now + ResetTtl, used |-> FALSE]
                     ELSE link[x]]
    BY <1>3 DEF InsertLink
  <2>2. /\ DOMAIN link' = DOMAIN link \cup {l} /\ link'[l].user = ask[c].user
        /\ \A x \in DOMAIN link : link'[x] = link[x]
    BY <2>1
  <2>. QED BY <2>2 DEF OpenLinks
<1>4. CASE CommitUser(c)
  <2>1. link' = [l \in DOMAIN link |->
                   [link[l] EXCEPT !.used = @ \/ (ask[c].op = "reset" /\ l = slip[c])]]
    BY <1>4 DEF CommitUser
  <2>2. DOMAIN link' = DOMAIN link
    BY <2>1
  <2>3. \A l \in DOMAIN link :
          /\ link'[l].user = link[l].user
          /\ link'[l].used = (link[l].used \/ (ask[c].op = "reset" /\ l = slip[c]))
    BY <1>0, <2>1
  <2>4. ask[c].op = "reset" => link[slip[c]].user = ask[c].user
    BY <1>4 DEF CommitUser, Owned
  <2>5. \A l \in DOMAIN link : link[l].user # ask[c].user => (~link'[l].used <=> ~link[l].used)
    BY <2>3, <2>4
  <2>. QED BY <2>2, <2>3, <2>5 DEF OpenLinks
<1>. QED BY <1>1, <1>2, <1>3, <1>4 DEF AccountStep, SignUp, LogIn, LogInWithGoogle, FindEmail,
       ResolveUsername, CreateUser, Admit, ReadMeForName, FindName, ReadMe, ReadMeForPrefs, Write,
       ReadBalance, RequestReset, ReadLink, LockUser, MoneyMoves, Dies, userVars

LEMMA AccountAlongside ==
  ASSUME IInv, AloneInv, NEW c \in Call, AccountStep(c)
  PROVE  Alongside(c)
<1>. TypeOK /\ PcOK /\ ask[c].user \in User
  BY DEF IInv, TypeOK, Request
<1>1. /\ \A d \in Call \ {c} : token'[d] = token[d]
      /\ row' = row /\ made' = made
  BY DEF AccountStep, SignUp, LogIn, LogInWithGoogle, FindEmail, ResolveUsername, CreateUser,
     Admit, ReadMeForName, FindName, ReadMe, ReadMeForPrefs, Write, ReadBalance, RequestReset,
     CloseLinks, InsertLink, ReadLink, LockUser, CommitUser, MoneyMoves, Dies, locals, TypeOK
<1>2. \A d \in Call \ {c} : draft'[d] = draft[d]
  BY DEF AccountStep, SignUp, LogIn, LogInWithGoogle, FindEmail, ResolveUsername, CreateUser,
     Admit, ReadMeForName, FindName, ReadMe, ReadMeForPrefs, Write, ReadBalance, RequestReset,
     CloseLinks, InsertLink, ReadLink, LockUser, CommitUser, MoneyMoves, Dies, accLocals, TypeOK
<1>3. \A u \in User \ {ask[c].user} : prefs'[u] = prefs[u] /\ cash'[u] = cash[u]
  BY DEF AccountStep, SignUp, LogIn, LogInWithGoogle, FindEmail, ResolveUsername, CreateUser,
     Admit, ReadMeForName, FindName, ReadMe, ReadMeForPrefs, Write, ReadBalance, RequestReset,
     CloseLinks, InsertLink, ReadLink, LockUser, CommitUser, MoneyMoves, Dies, userVars, TypeOK
<1>4. \A u \in User \ {ask[c].user} : names'["email"][u] = names["email"][u]
  <2>. "email" \in Kinds /\ names \in [Kinds -> [User -> Name \cup {None}]]
    BY DEF Kinds, TypeOK
  <2>1. CASE names' = names
    BY <2>1
  <2>2. CASE CreateUser(c) \/ Write(c) \/ CommitUser(c)
    BY <2>2 DEF CreateUser, Write, CommitUser, Named
  <2>. QED BY <2>1, <2>2 DEF AccountStep, SignUp, LogIn, LogInWithGoogle, FindEmail,
       ResolveUsername, Admit, ReadMeForName, FindName, ReadMe, ReadMeForPrefs, ReadBalance,
       RequestReset, CloseLinks, InsertLink, ReadLink, LockUser, MoneyMoves, Dies, userVars
<1>5. /\ \A u \in User : TokensOf(u) \subseteq TokensOf(u)'
      /\ \A u \in User \ {ask[c].user} :
           /\ TokensOf(u)' = TokensOf(u)
           /\ \A t \in TokensOf(u) : /\ session'[t].revoked = session[t].revoked
                                     /\ session'[t].family = session[t].family
  BY AccountRowsOf, RowsApart
<1>. QED BY <1>1, <1>2, <1>3, <1>4, <1>5, LinksApart DEF Alongside, Apart

\* The UPDATE of call d, at another user's step, still finds what it found.
LEMMA ScopeKept ==
  ASSUME IInv, IInv', NEW d \in Call, Apart(ask[d].user), ask' = ask, pc'[d] = pc[d],
         token'[d] = token[d], row'[d] = row[d], pc[d] = "apply"
  PROVE  (Scope(d) \cap Unrevoked)' = Scope(d) \cap Unrevoked
<1>. DEFINE u == ask[d].user
            f == row[d].family
<1>1. /\ TokensOf(u)' = TokensOf(u)
      /\ \A t \in TokensOf(u) : /\ session'[t].revoked = session[t].revoked
                                /\ session'[t].family = session[t].family
  BY DEF Apart
<1>2. Live(u)' = Live(u)
  BY <1>1 DEF Live, Unrevoked, TokensOf
<1>3. CASE ask[d].op # "refresh"
  <2>1. Scope(d) = TokensOf(u) /\ Scope(d)' = TokensOf(u)'
    BY <1>3 DEF Scope
  <2>. QED BY <1>2, <2>1 DEF Live
<1>4. CASE ask[d].op = "refresh"
  <2>1. Scope(d) = Members(f) /\ Scope(d)' = Members(f)'
    BY <1>4 DEF Scope
  <2>2. token[d] \in TokensOf(u) /\ session[token[d]].family = f
    BY <1>4 DEF IInv, CopiesOK, CopyOK, SameSession
  <2>3. \A t \in Members(f) : t \in TokensOf(u)
    BY <2>2 DEF IInv, FamilyKeepsLifetime, Members, TokensOf
  <2>4. token[d] \in TokensOf(u)' /\ session'[token[d]].family = f
    BY <1>1, <2>2
  <2>5. \A t \in Members(f)' : t \in TokensOf(u)'
    BY <2>4 DEF IInv, FamilyKeepsLifetime, Members, TokensOf
  <2>6. Members(f)' = Members(f)
    BY <1>1, <2>3, <2>5 DEF Members, TokensOf
  <2>7. Members(f)' \cap Unrevoked' = Members(f) \cap Unrevoked
    BY <1>1, <2>3, <2>6 DEF Members, Unrevoked
  <2>. QED BY <2>1, <2>7
<1>. QED BY <1>3, <1>4

\* A call under way keeps what it has prepared at a step of another user's call.
LEMMA BegunKept ==
  ASSUME IInv, IInv', NEW d \in Call, Untouched(d), Prepared(d), Apart(ask[d].user),
         ask' = ask, pc'[d] = pc[d], first'[d] = first[d],
         token'[d] = token[d], row'[d] = row[d], snap'[d] = snap[d],
         made'[d] = made[d], draft'[d] = draft[d]
  PROVE  Untouched(d)' /\ Prepared(d)'
<1>. DEFINE u == ask[d].user
<1>1. /\ names'["email"][u] = names["email"][u] /\ prefs'[u] = prefs[u] /\ cash'[u] = cash[u]
      /\ OpenLinks(u)' = OpenLinks(u)
  BY DEF Apart
<1>2. Live(u)' = Live(u)
  BY DEF Apart, Live, Unrevoked, TokensOf
<1>3. Untouched(d)'
  BY <1>1, <1>2 DEF Untouched
<1>4. pc[d] = "apply" => (Scope(d) \cap Unrevoked)' = Scope(d) \cap Unrevoked
  BY ScopeKept
<1>. HIDE DEF u
<1>5. Prepared(d)'
  BY <1>1, <1>2, <1>4 DEF Prepared, u
<1>. QED BY <1>3, <1>5

\* The other calls: those of the user are no longer alone, and the others keep
\* what they know and have done.
LEMMA OthersKeep ==
  ASSUME IInv, IInv', AloneInv, NEW c \in Call, Watch(c), Beside(c), Alongside(c),
         pc[c] # "ended"
  PROVE  \A d \in Call \ {c} : PathOK(d)' /\ Begun(d)' /\ Owned(d)'
<1>1. ASSUME NEW d \in Call \ {c} PROVE PathOK(d)'
  <2>1. PathOK(d) /\ ask[d].user \in User
    BY DEF AloneInv, IInv, TypeOK, Request
  <2>2. /\ pc'[d] = pc[d] /\ snap'[d] = snap[d] /\ slip'[d] = slip[d] /\ ask' = ask
        /\ status'[ask[d].user] = "absent" => status[ask[d].user] = "absent"
    BY <2>1 DEF Beside
  <2>. QED BY <2>1, <2>2 DEF PathOK
<1>2. ASSUME NEW d \in Call \ {c}, pc'[d] \notin {"new", "ended"}, alone'[d]
      PROVE  Untouched(d)' /\ Prepared(d)'
  <2>1. /\ pc'[d] = pc[d] /\ snap'[d] = snap[d] /\ ask' = ask
        /\ token'[d] = token[d] /\ row'[d] = row[d] /\ made'[d] = made[d] /\ draft'[d] = draft[d]
    BY DEF Beside, Alongside
  <2>2. alone[d] /\ ask[d].user # ask[c].user /\ first'[d] = first[d]
    BY <1>2, <2>1, Watched
  <2>3. Untouched(d) /\ Prepared(d) /\ ask[d].user \in User
    BY <1>2, <2>1, <2>2 DEF AloneInv, Begun, IInv, TypeOK, Request
  <2>4. Apart(ask[d].user)
    BY <2>2, <2>3 DEF Alongside
  <2>. QED BY <2>1, <2>2, <2>3, <2>4, BegunKept
<1>3. ASSUME NEW d \in Call \ {c} PROVE Owned(d)'
  <2>1. Owned(d) /\ ask[d].user \in User
    BY DEF AloneInv, IInv, TypeOK, Request
  <2>2. /\ pc'[d] = pc[d] /\ snap'[d] = snap[d] /\ slip'[d] = slip[d] /\ ask' = ask
        /\ token'[d] = token[d]
        /\ TokensOf(ask[d].user) \subseteq TokensOf(ask[d].user)'
        /\ \A l \in DOMAIN link : l \in DOMAIN link' /\ link'[l].user = link[l].user
    BY <2>1 DEF Beside, Alongside
  <2>. QED BY <2>1, <2>2 DEF Owned
<1>. QED BY <1>1, <1>2, <1>3 DEF Begun

\* The rows a call finds and picks are its user's.
LEMMA OwnedBySession ==
  ASSUME IInv, AloneInv, NEW c \in Call, SessStep(c), UNCHANGED <<userVars, accLocals>>,
         Alongside(c)
  PROVE  Owned(c)'
<1>. TypeOK /\ PcOK /\ CopyOK(c) /\ Owned(c) /\ ask[c].user \in User
  BY DEF IInv, CopiesOK, AloneInv, TypeOK, Request
<1>. DEFINE u == ask[c].user
<1>1. ask' = ask /\ pc'[c] \notin {"lock", "commit"} /\ TokensOf(u) \subseteq TokensOf(u)'
  <2>1. ask' = ask /\ pc'[c] \notin {"lock", "commit"}
    BY DEF SessStep, FindOthers, Issue, ReadForRefresh, LoadUser, Retire, ReadForLogout, ReadTarget,
       RevokeOne, SignOutEverywhere, Sweep, Apply, Restore, Goto, End, PcOK
  <2>. QED BY <2>1 DEF Alongside
<1>2. pc'[c] = "revoke" => token'[c] \in TokensOf(u)
  BY DEF SessStep, FindOthers, Issue, ReadForRefresh, LoadUser, Retire, ReadForLogout, ReadTarget,
     RevokeOne, SignOutEverywhere, Sweep, Apply, Restore, Goto, End, PcOK, TypeOK, TokensOf
<1>3. snap'[c] \subseteq TokensOf(u)
  <2>1. CASE FindOthers(c)
    BY <2>1 DEF FindOthers, TypeOK, Live
  <2>2. CASE Sweep(c)
    <3>1. pc[c] = "sweep" /\ snap'[c] \subseteq Scope(c)
      BY <2>2 DEF Sweep, TypeOK
    <3>2. CASE ask[c].op # "refresh"
      BY <3>1, <3>2 DEF Scope
    <3>3. CASE ask[c].op = "refresh"
      <4>1. token[c] \in TokensOf(u) /\ session[token[c]].family = row[c].family
        BY <3>1, <3>3 DEF CopyOK, SameSession
      <4>2. Members(row[c].family) \subseteq TokensOf(u)
        BY <4>1 DEF IInv, FamilyKeepsLifetime, Members, TokensOf
      <4>. QED BY <3>1, <3>3, <4>2 DEF Scope
    <3>. QED BY <3>2, <3>3
  <2>3. CASE snap' = snap
    BY <2>3 DEF Owned
  <2>. QED BY <2>1, <2>2, <2>3 DEF SessStep, Issue, ReadForRefresh, LoadUser, Retire,
       ReadForLogout, ReadTarget, RevokeOne, SignOutEverywhere, Apply, Restore, locals
<1>. QED BY <1>1, <1>2, <1>3 DEF Owned

LEMMA OwnedByAccount ==
  ASSUME IInv, AloneInv, NEW c \in Call, AccountStep(c), Alongside(c)
  PROVE  Owned(c)'
<1>. TypeOK /\ PcOK /\ PathOK(c) /\ Owned(c) /\ ask[c].user \in User
  BY DEF IInv, AloneInv, TypeOK, Request
<1>. DEFINE u == ask[c].user
<1>1. ask' = ask /\ pc'[c] # "revoke"
  BY DEF AccountStep, SignUp, LogIn, LogInWithGoogle, FindEmail, ResolveUsername, CreateUser,
     Admit, FirstStatement, ReadMeForName, FindName, ReadMe, ReadMeForPrefs, Write, ReadBalance,
     RequestReset, CloseLinks, InsertLink, ReadLink, LockUser, CommitUser, MoneyMoves, Dies,
     Goto, End, PcOK
<1>2. snap'[c] \subseteq TokensOf(u)
  <2>1. CASE LockUser(c)
    BY <2>1 DEF LockUser, TypeOK, Live, Owned
  <2>2. CASE snap' = snap
    BY <2>2 DEF Owned
  <2>. QED BY <2>1, <2>2 DEF AccountStep, SignUp, LogIn, LogInWithGoogle, FindEmail,
     ResolveUsername, CreateUser, Admit, ReadMeForName, FindName, ReadMe, ReadMeForPrefs, Write,
     ReadBalance, RequestReset, CloseLinks, InsertLink, ReadLink, CommitUser, MoneyMoves, Dies,
     locals
<1>3. ASSUME pc'[c] \in {"lock", "commit"}, ask[c].op = "reset"
      PROVE  slip'[c] \in DOMAIN link /\ link[slip'[c]].user = u
  <2>1. CASE ReadLink(c)
    BY <2>1 DEF ReadLink, TypeOK
  <2>2. CASE LockUser(c)
    BY <1>3, <2>2 DEF LockUser, Owned, accLocals
  <2>3. ~(ReadLink(c) \/ LockUser(c)) => FALSE
    BY <1>3 DEF AccountStep, SignUp, LogIn, LogInWithGoogle, FindEmail, ResolveUsername,
       CreateUser, Admit, FirstStatement, ReadMeForName, FindName, ReadMe, ReadMeForPrefs, Write,
       ReadBalance, RequestReset, CloseLinks, InsertLink, CommitUser, MoneyMoves, Dies, Goto, End,
       PcOK, PathOK
  <2>. QED BY <2>1, <2>2, <2>3
<1>4. /\ TokensOf(u) \subseteq TokensOf(u)'
      /\ \A l \in DOMAIN link : l \in DOMAIN link' /\ link'[l].user = link[l].user
  BY <1>1 DEF Alongside
<1>. QED BY <1>1, <1>2, <1>3, <1>4 DEF Owned

\* Where c stands before its step: what it began with is still there, but for
\* what it did itself.
LEMMA Stands ==
  ASSUME IInv, AloneInv, NEW c \in Call, Watch(c), pc[c] # "ended", alone'[c]
  PROVE  LET u == ask[c].user IN
         /\ prefs[u] = first'[c].prefs
         /\ pc[c] \notin {"issue", "retire"} => names["email"][u] = first'[c].email
         /\ pc[c] \notin {"retire", "restore"} => Live(u) = first'[c].live
         /\ pc[c] # "new" => Prepared(c) /\ first'[c] = first[c]
<1>1. CASE pc[c] = "new"
  <2>1. first'[c] = [live |-> Live(ask[c].user), email |-> names["email"][ask[c].user],
                     prefs |-> prefs[ask[c].user]]
    BY <1>1, Watched
  <2>. QED BY <1>1, <2>1
<1>2. CASE pc[c] # "new"
  <2>1. first'[c] = first[c] /\ Untouched(c) /\ Prepared(c)
    BY <1>2, Watched DEF AloneInv, Begun
  <2>. QED BY <1>2, <2>1 DEF Untouched
<1>. QED BY <1>1, <1>2

\* A step that leaves the sessions, names and preferences.
Still(c) ==
  /\ UNCHANGED <<ask, session, names, prefs>>
  /\ pc[c] \notin {"issue", "retire", "restore", "ended"}
  /\ pc'[c] \notin {"retire", "restore"}

LEMMA StillThere ==
  ASSUME IInv, AloneInv, NEW c \in Call, Watch(c), Still(c), alone'[c]
  PROVE  LET u == ask[c].user IN
         /\ Untouched(c)'
         /\ Live(u) = first'[c].live /\ Live(u)' = first'[c].live
         /\ prefs[u] = first'[c].prefs /\ prefs'[u] = first'[c].prefs
         /\ names["email"][u] = first'[c].email /\ names'["email"][u] = first'[c].email
         /\ pc[c] # "new" => Prepared(c) /\ first'[c] = first[c]
<1>. DEFINE u == ask[c].user
<1>1. Live(u)' = Live(u)
  BY DEF Still, Live, TokensOf, Unrevoked, Issued
<1>2. /\ prefs[u] = first'[c].prefs /\ names["email"][u] = first'[c].email
      /\ Live(u) = first'[c].live
      /\ pc[c] # "new" => Prepared(c) /\ first'[c] = first[c]
  BY Stands DEF Still
<1>. QED BY <1>1, <1>2 DEF Still, Untouched

\* Such a step may refuse, ...
LEMMA MayRefuse ==
  ASSUME IInv, AloneInv, NEW c \in Call, Watch(c), Still(c), alone'[c],
         ask[c].op = "refresh" => token'[c] \in first'[c].live
  PROVE  Declined(c)'
BY StillThere DEF Still, Declined

\* ... and what is at once in order is in order.
LEMMA NothingToDo ==
  ASSUME IInv, AloneInv, NEW c \in Call, Watch(c), Still(c), alone'[c],
         \/ ask[c].op \in MoneyOps
         \/ ask[c].op = "forgot" /\ slip'[c] = None
         \/ ask[c].op \in {"logout", "revoke"} /\ token'[c] \notin Live(ask[c].user)
         \/ ask[c].op = "display" /\ names["display"][ask[c].user] = ask[c].name
         \/ ask[c].op = "email" /\ names["email"][ask[c].user] = ask[c].name
  PROVE  Fulfilled(c)'
<1>. DEFINE u == ask[c].user
<1>1. /\ Live(u)' = first'[c].live /\ Live(u) = first'[c].live
      /\ prefs'[u] = first'[c].prefs /\ names["email"][u] = first'[c].email
      /\ ask' = ask /\ names' = names
  BY StillThere DEF Still
<1>2. SessionsAfter(c)' = first'[c].live
  <2>1. CASE ask[c].op \in {"logout", "revoke"}
    <3>1. SessionsAfter(c)' = first'[c].live \ {token'[c]}
      BY <1>1, <2>1 DEF SessionsAfter, SignIns
    <3>. QED BY <1>1, <2>1, <3>1 DEF MoneyOps
  <2>2. CASE ask[c].op \notin {"logout", "revoke"}
    <3>1. CASE ask[c].op \in MoneyOps
      BY <1>1, <3>1 DEF SessionsAfter, SignIns, MoneyOps
    <3>2. CASE ask[c].op \in {"forgot", "display"}
      BY <1>1, <3>2 DEF SessionsAfter, SignIns
    <3>3. CASE ask[c].op = "email" /\ names["email"][u] = ask[c].name
      BY <1>1, <3>3 DEF SessionsAfter, SignIns
    <3>. QED BY <2>2, <3>1, <3>2, <3>3
  <2>. QED BY <2>1, <2>2
<1>3. PrefsPromised(c)' = first'[c].prefs
  BY <1>1 DEF PrefsPromised, MoneyOps
<1>. QED BY <1>1, <1>2, <1>3 DEF Fulfilled, MoneyOps

\* A step of that kind has kept the promise so far if it has prepared what is
\* next, or has ended in order.
LEMMA StillOwn ==
  ASSUME IInv, AloneInv, NEW c \in Call, Watch(c), Still(c), PathOK(c)',
         pc'[c] # "ended" /\ alone'[c] => Prepared(c)',
         Keeps(c)
  PROVE  Own(c)
BY StillThere DEF Own, Begun

LEMMA FindOthersAlone ==
  ASSUME IInv, AloneInv, NEW c \in Call, Watch(c), FindOthers(c),
         UNCHANGED <<userVars, accLocals>>
  PROVE  Own(c)
<1>. TypeOK /\ PcOK /\ PathOK(c)
  BY DEF IInv, AloneInv
<1>1. Still(c) /\ pc[c] = "others" /\ pc'[c] = "issue"
  BY DEF Still, FindOthers, Goto, tables, userVars, PcOK
<1>2. snap'[c] = Live(ask[c].user) /\ ask' = ask /\ status' = status
  BY DEF FindOthers, TypeOK, tables
<1>3. ask[c].op \in SignIns /\ ask[c].op # "refresh"
  BY <1>1 DEF PcOK, SignIns
<1>4. PathOK(c)'
  BY <1>1, <1>2, <1>3 DEF PathOK
<1>5. alone'[c] => Prepared(c)'
  BY <1>1, <1>2, StillThere DEF Prepared
<1>. QED BY <1>1, <1>4, <1>5, StillOwn DEF Keeps

LEMMA ReadForRefreshAlone ==
  ASSUME IInv, AloneInv, NEW c \in Call, Watch(c), ReadForRefresh(c),
         UNCHANGED <<userVars, accLocals>>
  PROVE  Own(c)
<1>. TypeOK /\ PcOK /\ PathOK(c)
  BY DEF IInv, AloneInv
<1>1. /\ Still(c) /\ pc[c] = "new" /\ pc'[c] \in {"sweep", "load", "ended"}
      /\ ask[c].op = "refresh" /\ snap' = snap /\ slip' = slip /\ ask' = ask
  BY DEF Still, ReadForRefresh, Goto, End, tables, userVars, accLocals, PcOK
<1>2. pc'[c] # "sweep" => token'[c] \in Live(ask[c].user)
  BY DEF ReadForRefresh, Goto, End, PcOK, TypeOK, Reused, Live, Unrevoked, TokensOf
<1>3. PathOK(c)'
  BY <1>1 DEF PathOK
<1>4. alone'[c] => Prepared(c)'
  BY <1>1, <1>2, StillThere DEF Prepared
<1>5. Keeps(c)
  <2>1. pc'[c] = "ended" => answer'[c] = "refused"
    BY DEF ReadForRefresh, Goto, End, PcOK, TypeOK
  <2>. QED BY <1>1, <1>2, <2>1, StillThere, MayRefuse DEF Keeps
<1>. QED BY <1>1, <1>3, <1>4, <1>5, StillOwn

LEMMA LoadUserAlone ==
  ASSUME IInv, AloneInv, NEW c \in Call, Watch(c), LoadUser(c),
         UNCHANGED <<userVars, accLocals>>
  PROVE  Own(c)
<1>. TypeOK /\ PcOK /\ PathOK(c) /\ CopyOK(c)
  BY DEF IInv, AloneInv, CopiesOK
<1>1. /\ Still(c) /\ pc[c] = "load" /\ pc'[c] \in {"issue", "ended"} /\ ask[c].op = "refresh"
      /\ snap' = snap /\ slip' = slip /\ token' = token /\ ask' = ask /\ status' = status
  BY DEF Still, LoadUser, Goto, End, tables, locals, userVars, accLocals, PcOK
<1>2. pc'[c] = "issue" => status[ask[c].user] = "active"
  <2>1. row[c].user = ask[c].user
    BY <1>1 DEF CopyOK, SameSession, TokensOf
  <2>. QED BY <2>1 DEF LoadUser, End, PcOK
<1>3. PathOK(c)'
  BY <1>1, <1>2 DEF PathOK
<1>4. alone'[c] => Prepared(c)'
  BY <1>1 DEF Prepared, SignIns
<1>5. Keeps(c)
  <2>1. pc'[c] = "ended" => answer'[c] = "refused"
    BY DEF LoadUser, Goto, End, PcOK, TypeOK
  <2>2. alone'[c] => token'[c] \in first'[c].live
    BY <1>1, StillThere DEF Prepared
  <2>. QED BY <1>1, <2>1, <2>2, MayRefuse DEF Keeps
<1>. QED BY <1>1, <1>3, <1>4, <1>5, StillOwn

LEMMA ReadForLogoutAlone ==
  ASSUME IInv, AloneInv, NEW c \in Call, Watch(c), ReadForLogout(c),
         UNCHANGED <<userVars, accLocals>>
  PROVE  Own(c)
<1>. TypeOK /\ PcOK
  BY DEF IInv
<1>1. /\ Still(c) /\ pc[c] = "new" /\ pc'[c] \in {"revoke", "ended"}
      /\ ask[c].op = "logout" /\ ask' = ask
  BY DEF Still, ReadForLogout, Goto, End, tables, userVars, PcOK
<1>2. PathOK(c)'
  BY <1>1 DEF PathOK
<1>3. alone'[c] => Prepared(c)'
  BY <1>1 DEF Prepared
<1>4. Keeps(c)
  <2>1. pc'[c] = "ended" => answer'[c] = "ok" /\ token'[c] \notin Live(ask[c].user)
    BY DEF ReadForLogout, Goto, End, PcOK, TypeOK, Live, Unrevoked
  <2>. QED BY <1>1, <2>1, NothingToDo DEF Keeps
<1>. QED BY <1>1, <1>2, <1>3, <1>4, StillOwn

LEMMA ReadTargetAlone ==
  ASSUME IInv, AloneInv, NEW c \in Call, Watch(c), ReadTarget(c),
         UNCHANGED <<userVars, accLocals>>
  PROVE  Own(c)
<1>. TypeOK /\ PcOK /\ PathOK(c)
  BY DEF IInv, AloneInv
<1>1. /\ Still(c) /\ pc[c] = "target" /\ pc'[c] \in {"revoke", "ended"}
      /\ ask[c].op = "revoke" /\ ask' = ask
  BY DEF Still, ReadTarget, Goto, End, tables, userVars, PcOK, PathOK
<1>2. PathOK(c)'
  BY <1>1 DEF PathOK
<1>3. alone'[c] => Prepared(c)'
  BY <1>1 DEF Prepared
<1>4. Keeps(c)
  <2>1. pc'[c] = "ended" =>
          \/ answer'[c] = "refused"
          \/ answer'[c] = "ok" /\ token'[c] \notin Live(ask[c].user)
    BY DEF ReadTarget, Goto, End, PcOK, TypeOK, Live, Unrevoked
  <2>. QED BY <1>1, <2>1, NothingToDo, MayRefuse DEF Keeps
<1>. QED BY <1>1, <1>2, <1>3, <1>4, StillOwn

LEMMA SweepAlone ==
  ASSUME IInv, AloneInv, NEW c \in Call, Watch(c),
         SignOutEverywhere(c) \/ Sweep(c), UNCHANGED <<userVars, accLocals>>
  PROVE  Own(c)
<1>. TypeOK /\ PcOK
  BY DEF IInv
<1>1. /\ Still(c) /\ ask' = ask /\ session' = session /\ token' = token /\ row' = row
  BY DEF Still, SignOutEverywhere, Sweep, Goto, tables, locals, userVars, PcOK
<1>2. CASE SignOutEverywhere(c)
  <2>1. pc'[c] = "sweep" /\ ask[c].op = "everywhere"
    BY <1>2 DEF SignOutEverywhere, Goto, PcOK
  <2>2. PathOK(c)' /\ Prepared(c)' /\ Keeps(c)
    BY <1>1, <2>1 DEF PathOK, Prepared, Keeps
  <2>. QED BY <1>1, <2>2, StillOwn
<1>3. CASE Sweep(c)
  <2>1. pc[c] = "sweep" /\ pc'[c] = "apply" /\ snap'[c] = Scope(c) \cap Unrevoked
    BY <1>3 DEF Sweep, Goto, PcOK, TypeOK
  <2>2. Scope(c)' = Scope(c) /\ Unrevoked' = Unrevoked
    BY <1>1 DEF Scope, Unrevoked, Issued, Members, TokensOf
  <2>3. PathOK(c)' /\ Keeps(c)
    BY <2>1 DEF PathOK, Keeps
  <2>4. alone'[c] => Prepared(c)'
    BY <1>1, <2>1, <2>2, StillThere DEF Prepared
  <2>. QED BY <1>1, <2>3, <2>4, StillOwn
<1>. QED BY <1>2, <1>3

LEMMA SignInAlone ==
  ASSUME IInv, AloneInv, NEW c \in Call, Watch(c),
         \/ SignUp(c) \/ LogIn(c) \/ LogInWithGoogle(c) \/ FindEmail(c) \/ ResolveUsername(c)
  PROVE  Own(c)
<1>. TypeOK /\ PcOK /\ PathOK(c)
  BY DEF IInv, AloneInv
<1>1. /\ Still(c) /\ ask' = ask /\ status' = status /\ ask[c].op \in SignIns
      /\ pc'[c] \in {"create", "findEmail", "resolve", "others", "ended"}
  BY DEF Still, SignUp, LogIn, LogInWithGoogle, FindEmail, ResolveUsername, Goto, End,
     tables, userVars, PcOK, SignIns
<1>2. pc'[c] = "others" => status[ask[c].user] # "absent"
  BY DEF SignUp, LogIn, LogInWithGoogle, FindEmail, ResolveUsername, Goto, End, MaySignIn, PcOK
<1>3. PathOK(c)' /\ Prepared(c)'
  BY <1>1, <1>2 DEF PathOK, Prepared
<1>4. Keeps(c)
  <2>1. pc'[c] = "ended" => answer'[c] \in {"refused", "taken"}
    BY DEF SignUp, LogIn, LogInWithGoogle, FindEmail, ResolveUsername, Goto, End, PcOK, TypeOK
  <2>2. ask[c].op # "refresh"
    BY <1>1 DEF SignIns
  <2>. QED BY <1>1, <2>1, <2>2, MayRefuse DEF Keeps
<1>. QED BY <1>1, <1>3, <1>4, StillOwn

LEMMA AdmitAlone ==
  ASSUME IInv, AloneInv, NEW c \in Call, Watch(c), Admit(c)
  PROVE  Own(c)
<1>. TypeOK /\ PcOK /\ PathOK(c)
  BY DEF IInv, AloneInv
<1>1. /\ Still(c) /\ ask' = ask /\ ask[c].op # "refresh" /\ pc[c] = "new"
      /\ pc'[c] \in {"sweep", "target", "me", "ended"}
  BY DEF Still, Admit, FirstStatement, Goto, End, tables, userVars, PcOK, Guarded
<1>2. pc'[c] = "target" => ask[c].op = "revoke"
  BY DEF Admit, FirstStatement, Goto, End, PcOK
<1>3. pc'[c] = "sweep" => token'[c] \in Live(ask[c].user)
  BY DEF Admit, FirstStatement, Goto, End, PcOK, TypeOK, IsSessionActive
<1>4. PathOK(c)'
  BY <1>1, <1>2 DEF PathOK
<1>5. alone'[c] => Prepared(c)'
  BY <1>1, <1>3, StillThere DEF Prepared
<1>6. Keeps(c)
  <2>1. pc'[c] = "ended" => answer'[c] = "refused"
    BY DEF Admit, FirstStatement, Goto, End, PcOK, TypeOK
  <2>. QED BY <1>1, <2>1, MayRefuse DEF Keeps
<1>. QED BY <1>1, <1>4, <1>5, <1>6, StillOwn

LEMMA ReadMeForNameAlone ==
  ASSUME IInv, AloneInv, NEW c \in Call, Watch(c), ReadMeForName(c)
  PROVE  Own(c)
<1>. TypeOK /\ PcOK
  BY DEF IInv
<1>1. /\ Still(c) /\ ask' = ask /\ ask[c].op \in {"email", "display"} /\ pc[c] = "me"
      /\ pc'[c] \in {"find", "ended"}
  BY DEF Still, ReadMeForName, Goto, End, tables, userVars, PcOK
<1>2. IF names[ask[c].op][ask[c].user] = ask[c].name
      THEN pc'[c] = "ended" /\ answer'[c] = "ok"
      ELSE pc'[c] = "find"
  BY DEF ReadMeForName, NameKind, Goto, End, PcOK, TypeOK
<1>3. PathOK(c)'
  BY <1>1 DEF PathOK
<1>4. alone'[c] => Prepared(c)'
  BY <1>1, <1>2, StillThere DEF Prepared
<1>5. Keeps(c)
  BY <1>1, <1>2, NothingToDo DEF Keeps
<1>. QED BY <1>1, <1>3, <1>4, <1>5, StillOwn

LEMMA FindNameAlone ==
  ASSUME IInv, AloneInv, NEW c \in Call, Watch(c), FindName(c)
  PROVE  Own(c)
<1>. TypeOK /\ PcOK
  BY DEF IInv
<1>1. /\ Still(c) /\ ask' = ask /\ ask[c].op \in {"email", "display"} /\ pc[c] = "find"
      /\ pc'[c] \in {"lock", "write", "ended"}
      /\ pc'[c] = "lock" => ask[c].op = "email"
  BY DEF Still, FindName, Goto, End, tables, userVars, PcOK
<1>2. pc'[c] = "ended" => answer'[c] = "taken"
  BY DEF FindName, Goto, End, PcOK, TypeOK
<1>3. PathOK(c)'
  BY <1>1 DEF PathOK
<1>4. alone'[c] => Prepared(c)'
  BY <1>1, StillThere DEF Prepared
<1>5. Keeps(c)
  BY <1>1, <1>2, MayRefuse DEF Keeps
<1>. QED BY <1>1, <1>3, <1>4, <1>5, StillOwn

LEMMA ReadMeAlone ==
  ASSUME IInv, AloneInv, NEW c \in Call, Watch(c), ReadMe(c)
  PROVE  Own(c)
<1>. TypeOK /\ PcOK
  BY DEF IInv
<1>1. /\ Still(c) /\ ask' = ask /\ ask[c].op \in {"password", "onboard", "delete"}
      /\ pc[c] = "me" /\ pc'[c] \in {"lock", "write", "balance", "ended"}
      /\ pc'[c] = "lock" => ask[c].op = "password"
      /\ pc'[c] = "write" => ask[c].op = "onboard"
      /\ pc'[c] = "balance" => ask[c].op = "delete"
  BY DEF Still, ReadMe, Goto, End, tables, userVars, PcOK
<1>2. pc'[c] = "ended" => answer'[c] = "refused"
  BY DEF ReadMe, Goto, End, PcOK, TypeOK
<1>3. PathOK(c)' /\ Prepared(c)'
  BY <1>1 DEF PathOK, Prepared
<1>4. Keeps(c)
  BY <1>1, <1>2, MayRefuse DEF Keeps
<1>. QED BY <1>1, <1>3, <1>4, StillOwn

LEMMA ReadMeForPrefsAlone ==
  ASSUME IInv, AloneInv, NEW c \in Call, Watch(c), ReadMeForPrefs(c)
  PROVE  Own(c)
<1>. TypeOK /\ PcOK
  BY DEF IInv
<1>1. /\ Still(c) /\ ask' = ask /\ pc'[c] = "write"
      /\ draft'[c] = [prefs[ask[c].user] EXCEPT !.digest = ask[c].digest]
  BY DEF Still, ReadMeForPrefs, Goto, tables, userVars, PcOK, TypeOK
<1>2. PathOK(c)' /\ Keeps(c)
  BY <1>1 DEF PathOK, Keeps
<1>3. alone'[c] => Prepared(c)'
  BY <1>1, StillThere DEF Prepared
<1>. QED BY <1>1, <1>2, <1>3, StillOwn

LEMMA ReadBalanceAlone ==
  ASSUME IInv, AloneInv, NEW c \in Call, Watch(c), ReadBalance(c)
  PROVE  Own(c)
<1>. TypeOK /\ PcOK /\ PathOK(c)
  BY DEF IInv, AloneInv
<1>1. /\ Still(c) /\ ask' = ask /\ cash' = cash /\ pc[c] = "balance" /\ ask[c].op = "delete"
      /\ pc'[c] \in {"lock", "ended"}
  BY DEF Still, ReadBalance, Goto, End, tables, userVars, PcOK, PathOK
<1>2. IF cash[ask[c].user] THEN pc'[c] = "ended" /\ answer'[c] = "refused" ELSE pc'[c] = "lock"
  BY DEF ReadBalance, Goto, End, PcOK, TypeOK
<1>3. PathOK(c)' /\ Prepared(c)'
  BY <1>1, <1>2 DEF PathOK, Prepared
<1>4. Keeps(c)
  BY <1>1, <1>2, MayRefuse DEF Keeps
<1>. QED BY <1>1, <1>3, <1>4, StillOwn

LEMMA RequestResetAlone ==
  ASSUME IInv, AloneInv, NEW c \in Call, Watch(c), RequestReset(c) \/ MoneyMoves(c)
  PROVE  Own(c)
<1>. TypeOK /\ PcOK /\ PathOK(c)
  BY DEF IInv, AloneInv
<1>1. /\ Still(c) /\ ask' = ask /\ slip' = slip /\ pc[c] = "new"
      /\ pc'[c] \in {"closeLinks", "ended"}
      /\ pc'[c] = "closeLinks" => ask[c].op = "forgot"
  BY DEF Still, RequestReset, MoneyMoves, Goto, End, tables, userVars, accLocals, PcOK
<1>2. /\ pc'[c] = "ended" => answer'[c] = "ok"
      /\ ask[c].op \in MoneyOps \/ (ask[c].op = "forgot" /\ slip'[c] = None)
  BY <1>1 DEF RequestReset, MoneyMoves, Goto, End, PcOK, TypeOK, PathOK
<1>3. PathOK(c)' /\ Prepared(c)'
  BY <1>1 DEF PathOK, Prepared
<1>4. Keeps(c)
  BY <1>1, <1>2, NothingToDo DEF Keeps
<1>. QED BY <1>1, <1>3, <1>4, StillOwn

LEMMA CloseLinksAlone ==
  ASSUME IInv, AloneInv, NEW c \in Call, Watch(c), CloseLinks(c)
  PROVE  Own(c)
<1>. TypeOK /\ PcOK /\ PathOK(c)
  BY DEF IInv, AloneInv
<1>1. /\ Still(c) /\ ask' = ask /\ ask[c].op = "forgot"
      /\ pc[c] = "closeLinks" /\ pc'[c] = "insertLink"
  BY DEF Still, CloseLinks, Goto, tables, PcOK, PathOK
<1>2. OpenLinks(ask[c].user)' = {}
  BY <1>1 DEF CloseLinks, OpenLinks, TypeOK
<1>3. PathOK(c)' /\ Prepared(c)' /\ Keeps(c)
  BY <1>1, <1>2 DEF PathOK, Prepared, Keeps
<1>. QED BY <1>1, <1>3, StillOwn

LEMMA InsertLinkAlone ==
  ASSUME IInv, AloneInv, NEW c \in Call, Watch(c), InsertLink(c)
  PROVE  Own(c)
<1>. TypeOK /\ PcOK /\ PathOK(c)
  BY DEF IInv, AloneInv
<1>. DEFINE u == ask[c].user
<1>1. /\ Still(c) /\ ask' = ask /\ ask[c].op = "forgot"
      /\ pc[c] = "insertLink" /\ pc'[c] = "ended" /\ answer'[c] = "ok"
  BY DEF Still, InsertLink, End, tables, PcOK, PathOK, TypeOK
<1>2. PICK l \in Link \ DOMAIN link :
        /\ link' = [x \in DOMAIN link \cup {l} |->
                      IF x = l
                      THEN [user |-> u, expires |-> now + ResetTtl, used |-> FALSE]
                      ELSE link[x]]
        /\ slip' = [slip EXCEPT ![c] = l]
  BY DEF InsertLink
<1>3. ASSUME OpenLinks(u) = {} PROVE OpenLinks(u)' = {slip'[c]}
  <2>1. slip'[c] = l /\ DOMAIN link' = DOMAIN link \cup {l}
    BY <1>2 DEF TypeOK
  <2>2. link'[l].user = u /\ link'[l].used = FALSE /\ \A x \in DOMAIN link : link'[x] = link[x]
    BY <1>2
  <2>. QED BY <1>1, <1>3, <2>1, <2>2 DEF OpenLinks
<1>4. Keeps(c)
  <2> SUFFICES ASSUME alone'[c] PROVE Fulfilled(c)'
    BY <1>1 DEF Keeps
  <2>1. OpenLinks(u) = {}
    BY <1>1, StillThere DEF Prepared
  <2>2. SessionsAfter(c)' = first'[c].live /\ PrefsPromised(c)' = first'[c].prefs
    BY <1>1 DEF SessionsAfter, PrefsPromised, SignIns
  <2>. QED BY <1>1, <1>3, <2>1, <2>2, StillThere DEF Fulfilled
<1>5. PathOK(c)'
  BY <1>1 DEF PathOK
<1>. QED BY <1>1, <1>4, <1>5, StillOwn

LEMMA ReadLinkAlone ==
  ASSUME IInv, AloneInv, NEW c \in Call, Watch(c), ReadLink(c)
  PROVE  Own(c)
<1>. TypeOK /\ PcOK
  BY DEF IInv
<1>1. /\ Still(c) /\ ask' = ask /\ ask[c].op = "reset" /\ pc'[c] \in {"lock", "ended"}
  BY DEF Still, ReadLink, Goto, End, tables, userVars, PcOK
<1>2. pc'[c] = "ended" => answer'[c] = "refused"
  BY DEF ReadLink, Goto, End, PcOK, TypeOK
<1>3. PathOK(c)' /\ Prepared(c)'
  BY <1>1 DEF PathOK, Prepared
<1>4. Keeps(c)
  BY <1>1, <1>2, MayRefuse DEF Keeps
<1>. QED BY <1>1, <1>3, <1>4, StillOwn

LEMMA LockUserAlone ==
  ASSUME IInv, AloneInv, NEW c \in Call, Watch(c), LockUser(c)
  PROVE  Own(c)
<1>. TypeOK /\ PcOK /\ PathOK(c)
  BY DEF IInv, AloneInv
<1>1. /\ Still(c) /\ ask' = ask /\ cash' = cash /\ pc[c] = "lock"
      /\ pc'[c] \in {"commit", "ended"}
      /\ ask[c].op \in {"email", "password", "reset", "delete"}
  BY DEF Still, LockUser, Goto, End, tables, userVars, PcOK, PathOK
<1>2. /\ pc'[c] = "ended" => answer'[c] = "taken"
      /\ pc'[c] = "commit" => snap'[c] = Live(ask[c].user)
  BY DEF LockUser, Goto, End, PcOK, TypeOK
<1>3. PathOK(c)'
  BY <1>1 DEF PathOK
<1>4. alone'[c] => Prepared(c)'
  BY <1>1, <1>2, StillThere DEF Prepared
<1>5. Keeps(c)
  BY <1>1, <1>2, MayRefuse DEF Keeps
<1>. QED BY <1>1, <1>3, <1>4, <1>5, StillOwn

LEMMA DiesAlone ==
  ASSUME IInv, NEW c \in Call, Dies(c)
  PROVE  Own(c)
<1>1. pc'[c] = "ended" /\ answer'[c] = "none"
  BY DEF IInv, TypeOK, PcOK, Dies, End
<1>. QED BY <1>1 DEF Own, PathOK, Begun, Keeps

-----------------------------------------------------------------------------
(* The steps that write users. *)

LEMMA CreateUserAlone ==
  ASSUME IInv, AloneInv, NEW c \in Call, Watch(c), CreateUser(c)
  PROVE  Own(c)
<1>. TypeOK /\ PcOK
  BY DEF IInv
<1>. DEFINE u == ask[c].user
<1>1. /\ ask' = ask /\ session' = session /\ prefs' = prefs /\ pc[c] = "create" /\ u \in User
      /\ ask[c].op \in SignIns /\ ask[c].op # "refresh"
  BY DEF CreateUser, PcOK, SignIns, TypeOK, Request
<1>2. CASE pc'[c] = "issue"
  <2>1. status[u] = "absent" /\ status'[u] = "active"
    BY <1>1, <1>2 DEF CreateUser, Goto, End, PcOK, TypeOK
  <2>2. Live(u) = {} /\ Live(u)' = Live(u)
    BY <1>1, <2>1 DEF AloneInv, AbsentHaveNone, Live, TokensOf, Unrevoked, Issued
  <2>3. PathOK(c)' /\ Keeps(c)
    BY <1>1, <1>2, <2>1 DEF PathOK, Keeps
  <2>4. alone'[c] => first'[c].live = {} /\ first'[c].prefs = prefs[u]
    BY <1>1, <2>2, Stands
  <2>5. alone'[c] => Untouched(c)' /\ Prepared(c)'
    BY <1>1, <1>2, <2>2, <2>4 DEF Untouched, Prepared
  <2>. QED BY <2>3, <2>5 DEF Own, Begun
<1>3. CASE pc'[c] # "issue"
  <2>1. Still(c) /\ pc'[c] = "ended" /\ answer'[c] = "taken"
    BY <1>1, <1>3 DEF Still, CreateUser, Goto, End, PcOK, TypeOK
  <2>2. PathOK(c)' /\ Keeps(c)
    BY <1>1, <2>1, MayRefuse DEF PathOK, Keeps
  <2>. QED BY <2>1, <2>2, StillOwn
<1>. QED BY <1>2, <1>3

LEMMA WriteAlone ==
  ASSUME IInv, AloneInv, NEW c \in Call, Watch(c), Write(c)
  PROVE  Own(c)
<1>. TypeOK /\ PcOK
  BY DEF IInv
<1>. DEFINE u == ask[c].user
<1>1. /\ ask' = ask /\ session' = session /\ pc[c] = "write" /\ pc'[c] = "ended"
      /\ ask[c].op \in {"prefs", "onboard", "display"} /\ u \in User /\ Live(u)' = Live(u)
  BY DEF Write, End, tables, PcOK, TypeOK, Request, Live, TokensOf, Unrevoked, Issued
<1>2. CASE Still(c) /\ answer'[c] = "taken"
  <2>1. PathOK(c)' /\ Keeps(c)
    BY <1>1, <1>2, MayRefuse DEF PathOK, Keeps
  <2>. QED BY <1>1, <1>2, <2>1, StillOwn
<1>3. CASE ~(Still(c) /\ answer'[c] = "taken")
  <2>. SUFFICES ASSUME alone'[c] PROVE Fulfilled(c)'
    <3>1. answer'[c] = "ok"
      BY <1>1, <1>3 DEF Still, Write, End, TypeOK, tables
    <3>. QED BY <1>1, <3>1 DEF Own, PathOK, Begun, Keeps
  <2>1. /\ prefs[u] = first'[c].prefs /\ Live(u) = first'[c].live /\ first'[c] = first[c]
        /\ ask[c].op = "prefs" => draft[c] = [first[c].prefs EXCEPT !.digest = ask[c].digest]
    BY <1>1, Stands DEF Prepared
  <2>2. SessionsAfter(c)' = first'[c].live
    BY <1>1 DEF SessionsAfter, SignIns
  <2>3. CASE ask[c].op = "prefs"
    <3>1. prefs'[u] = draft[c]
      BY <1>1, <2>3 DEF Write, TypeOK
    <3>. QED BY <1>1, <2>1, <2>2, <2>3, <3>1 DEF Fulfilled, PrefsPromised
  <2>4. CASE ask[c].op = "onboard"
    <3>1. prefs' = prefs /\ onboarded'[u]
      BY <1>1, <2>4 DEF Write, TypeOK
    <3>. QED BY <1>1, <2>1, <2>2, <2>4, <3>1 DEF Fulfilled, PrefsPromised
  <2>5. CASE ask[c].op = "display"
    <3>1. prefs' = prefs
      BY <2>5 DEF Write
    <3>2. names' = Named("display", u, ask[c].name)
      BY <1>1, <1>3, <2>5 DEF Write, Still, End, TypeOK, tables
    <3>3. names'["display"][u] = ask[c].name
      BY <1>1, <3>2 DEF Named, TypeOK, Kinds
    <3>. QED BY <1>1, <2>1, <2>2, <2>5, <3>1, <3>3 DEF Fulfilled, PrefsPromised
  <2>. QED BY <1>1, <2>3, <2>4, <2>5
<1>. QED BY <1>2, <1>3

-----------------------------------------------------------------------------
(* The steps that write sessions. *)

LEMMA RevokingLive ==
  ASSUME TypeOK, NEW S, session' = Revoking(S)
  PROVE  /\ \A u \in User : Live(u)' = Live(u) \ S
         /\ \A f \in Token : Members(f)' = Members(f)
         /\ Unrevoked' = Unrevoked \ S
<1>1. Issued' = Issued
  BY RevokingRevokes DEF Issued
<1>2. \A t \in Issued : /\ session'[t].user = session[t].user
                        /\ session'[t].family = session[t].family
                        /\ session'[t].revoked = (session[t].revoked \/ t \in S)
  BY RevokingRevokes DEF SameSession
<1>. QED BY <1>1, <1>2 DEF Live, TokensOf, Unrevoked, Members

\* The promise of a call that ends by a change of sessions only.
LEMMA SessionsDone ==
  ASSUME IInv, AloneInv, NEW c \in Call, Watch(c), pc[c] # "ended",
         pc'[c] = "ended", answer'[c] = "ok", UNCHANGED <<ask, prefs>>,
         ask[c].op \in SignIns \cup SessionOps,
         alone'[c] => Live(ask[c].user)' = SessionsAfter(c)'
  PROVE  Own(c)
<1>1. PathOK(c)' /\ Begun(c)'
  BY DEF PathOK, Begun
<1>2. ASSUME alone'[c] PROVE Fulfilled(c)'
  <2>1. PrefsPromised(c)' = first'[c].prefs
    BY DEF PrefsPromised, SignIns, SessionOps
  <2>2. prefs'[ask[c].user] = first'[c].prefs
    BY <1>2, Stands
  <2>. QED BY <1>2, <2>1, <2>2 DEF Fulfilled, SignIns, SessionOps
<1>. QED BY <1>1, <1>2 DEF Own, Keeps

LEMMA IssueLive ==
  ASSUME IInv, NEW c \in Call, Issue(c)
  PROVE  \E t \in Token \ Issued :
           /\ made'[c] = t
           /\ Issued' = Issued \cup {t}
           /\ \A u \in User : TokensOf(u)' = IF u = ask[c].user THEN TokensOf(u) \cup {t} ELSE TokensOf(u)
           /\ Live(ask[c].user)' = (Live(ask[c].user) \ snap[c]) \cup {t}
<1>. TypeOK /\ PcOK
  BY DEF IInv
<1>1. PICK t \in Token \ Issued :
        /\ session' = [x \in Issued \cup {t} |->
                        IF x = t THEN RowFor(c, t) ELSE Revoking(snap[c])[x]]
        /\ made' = [made EXCEPT ![c] = t]
  BY DEF Issue
<1>. DEFINE R == Revoking(snap[c])
            r == RowFor(c, t)
<1>2. \A x \in Issued : /\ R[x].user = session[x].user
                        /\ R[x].revoked = (session[x].revoked \/ x \in snap[c])
  BY RevokingRevokes DEF SameSession
<1>3. r.user = ask[c].user /\ r.revoked = FALSE
  <2>1. r.user = ask[c].user
    BY NewRowOK DEF Issue
  <2>2. r.revoked = FALSE
    BY DEF RowFor, NewRow
  <2>. QED BY <2>1, <2>2
<1>. HIDE DEF R, r
<1>4. Issued' = Issued \cup {t}
  BY <1>1 DEF Issued
<1>5. session'[t] = r /\ \A x \in Issued : session'[x] = R[x]
  BY <1>1 DEF R, r
<1>6. made'[c] = t
  BY <1>1 DEF TypeOK
<1>7. \A u \in User : TokensOf(u)' = IF u = ask[c].user THEN TokensOf(u) \cup {t} ELSE TokensOf(u)
  BY <1>2, <1>3, <1>4, <1>5 DEF TokensOf
<1>8. Unrevoked' = (Unrevoked \ snap[c]) \cup {t}
  BY <1>2, <1>3, <1>4, <1>5 DEF Unrevoked
<1>9. Live(ask[c].user)' = (Live(ask[c].user) \ snap[c]) \cup {t}
  <2>1. ask[c].user \in User /\ ask' = ask
    BY DEF TypeOK, Request, Issue
  <2>. QED BY <1>7, <1>8, <2>1 DEF Live
<1>. QED BY <1>4, <1>6, <1>7, <1>9

LEMMA IssueAlone ==
  ASSUME IInv, AloneInv, NEW c \in Call, Watch(c), Issue(c), UNCHANGED <<userVars, accLocals>>
  PROVE  Own(c)
<1>. TypeOK /\ PcOK /\ PathOK(c) /\ CopyOK(c)
  BY DEF IInv, AloneInv, CopiesOK
<1>. DEFINE u == ask[c].user
<1>1. PICK t \in Token \ Issued :
        made'[c] = t /\ Live(u)' = (Live(u) \ snap[c]) \cup {t}
  BY IssueLive
<1>2. /\ ask' = ask /\ prefs' = prefs /\ pc[c] = "issue" /\ token' = token
      /\ ask[c].op \in SignIns \cup {"refresh"}
  BY DEF Issue, userVars, PcOK
<1>3. CASE ask[c].op = "refresh"
  <2>1. pc'[c] = "retire"
    BY <1>3 DEF Issue, Goto, PcOK
  <2>2. Live(u)' = Live(u) \cup {t} /\ token[c] # t
    BY <1>1, <1>2, <1>3 DEF PathOK, CopyOK, TokensOf
  <2>3. PathOK(c)' /\ Keeps(c)
    BY <2>1 DEF PathOK, Keeps
  <2>4. ASSUME alone'[c] PROVE Untouched(c)' /\ Prepared(c)'
    <3>1. first'[c].live = Live(u) /\ first'[c].prefs = prefs[u]
      BY <1>2, <2>4, Stands
    <3>. QED BY <1>1, <1>2, <2>1, <2>2, <3>1 DEF Untouched, Prepared
  <2>. QED BY <2>3, <2>4 DEF Own, Begun
<1>4. CASE ask[c].op \in SignIns
  <2>1. pc'[c] = "ended" /\ answer'[c] = "ok" /\ ask[c].op # "refresh"
    BY <1>4 DEF Issue, End, PcOK, TypeOK, SignIns
  <2>2. alone'[c] => Live(u)' = SessionsAfter(c)'
    <3>1. ASSUME alone'[c] PROVE Live(u) \subseteq snap[c]
      <4>1. Live(u) = first'[c].live /\ Prepared(c) /\ first'[c] = first[c]
        BY <1>2, <3>1, Stands
      <4>. QED BY <1>2, <1>4, <4>1 DEF Prepared
    <3>2. SessionsAfter(c)' = {t}
      BY <1>1, <1>2, <1>4 DEF SessionsAfter, SignIns
    <3>. QED BY <1>1, <3>1, <3>2
  <2>. QED BY <1>2, <1>4, <2>1, <2>2, SessionsDone
<1>. QED BY <1>2, <1>3, <1>4

LEMMA RetireAlone ==
  ASSUME IInv, AloneInv, NEW c \in Call, Watch(c), Retire(c), UNCHANGED <<userVars, accLocals>>
  PROVE  Own(c)
<1>. TypeOK /\ PcOK /\ CopyOK(c)
  BY DEF IInv, CopiesOK
<1>. DEFINE u == ask[c].user
<1>1. /\ ask' = ask /\ prefs' = prefs /\ token' = token /\ made' = made
      /\ pc[c] = "retire" /\ pc'[c] = "ended" /\ answer'[c] = "ok" /\ ask[c].op = "refresh"
  BY DEF Retire, End, locals, userVars, PcOK, TypeOK
<1>. DEFINE R == Revoking({token[c]})
<1>2. /\ DOMAIN R = Issued
      /\ \A x \in Issued : /\ R[x] \in Row /\ R[x].user = session[x].user
                           /\ R[x].revoked = (session[x].revoked \/ x = token[c])
  BY RevokingRevokes DEF SameSession
<1>3. session' = [R EXCEPT ![token[c]].lastUsed = now]
  BY DEF Retire
<1>. HIDE DEF R
<1>4. /\ Issued' = Issued
      /\ \A x \in Issued : session'[x].user = R[x].user /\ session'[x].revoked = R[x].revoked
  BY <1>2, <1>3 DEF Issued, Row
<1>5. Live(u)' = Live(u) \ {token[c]}
  <2>1. Unrevoked' = Unrevoked \ {token[c]}
    BY <1>2, <1>4 DEF Unrevoked
  <2>2. TokensOf(u)' = TokensOf(u)
    BY <1>1, <1>2, <1>4 DEF TokensOf
  <2>. QED BY <1>1, <2>1, <2>2 DEF Live
<1>6. SessionsAfter(c)' = (first'[c].live \ {token[c]}) \cup {made[c]}
  BY <1>1 DEF SessionsAfter, SignIns
<1>7. alone'[c] => Live(u)' = SessionsAfter(c)'
  <2>1. alone'[c] => Live(u) = first'[c].live \cup {made[c]} /\ made[c] # token[c]
    BY <1>1, Stands DEF Prepared
  <2>. QED BY <1>5, <1>6, <2>1
<1>. QED BY <1>1, <1>7, SessionsDone DEF SessionOps

LEMMA RevokeOneAlone ==
  ASSUME IInv, AloneInv, NEW c \in Call, Watch(c), RevokeOne(c),
         UNCHANGED <<userVars, accLocals>>
  PROVE  Own(c)
<1>. TypeOK /\ PcOK /\ PathOK(c)
  BY DEF IInv, AloneInv
<1>. DEFINE u == ask[c].user
<1>1. /\ ask' = ask /\ prefs' = prefs /\ token' = token /\ session' = Revoking({token[c]})
      /\ pc[c] = "revoke" /\ pc'[c] = "ended" /\ answer'[c] = "ok"
      /\ ask[c].op \in {"logout", "revoke"} /\ u \in User
  BY DEF RevokeOne, End, locals, userVars, PcOK, PathOK, TypeOK, Request
<1>2. Live(u)' = Live(u) \ {token[c]}
  BY <1>1, RevokingLive
<1>3. SessionsAfter(c)' = first'[c].live \ {token[c]}
  BY <1>1 DEF SessionsAfter, SignIns
<1>4. alone'[c] => Live(u)' = SessionsAfter(c)'
  <2>1. alone'[c] => Live(u) = first'[c].live
    BY <1>1, Stands
  <2>. QED BY <1>2, <1>3, <2>1
<1>. QED BY <1>1, <1>4, SessionsDone DEF SessionOps

LEMMA RestoreAlone ==
  ASSUME IInv, AloneInv, NEW c \in Call, Watch(c), Restore(c),
         UNCHANGED <<userVars, accLocals>>
  PROVE  Own(c)
<1>. TypeOK /\ PcOK
  BY DEF IInv
<1>. DEFINE u == ask[c].user
<1>1. /\ ask' = ask /\ prefs' = prefs /\ token' = token
      /\ pc[c] = "restore" /\ pc'[c] = "ended" /\ answer'[c] = "ok" /\ ask[c].op = "elsewhere"
  BY DEF Restore, End, locals, userVars, PcOK, TypeOK
<1>2. /\ SameRows /\ token[c] \in TokensOf(u)
      /\ \A t \in Issued \ {token[c]} : session'[t] = session[t]
  BY RestoreRows
<1>3. session'[token[c]].revoked = FALSE
  <2>1. token[c] \in Issued /\ session[token[c]] \in Row
    BY <1>2 DEF TokensOf, TypeOK
  <2>. QED BY <2>1 DEF Restore, TypeOK, Row
<1>4. Live(u)' = Live(u) \cup {token[c]}
  BY <1>1, <1>2, <1>3 DEF SameRows, SameSession, Live, TokensOf, Unrevoked
<1>5. SessionsAfter(c)' = {token[c]}
  BY <1>1 DEF SessionsAfter, SignIns
<1>6. alone'[c] => Live(u)' = SessionsAfter(c)'
  <2>1. alone'[c] => Live(u) = {}
    BY <1>1, Stands DEF Prepared
  <2>. QED BY <1>4, <1>5, <2>1
<1>. QED BY <1>1, <1>6, SessionsDone DEF SessionOps

LEMMA ApplyAlone ==
  ASSUME IInv, AloneInv, NEW c \in Call, Watch(c), Apply(c), UNCHANGED <<userVars, accLocals>>
  PROVE  Own(c)
<1>. TypeOK /\ PcOK /\ CopyOK(c)
  BY DEF IInv, CopiesOK
<1>. DEFINE u == ask[c].user
            S == snap[c] \cap Unrevoked
<1>1. /\ ask' = ask /\ prefs' = prefs /\ names' = names /\ token' = token /\ row' = row
      /\ pc[c] = "apply" /\ session' = Revoking(S) /\ u \in User
      /\ ask[c].op \in {"refresh", "elsewhere", "everywhere"}
      /\ IF Restores(c, S) THEN pc'[c] = "restore"
         ELSE pc'[c] = "ended" /\ answer'[c] = IF ask[c].op = "refresh" THEN "refused" ELSE "ok"
  BY DEF Apply, Goto, End, userVars, PcOK, TypeOK, Request
<1>2. Live(u)' = Live(u) \ S
  BY <1>1, RevokingLive
<1>3. PathOK(c)'
  BY <1>1 DEF PathOK
<1>4. ASSUME alone'[c]
      PROVE  /\ S = Scope(c) \cap Unrevoked
             /\ Live(u) = first'[c].live /\ prefs[u] = first'[c].prefs
             /\ names["email"][u] = first'[c].email
             /\ ask[c].op = "elsewhere" => token[c] \in Live(u)
  <2>1. /\ Live(u) = first'[c].live /\ prefs[u] = first'[c].prefs
        /\ names["email"][u] = first'[c].email
        /\ Prepared(c) /\ first'[c] = first[c]
    BY <1>1, <1>4, Stands
  <2>2. /\ snap[c] = Scope(c) \cap Unrevoked
        /\ ask[c].op = "elsewhere" => token[c] \in first[c].live
    BY <1>1, <2>1 DEF Prepared
  <2>. QED BY <2>1, <2>2
<1>. HIDE DEF S
<1>5. CASE ask[c].op = "refresh"
  <2>1. pc'[c] = "ended" /\ answer'[c] = "refused"
    BY <1>1, <1>5 DEF Restores
  <2>2. ASSUME alone'[c] PROVE Declined(c)'
    <3>. DEFINE F == Members(row[c].family)
    <3>1. row[c].family \in Token
      BY <1>1, <1>5 DEF CopyOK, Row
    <3>2. Members(row[c].family)' = F
      <4>1. \A f \in Token : Members(f)' = Members(f)
        BY <1>1, RevokingLive
      <4>. QED BY <1>1, <3>1, <4>1
    <3>3. S = F \cap Unrevoked
      BY <1>4, <1>5, <2>2 DEF Scope
    <3>. HIDE DEF F
    <3>4. Live(u)' = first'[c].live \ F
      <4>1. Live(u)' = Live(u) \ F
        BY <1>2, <3>3 DEF Live
      <4>. QED BY <1>4, <2>2, <4>1
    <3>. QED BY <1>1, <1>4, <1>5, <2>2, <3>2, <3>4 DEF Declined
  <2>. QED BY <1>3, <2>1, <2>2 DEF Own, Begun, Keeps
<1>6. CASE ask[c].op = "elsewhere"
  <2>1. alone'[c] => S = Live(u) /\ token[c] \in S
    BY <1>4, <1>6 DEF Scope, Live
  <2>2. alone'[c] => pc'[c] = "restore" /\ Live(u)' = {}
    BY <1>1, <1>2, <1>6, <2>1 DEF Restores
  <2>3. alone'[c] => Untouched(c)' /\ Prepared(c)'
    BY <1>1, <1>4, <2>2 DEF Untouched, Prepared
  <2>. QED BY <1>3, <2>2, <2>3 DEF Own, Begun, Keeps
<1>7. CASE ask[c].op = "everywhere"
  <2>1. pc'[c] = "ended" /\ answer'[c] = "ok"
    BY <1>1, <1>7 DEF Restores
  <2>2. alone'[c] => Live(u)' = {}
    BY <1>2, <1>4, <1>7 DEF Scope, Live
  <2>3. SessionsAfter(c)' = {}
    BY <1>1, <1>7 DEF SessionsAfter, SignIns
  <2>. QED BY <1>1, <1>7, <2>1, <2>2, <2>3, SessionsDone DEF SessionOps
<1>. QED BY <1>1, <1>5, <1>6, <1>7

LEMMA CommitUserAlone ==
  ASSUME IInv, AloneInv, NEW c \in Call, Watch(c), CommitUser(c)
  PROVE  Own(c)
<1>. TypeOK /\ PcOK /\ PathOK(c)
  BY DEF IInv, AloneInv
<1>. DEFINE u == ask[c].user
            op == ask[c].op
<1>1. /\ ask' = ask /\ session' = Revoking(snap[c]) /\ slip' = slip /\ cash' = cash
      /\ pc[c] = "commit" /\ pc'[c] = "ended" /\ answer'[c] = "ok" /\ u \in User
      /\ op \in {"email", "password", "reset", "delete"}
  BY DEF CommitUser, End, locals, accLocals, PcOK, PathOK, TypeOK, Request
<1>. SUFFICES ASSUME alone'[c] PROVE Fulfilled(c)'
  BY <1>1 DEF Own, PathOK, Begun, Keeps
<1>2. /\ Live(u) = first'[c].live /\ prefs[u] = first'[c].prefs
      /\ snap[c] = Live(u)
      /\ op = "email" => first'[c].email # ask[c].name
      /\ op = "delete" => ~cash[u]
  <2>1. /\ Live(u) = first'[c].live /\ prefs[u] = first'[c].prefs
        /\ Prepared(c) /\ first'[c] = first[c]
    BY <1>1, Stands
  <2>. QED BY <1>1, <2>1 DEF Prepared
<1>3. Live(u)' = SessionsAfter(c)'
  <2>1. Live(u)' = {}
    BY <1>1, <1>2, RevokingLive
  <2>2. SessionsAfter(c)' = {}
    BY <1>1, <1>2 DEF SessionsAfter, SignIns
  <2>. QED BY <2>1, <2>2
<1>4. prefs'[u] = PrefsPromised(c)'
  <2>1. prefs'[u] = IF op = "delete" THEN NoMail ELSE prefs[u]
    BY <1>1 DEF CommitUser, PrefsAfter, TypeOK
  <2>. QED BY <1>1, <1>2, <2>1 DEF PrefsPromised
<1>5. op = "email" => names'["email"][u] = ask[c].name
  BY <1>1 DEF CommitUser, Named, TypeOK, Kinds
<1>6. op = "delete" => status'[u] = "deleted"
  BY <1>1 DEF CommitUser, TypeOK
<1>7. op = "reset" => slip'[c] \notin OpenLinks(u)'
  <2>. SUFFICES ASSUME op = "reset", slip[c] \in DOMAIN link' PROVE link'[slip[c]].used
    BY <1>1 DEF OpenLinks
  <2>1. link' = [l \in DOMAIN link |-> [link[l] EXCEPT !.used = @ \/ (op = "reset" /\ l = slip[c])]]
    BY DEF CommitUser
  <2>2. slip[c] \in DOMAIN link /\ link[slip[c]] \in [user : User, expires : Nat, used : BOOLEAN]
    BY <2>1 DEF TypeOK
  <2>. QED BY <2>1, <2>2
<1>. QED BY <1>1, <1>2, <1>3, <1>4, <1>5, <1>6, <1>7 DEF Fulfilled

-----------------------------------------------------------------------------
(* The invariant, and the promise. *)

LEMMA SessOwn ==
  ASSUME IInv, AloneInv, NEW c \in Call, Watch(c), SessStep(c), UNCHANGED <<userVars, accLocals>>
  PROVE  Own(c)
BY FindOthersAlone, IssueAlone, ReadForRefreshAlone, LoadUserAlone, RetireAlone,
   ReadForLogoutAlone, ReadTargetAlone, RevokeOneAlone, SweepAlone, ApplyAlone, RestoreAlone
   DEF SessStep

LEMMA AccountOwn ==
  ASSUME IInv, AloneInv, NEW c \in Call, Watch(c), AccountStep(c)
  PROVE  Own(c)
BY SignInAlone, CreateUserAlone, AdmitAlone, ReadMeForNameAlone, FindNameAlone, ReadMeAlone,
   ReadMeForPrefsAlone, WriteAlone, ReadBalanceAlone, RequestResetAlone, CloseLinksAlone,
   InsertLinkAlone, ReadLinkAlone, LockUserAlone, CommitUserAlone, DiesAlone
   DEF AccountStep

\* Sessions are issued to accounts only.
LEMMA AbsentStay ==
  ASSUME IInv, AloneInv, NEW c \in Call, Beside(c),
         \/ SessStep(c) /\ UNCHANGED <<userVars, accLocals>>
         \/ AccountStep(c)
  PROVE  AbsentHaveNone'
<1>1. CASE Issue(c)
  <2>1. /\ pc[c] = "issue" /\ PathOK(c) /\ ask[c].user \in User
    BY <1>1 DEF Issue, AloneInv, IInv, TypeOK, Request
  <2>2. status[ask[c].user] # "absent"
    BY <2>1 DEF PathOK
  <2>3. \A u \in User : u # ask[c].user => TokensOf(u)' = TokensOf(u)
    BY <1>1, IssueLive
  <2>. QED BY <2>2, <2>3 DEF AbsentHaveNone, AloneInv, Beside
<1>2. CASE SameRows
  <2>1. \A u \in User : TokensOf(u)' = TokensOf(u)
    BY <1>2 DEF SameRows, SameSession, TokensOf
  <2>. QED BY <2>1 DEF AbsentHaveNone, AloneInv, Beside
<1>3. SessStep(c) /\ UNCHANGED <<userVars, accLocals>> => Issue(c) \/ SameRows
  BY FindOthersStep, ReadForRefreshStep, LoadUserStep, RetireStep, ReadForLogoutStep,
     ReadTargetStep, RevokeOneStep, SignOutEverywhereStep, SweepStep, ApplyStep, RestoreRows
     DEF SessStep, OnlyRevokes
<1>4. AccountStep(c) => SameRows
  <2>1. Quiet(c) => SameRows
    BY UnchangedOnlyRevokes DEF Quiet, OnlyRevokes, IInv
  <2>. QED
    BY <2>1, SignUpStep, LogInStep, LogInWithGoogleStep, FindEmailStep, ResolveUsernameStep,
       CreateUserStep, AdmitStep, ReadMeForNameStep, FindNameStep, ReadMeStep,
       ReadMeForPrefsStep, WriteStep, ReadBalanceStep, RequestResetStep, CloseLinksStep,
       InsertLinkStep, ReadLinkStep, LockUserStep, CommitUserStep, MoneyMovesStep, DiesStep
       DEF AccountStep, OnlyRevokes
<1>. QED BY <1>1, <1>2, <1>3, <1>4

\* A step of call c.
CallStep(c) ==
  /\ \/ SessStep(c) /\ UNCHANGED <<userVars, accLocals>>
     \/ AccountStep(c)
  /\ Watch(c)

LEMMA CallStepAlone ==
  ASSUME IInv, IInv', AloneInv, NEW c \in Call, CallStep(c)
  PROVE  AloneInv' /\ Own(c) /\ Beside(c)
<1>1. Beside(c) /\ pc[c] # "ended" /\ Own(c)
  BY SessBeside, AccountBeside, SessOwn, AccountOwn DEF CallStep
<1>2. Alongside(c) /\ Owned(c)'
  BY SessAlongside, AccountAlongside, OwnedBySession, OwnedByAccount DEF CallStep
<1>3. AbsentHaveNone'
  BY <1>1, AbsentStay DEF CallStep
<1>4. DOMAIN first' = Call /\ alone' \in [Call -> BOOLEAN]
  BY <1>1, Watched DEF CallStep
<1>5. \A d \in Call : PathOK(d)' /\ Begun(d)' /\ Owned(d)'
  BY <1>1, <1>2, OthersKeep DEF CallStep, Own
<1>. QED BY <1>1, <1>3, <1>4, <1>5 DEF AloneInv

LEMMA AloneInit == Init => AloneInv
BY DEF Init, SessInit, AloneInv, AbsentHaveNone, TokensOf, Issued, PathOK, Begun, Owned

\* What the clock and a stuttering step leave alone.
LEMMA NobodyMoves ==
  ASSUME AloneInv, UNCHANGED <<ask, tables, pc, locals, userVars, accLocals, history>>
  PROVE  AloneInv'
BY DEF tables, locals, userVars, accLocals, history, AloneInv, AbsentHaveNone, PathOK, Begun,
   Untouched, Prepared, Owned, Live, TokensOf, Unrevoked, Issued, Scope, Members, OpenLinks

LEMMA AloneNext == IInv /\ IInv' /\ AloneInv /\ [Next]_vars => AloneInv'
<1>. SUFFICES ASSUME IInv, IInv', AloneInv, [Next]_vars PROVE AloneInv'
  OBVIOUS
<1>1. CASE Tick /\ UNCHANGED <<userVars, accLocals, history>>
  BY <1>1, NobodyMoves DEF Tick
<1>2. ASSUME NEW c \in Call, CallStep(c) PROVE AloneInv'
  BY <1>2, CallStepAlone
<1>3. CASE UNCHANGED vars
  BY <1>3, NobodyMoves DEF vars, sessVars
<1>. QED BY <1>1, <1>2, <1>3 DEF Next, CallStep

(***************************************************************************)
(* A request that no other request of its user overlaps does what it is    *)
(* for, whatever other users do meanwhile: from any state that any race,   *)
(* crash or expiry before it may have left, its statements together leave  *)
(* exactly the sessions, names, links and preferences promised, or, if it  *)
(* refuses, what was there before (all services of auth/ and users/).      *)
(***************************************************************************)
THEOREM AloneKeeps == Spec => AloneKeepsPromise
<1>1. IInv /\ IInv' /\ AloneInv /\ [Next]_vars =>
        [\A c \in Call :
           pc[c] # "ended" /\ pc[c]' = "ended" /\ alone[c]' =>
             /\ answer[c]' = "ok" => Fulfilled(c)'
             /\ answer[c]' \in {"refused", "taken"} => Declined(c)']_vars
  <2>. SUFFICES ASSUME IInv, IInv', AloneInv, Next, NEW c \in Call,
                       pc[c] # "ended", pc'[c] = "ended", alone'[c]
                PROVE  /\ answer'[c] = "ok" => Fulfilled(c)'
                       /\ answer'[c] \in {"refused", "taken"} => Declined(c)'
    OBVIOUS
  <2>1. CASE Tick
    BY <2>1 DEF Tick
  <2>2. ASSUME NEW d \in Call, CallStep(d) PROVE Own(c)
    <3>1. Own(d) /\ Beside(d)
      BY <2>2, CallStepAlone
    <3>2. d = c
      BY <3>1 DEF Beside
    <3>. QED BY <3>1, <3>2
  <2>. QED BY <2>1, <2>2 DEF Next, CallStep, Own, Keeps
<1>2. Spec => []AloneInv
  BY AloneInit, AloneNext, Invariant, PTL DEF Spec
<1>. QED BY <1>1, <1>2, Invariant, PTL DEF Spec, AloneKeepsPromise
=============================================================================
