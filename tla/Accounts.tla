------------------------------ MODULE Accounts ------------------------------
(***************************************************************************)
(* auth.service.ts, account.service.ts, users.service.ts and               *)
(* password-reset.service.ts: accounts, their names, reset links, and the  *)
(* sessions they are used with.  A name stands for all its spellings: the  *)
(* code compares and indexes names by their lower-case form only.          *)
(***************************************************************************)
EXTENDS Sessions

CONSTANTS Candidates,  \* usernames Google sign-up makes from an e-mail address
          GoogleNames, \* display names that Google gives with an identity, or None
          Founders,    \* users that have an account when the behaviour begins
          FounderEmail \* and their e-mail addresses

Kinds == {"email", "username", "display"}

ASSUME AccountAssumption ==
  /\ Candidates \subseteq Name
  /\ GoogleNames \subseteq Name \cup {None}
  /\ Founders \subseteq User
  /\ FounderEmail \in [Founders -> Name]
  /\ \A u, v \in Founders : u # v => FounderEmail[u] # FounderEmail[v]

VARIABLES
  login,      \* how a user signs in: "password" or "google"
  names,      \* users.email, .username, .display_name
  onboarded,  \* users.onboarding_status is "active"
  prefs,      \* users.notification_prefs
  cash,       \* whether the cashable balance is positive
  link,       \* password_reset_tokens: id -> row
  chosen,     \* the username a Google sign-up decided on
  draft,      \* the preferences a call is to write
  slip,       \* the reset link a call presents or has made
  first,      \* history: the user's sessions, e-mail and preferences when the
              \*   call began,
  alone       \*   and whether the user's other calls have not moved since

userVars == <<login, names, onboarded, prefs, cash, link>>
accLocals == <<chosen, draft, slip>>
history == <<first, alone>>
vars == <<sessVars, userVars, accLocals, history>>

Prefs == [digest : BOOLEAN, alerts : BOOLEAN]
DefaultPrefs == [digest |-> TRUE, alerts |-> TRUE]
NoMail == [digest |-> FALSE, alerts |-> FALSE]

Nothing == [live |-> {}, email |-> None, prefs |-> DefaultPrefs]

Init ==
  /\ SessInit
  /\ status = [u \in User |-> IF u \in Founders THEN "active" ELSE "absent"]
  /\ login = [u \in User |-> IF u \in Founders THEN "password" ELSE "none"]
  /\ names = [k \in Kinds |-> [u \in User |->
                IF k = "email" /\ u \in Founders THEN FounderEmail[u] ELSE None]]
  /\ onboarded = [u \in User |-> TRUE]
  /\ prefs = [u \in User |-> DefaultPrefs]
  /\ cash = [u \in User |-> FALSE]
  /\ link = [l \in {} |-> [user |-> None, expires |-> 0, used |-> TRUE]]
  /\ chosen = [c \in Call |-> None]
  /\ draft = [c \in Call |-> DefaultPrefs]
  /\ slip = [c \in Call |-> None]
  /\ first = [c \in Call |-> Nothing]
  /\ alone = [c \in Call |-> TRUE]

-----------------------------------------------------------------------------
(* users.service.ts *)

Holders(k, n) == {u \in User : names[k][u] = n}

\* The lock of a user's row is held from the first UPDATE of a transaction to
\* its commit, and so is the entry of the unique index it has written.
LockFree(c, u) == \A d \in Call \ {c} : pc[d] = "commit" => ask[d].user # u
EmailFree(c, n) ==
  \A d \in Call \ {c} : pc[d] = "commit" /\ ask[d].op = "email" => ask[d].name # n

\* Bug: the columns have no unique indexes, only the lookups before.
Clashes_NoIndex(k, n, u) == FALSE

\* The unique index of the column: a statement that gives u the name n fails.
Clashes(k, n, u) == Holders(k, n) \ {u} # {}

Named(k, u, n) == [names EXCEPT ![k][u] = n]

\* createWithPassword, createWithOAuth with linkOAuthAccount: the names and the
\* Google identity are new, or an insert fails.
CreateUser(c) ==
  LET u == ask[c].user
      n == ask[c].name
      google == ask[c].op = "google"
      unique(shown) ==
        /\ ~Clashes("email", n, u) /\ ~Clashes("username", chosen[c], u)
        /\ shown # None => ~Clashes("display", shown, u)
        /\ status[u] = "absent" IN
  /\ pc[c] = "create"
  /\ EmailFree(c, n)
  /\ \E shown \in (IF google THEN GoogleNames ELSE {None}) :
       \/ /\ unique(shown)
          /\ status' = [status EXCEPT ![u] = "active"]
          /\ login' = [login EXCEPT ![u] = IF google THEN "google" ELSE "password"]
          /\ onboarded' = [onboarded EXCEPT ![u] = ~google]
          /\ names' = [names EXCEPT !["email"][u] = n, !["username"][u] = chosen[c],
                                   !["display"][u] = shown]
          /\ Goto(c, "issue")
       \/ /\ ~unique(shown)
          /\ End(c, "taken")
          /\ UNCHANGED <<status, login, names, onboarded>>
  /\ UNCHANGED <<now, ask, session, locals, prefs, cash, link, accLocals>>

-----------------------------------------------------------------------------
(* signup, login, loginWithGoogle.  The password and the eligibility of the *)
(* person may always be found wanting.                                      *)

SignUp(c) ==
  LET r == ask[c] IN
  /\ pc[c] = "new" /\ r.op = "signup"
  /\ status[r.user] = "absent"
  /\ \/ End(c, "refused")
     \/ Holders("email", r.name) \cup Holders("username", r.username) # {} /\ End(c, "taken")
     \/ Holders("email", r.name) \cup Holders("username", r.username) = {} /\ Goto(c, "create")
  /\ chosen' = [chosen EXCEPT ![c] = r.username]
  /\ UNCHANGED <<now, ask, tables, locals, userVars, draft, slip>>

\* Bug: an account that is no longer active may be signed in to.
MaySignIn_AnyStatus(u, how) == login[u] = how

MaySignIn(u, how) == login[u] = how /\ status[u] = "active"

LogIn(c) ==
  /\ pc[c] = "new" /\ ask[c].op = "login"
  /\ \/ MaySignIn(ask[c].user, "password") /\ Goto(c, "others")
     \/ End(c, "refused")
  /\ UNCHANGED <<now, ask, tables, locals, userVars, accLocals>>

\* Google vouches for the user: a linked account is signed in to.
LogInWithGoogle(c) ==
  LET u == ask[c].user IN
  /\ pc[c] = "new" /\ ask[c].op = "google"
  /\ \/ status[u] = "absent" /\ Goto(c, "findEmail")
     \/ MaySignIn(u, "google") /\ Goto(c, "others")
     \/ login[u] = "google" /\ ~MaySignIn(u, "google") /\ End(c, "refused")
  /\ UNCHANGED <<now, ask, tables, locals, userVars, accLocals>>

FindEmail(c) ==
  /\ pc[c] = "findEmail"
  /\ IF Holders("email", ask[c].name) # {} THEN End(c, "taken") ELSE Goto(c, "resolve")
  /\ UNCHANGED <<now, ask, tables, locals, userVars, accLocals>>

\* resolveUsernameForGoogle: the username asked for, or a free candidate.
ResolveUsername(c) ==
  LET wanted == IF ask[c].username = None THEN Candidates ELSE {ask[c].username}
      free == {n \in wanted : Holders("username", n) = {}} IN
  /\ pc[c] = "resolve"
  /\ \/ /\ \E n \in free : chosen' = [chosen EXCEPT ![c] = n]
        /\ Goto(c, "create")
     \/ free = {} /\ End(c, "taken") /\ UNCHANGED chosen
  /\ UNCHANGED <<now, ask, tables, locals, userVars, draft, slip>>

-----------------------------------------------------------------------------
(* Requests of a signed-in user: the guard, then the row of the user. *)

Guarded == {"revoke", "elsewhere", "email", "display", "password", "prefs", "onboard", "delete"}
SkipOnboarding == {"prefs", "onboard", "delete"}

FirstStatement(op) ==
  CASE op = "elsewhere" -> "sweep"
    [] op = "revoke" -> "target"
    [] OTHER -> "me"

\* JwtAuthGuard: the session the call is made with is active, and the user
\* has been through the onboarding where that is required.
Admit(c) ==
  LET r == ask[c] IN
  /\ pc[c] = "new" /\ r.op \in Guarded
  /\ \E t \in TokensOf(r.user) :
       /\ token' = [token EXCEPT ![c] = t]
       /\ IF IsSessionActive(t, r.user) /\ (r.op \in SkipOnboarding \/ onboarded[r.user])
          THEN Goto(c, FirstStatement(r.op))
          ELSE End(c, "refused")
  /\ UNCHANGED <<now, ask, tables, row, snap, took, made, userVars, accLocals>>

NameKind(op) == IF op = "email" THEN "email" ELSE "display"

\* updateEmail, updateDisplayName: nothing is done if the name stays.
ReadMeForName(c) ==
  LET r == ask[c] IN
  /\ pc[c] = "me" /\ r.op \in {"email", "display"}
  /\ IF names[NameKind(r.op)][r.user] = r.name THEN End(c, "ok") ELSE Goto(c, "find")
  /\ UNCHANGED <<now, ask, tables, locals, userVars, accLocals>>

\* What the lookup before a change finds.
HeldByOther(k, n, u) == Holders(k, n) \ {u} # {}

FindName(c) ==
  LET r == ask[c] IN
  /\ pc[c] = "find"
  /\ IF HeldByOther(NameKind(r.op), r.name, r.user) THEN End(c, "taken")
     ELSE Goto(c, IF r.op = "email" THEN "lock" ELSE "write")
  /\ UNCHANGED <<now, ask, tables, locals, userVars, accLocals>>

\* changePassword (the present password is right and the new one another),
\* onboard, and deleteAccount up to the check of the handle.
ReadMe(c) ==
  LET u == ask[c].user IN
  /\ pc[c] = "me"
  /\ \/ ask[c].op = "password" /\ login[u] = "password" /\ Goto(c, "lock")
     \/ ask[c].op = "onboard" /\ ~onboarded[u] /\ Goto(c, "write")
     \/ ask[c].op = "delete" /\ status[u] # "deleted" /\ Goto(c, "balance")
     \/ ask[c].op \in {"password", "onboard", "delete"} /\ End(c, "refused")
  /\ UNCHANGED <<now, ask, tables, locals, userVars, accLocals>>

\* updateNotificationPrefs: the request sets one of the two preferences.
ReadMeForPrefs(c) ==
  /\ pc[c] = "me" /\ ask[c].op = "prefs"
  /\ draft' = [draft EXCEPT ![c] = [prefs[ask[c].user] EXCEPT !.digest = ask[c].digest]]
  /\ Goto(c, "write")
  /\ UNCHANGED <<now, ask, tables, locals, userVars, chosen, slip>>

\* The UPDATEs of one statement wait for the lock of the row.
Write(c) ==
  LET r == ask[c]
      u == r.user IN
  /\ pc[c] = "write"
  /\ LockFree(c, u)
  /\ \/ /\ r.op = "prefs"
        /\ prefs' = [prefs EXCEPT ![u] = draft[c]]
        /\ End(c, "ok")
        /\ UNCHANGED <<names, onboarded>>
     \/ /\ r.op = "onboard"
        /\ onboarded' = [onboarded EXCEPT ![u] = TRUE]
        /\ End(c, "ok")
        /\ UNCHANGED <<names, prefs>>
     \/ /\ r.op = "display"
        /\ ~Clashes("display", r.name, u)
        /\ names' = Named("display", u, r.name)
        /\ End(c, "ok")
        /\ UNCHANGED <<onboarded, prefs>>
     \/ /\ r.op = "display"
        /\ Clashes("display", r.name, u)
        /\ End(c, "taken")
        /\ UNCHANGED <<names, onboarded, prefs>>
  /\ UNCHANGED <<now, ask, tables, locals, login, cash, link, accLocals>>

\* deleteAccount: nothing may be left to cash out.
ReadBalance(c) ==
  /\ pc[c] = "balance"
  /\ IF cash[ask[c].user] THEN End(c, "refused") ELSE Goto(c, "lock")
  /\ UNCHANGED <<now, ask, tables, locals, userVars, accLocals>>

-----------------------------------------------------------------------------
(* createAndSend and consume *)

OpenLinks(u) == {l \in DOMAIN link : link[l].user = u /\ ~link[l].used}

\* The answer does not tell whether there is such an account.
RequestReset(c) ==
  LET u == ask[c].user IN
  /\ pc[c] = "new" /\ ask[c].op = "forgot"
  /\ IF MaySignIn(u, "password") THEN Goto(c, "closeLinks") ELSE End(c, "ok")
  /\ UNCHANGED <<now, ask, tables, locals, userVars, accLocals>>

CloseLinks(c) ==
  /\ pc[c] = "closeLinks"
  /\ link' = [l \in DOMAIN link |->
                [link[l] EXCEPT !.used = @ \/ l \in OpenLinks(ask[c].user)]]
  /\ Goto(c, "insertLink")
  /\ UNCHANGED <<now, ask, tables, locals, login, names, onboarded, prefs, cash, accLocals>>

InsertLink(c) ==
  /\ pc[c] = "insertLink"
  /\ \E l \in Link \ DOMAIN link :
       /\ link' = [x \in DOMAIN link \cup {l} |->
                     IF x = l
                     THEN [user |-> ask[c].user, expires |-> now + ResetTtl, used |-> FALSE]
                     ELSE link[x]]
       /\ slip' = [slip EXCEPT ![c] = l]
  /\ End(c, "ok")
  /\ UNCHANGED <<now, ask, tables, locals, login, names, onboarded, prefs, cash, chosen, draft>>

Acceptable(l) == ~link[l].used /\ now < link[l].expires

ReadLink(c) ==
  /\ pc[c] = "new" /\ ask[c].op = "reset"
  /\ \E l \in DOMAIN link :
       /\ link[l].user = ask[c].user
       /\ slip' = [slip EXCEPT ![c] = l]
       /\ IF Acceptable(l) THEN Goto(c, "lock") ELSE End(c, "refused")
  /\ UNCHANGED <<now, ask, tables, locals, userVars, chosen, draft>>

-----------------------------------------------------------------------------
(* The transactions that change the user's row and then sign the user out: *)
(* updateEmail, changePassword, confirmPasswordReset, deleteAccount.       *)

\* The row is locked, and the second UPDATE finds the user's sessions.
LockUser(c) ==
  LET r == ask[c] IN
  /\ pc[c] = "lock"
  /\ LockFree(c, r.user)
  /\ r.op = "email" => EmailFree(c, r.name)
  /\ \/ /\ r.op = "email" /\ Clashes("email", r.name, r.user)
        /\ End(c, "taken")
        /\ UNCHANGED snap
     \/ /\ ~(r.op = "email" /\ Clashes("email", r.name, r.user))
        /\ snap' = [snap EXCEPT ![c] = Live(r.user)]
        /\ Goto(c, "commit")
  /\ UNCHANGED <<now, ask, tables, token, row, took, made, userVars, accLocals>>

PrefsAfter(op, u) == IF op = "delete" THEN NoMail ELSE prefs[u]

CommitUser(c) ==
  LET op == ask[c].op
      u == ask[c].user IN
  /\ pc[c] = "commit"
  /\ session' = Revoking(snap[c])
  /\ names' = IF op = "email" THEN Named("email", u, ask[c].name) ELSE names
  /\ status' = IF op = "delete" THEN [status EXCEPT ![u] = "deleted"] ELSE status
  /\ prefs' = [prefs EXCEPT ![u] = PrefsAfter(op, u)]
  /\ link' = [l \in DOMAIN link |-> [link[l] EXCEPT !.used = @ \/ (op = "reset" /\ l = slip[c])]]
  /\ End(c, "ok")
  /\ UNCHANGED <<now, ask, locals, login, onboarded, cash, accLocals>>

-----------------------------------------------------------------------------
\* What the wallet does meanwhile: a payout makes the balance positive, a
\* stake spends it.
MoneyMoves(c) ==
  LET r == ask[c] IN
  /\ pc[c] = "new" /\ r.op \in MoneyOps
  /\ status[r.user] # "absent"
  /\ cash' = [cash EXCEPT ![r.user] = (r.op = "payout")]
  /\ End(c, "ok")
  /\ UNCHANGED <<now, ask, tables, locals, login, names, onboarded, prefs, link, accLocals>>

\* The process dies: what was committed stays, what was locked is free.
Dies(c) ==
  /\ pc[c] \notin {"new", "ended"}
  /\ End(c, "none")
  /\ UNCHANGED <<now, ask, tables, locals, userVars, accLocals>>

AccountStep(c) ==
  \/ SignUp(c) \/ LogIn(c) \/ LogInWithGoogle(c) \/ FindEmail(c) \/ ResolveUsername(c)
  \/ CreateUser(c)
  \/ Admit(c) \/ ReadMeForName(c) \/ FindName(c) \/ ReadMe(c) \/ ReadMeForPrefs(c)
  \/ Write(c) \/ ReadBalance(c)
  \/ RequestReset(c) \/ CloseLinks(c) \/ InsertLink(c) \/ ReadLink(c)
  \/ LockUser(c) \/ CommitUser(c)
  \/ MoneyMoves(c) \/ Dies(c)

\* Call c takes a step: the calls of its user that are under way are no longer
\* alone.
Watch(c) ==
  LET u == ask[c].user IN
  /\ first' = IF pc[c] = "new"
              THEN [first EXCEPT ![c] = [live |-> Live(u), email |-> names["email"][u],
                                         prefs |-> prefs[u]]]
              ELSE [d \in Call |-> IF pc[d] = "ended" THEN Nothing ELSE first[d]]
  /\ alone' = [d \in Call |->
                 alone[d] /\ (d = c \/ ask[d].user # u \/ pc[d] \in {"new", "ended"})]

Next ==
  \/ \E c \in Call : /\ \/ SessStep(c) /\ UNCHANGED <<userVars, accLocals>>
                        \/ AccountStep(c)
                     /\ Watch(c)
  \/ Tick /\ UNCHANGED <<userVars, accLocals, history>>

Spec == Init /\ [][Next]_vars

-----------------------------------------------------------------------------
\* Every variable keeps its type; a row that is held is a row of the user.
TypeOK ==
  /\ now \in 0..Horizon[ask]
  /\ ask \in Workload /\ ask \in [Call -> Request]
  /\ Issued \subseteq Token /\ session \in [Issued -> Row]
  /\ status \in [User -> {"absent", "active", "deleted"}]
  /\ login \in [User -> {"none", "password", "google"}]
  /\ names \in [Kinds -> [User -> Name \cup {None}]]
  /\ onboarded \in [User -> BOOLEAN] /\ cash \in [User -> BOOLEAN]
  /\ prefs \in [User -> Prefs] /\ draft \in [Call -> Prefs]
  /\ DOMAIN link \subseteq Link
  /\ link \in [DOMAIN link -> [user : User, expires : Nat, used : BOOLEAN]]
  /\ token \in [Call -> Issued \cup {None}] /\ made \in [Call -> Issued \cup {None}]
  /\ row \in [Call -> Row \cup {NoRow}]
  /\ snap \in [Call -> SUBSET Issued] /\ took \in [Call -> SUBSET Issued]
  /\ slip \in [Call -> DOMAIN link \cup {None}]
  /\ chosen \in [Call -> Name \cup {None}]
  /\ answer \in [Call -> {"none", "ok", "refused", "taken"}]

(***************************************************************************)
(* No two users have the same e-mail address, username or display name,    *)
(* deleted users included, however sign-ups and changes of names overlap   *)
(* between the lookup of a name and its writing (signup, loginWithGoogle,  *)
(* updateEmail, updateDisplayName, and the unique indexes of users).       *)
(***************************************************************************)
NamesAreUnique ==
  \A k \in Kinds, u, v \in User :
    u # v /\ names[k][u] # None => names[k][u] # names[k][v]

(***************************************************************************)
(* What a call is to leave behind if no other call of its user takes a     *)
(* step while it lasts: the sessions its user has then, and the column it  *)
(* was about.                                                              *)
(***************************************************************************)
SessionsAfter(c) ==
  LET r == ask[c]
      before == first[c].live IN
  CASE r.op \in SignIns -> {made[c]}
    [] r.op = "refresh" -> (before \ {token[c]}) \cup {made[c]}
    [] r.op \in {"logout", "revoke"} -> before \ {token[c]}
    [] r.op = "elsewhere" -> {token[c]}
    [] r.op = "email" /\ first[c].email # r.name -> {}
    [] r.op \in {"everywhere", "password", "reset", "delete"} -> {}
    [] OTHER -> before

PrefsPromised(c) ==
  CASE ask[c].op = "prefs" -> [first[c].prefs EXCEPT !.digest = ask[c].digest]
    [] ask[c].op = "delete" -> NoMail
    [] OTHER -> first[c].prefs

Fulfilled(c) ==
  LET r == ask[c]
      u == r.user IN
  /\ Live(u) = SessionsAfter(c)
  /\ prefs[u] = PrefsPromised(c)
  /\ r.op \in {"email", "display"} => names[r.op][u] = r.name
  /\ r.op = "delete" => status[u] = "deleted" /\ ~cash[u]
  /\ r.op = "forgot" /\ slip[c] # None => OpenLinks(u) = {slip[c]}
  /\ r.op = "reset" => slip[c] \notin OpenLinks(u)
  /\ r.op = "onboard" => onboarded[u]

\* Nothing is changed, but for the family of a token that may not be used.
Declined(c) ==
  LET r == ask[c]
      u == r.user
      family == IF r.op = "refresh" THEN Members(row[c].family) ELSE {} IN
  /\ Live(u) = first[c].live \/ Live(u) = first[c].live \ family
  /\ r.op = "refresh" /\ token[c] \notin first[c].live => family \cap Live(u) = {}
  /\ names["email"][u] = first[c].email /\ prefs[u] = first[c].prefs

(***************************************************************************)
(* The many statements of a request amount to what the request is for: a   *)
(* call during which no other call of its own user takes a step leaves     *)
(* exactly the sessions, names, links and preferences it promises,         *)
(* whatever has happened before and whatever other users do meanwhile:     *)
(* they may race for its name, sign out or in, and name its sessions       *)
(* (all services of auth/ and users/).                                     *)
(***************************************************************************)
AloneKeepsPromise ==
  [][\A c \in Call :
       pc[c] # "ended" /\ pc[c]' = "ended" /\ alone[c]' =>
         /\ answer[c]' = "ok" => Fulfilled(c)'
         /\ answer[c]' \in {"refused", "taken"} => Declined(c)']_vars

\* u has been deleted, has no session and wants no mail; no sign-in or refresh
\* that found u active is under way, and no request that restores a session
\* or writes preferences.
Gone(u) ==
  /\ status[u] = "deleted"
  /\ Live(u) = {}
  /\ prefs[u] = NoMail
  /\ \A c \in Call : ask[c].user = u =>
       /\ pc[c] \notin {"others", "issue", "restore"}
       /\ ask[c].op = "prefs" => pc[c] \notin {"me", "write"}

(***************************************************************************)
(* A deleted account stays deleted: once the requests that had begun are   *)
(* over, no sign-in, refresh, reset link or preference brings back a       *)
(* session or a mail (softDeleteAccount and the checks of the status in    *)
(* auth.service and rotateRefreshToken).                                   *)
(***************************************************************************)
GoneForGood == [][\A u \in User : Gone(u) => Gone(u)']_vars

=============================================================================
