---------------------------- MODULE PagingProofs ----------------------------
(***************************************************************************)
(* Theorems about Paging, for every set of transactions, every history,    *)
(* every choice of page sizes and every precision of the clock: a walk     *)
(* never goes back, and what it misses lies within a millisecond of a cut. *)
(* Then about Feed, for any users, posts and requests at a time: counters  *)
(* and answers are exact, and a page counts the like of its viewer.        *)
(***************************************************************************)
EXTENDS Paging, Feed, FiniteSetTheorems, TLAPS

----------------------------------------------------------------------------
(* Lemmas about the order of rows and about cursors. *)

\* Dropping what is below the millisecond gives an instant that is not later.
LEMMA ToMillisBounds ==
  ASSUME NEW time \in Nat
  PROVE  ToMillis(time) \in Nat /\ ToMillis(time) <= time
<1>1. Milli \in Nat \ {0}
  BY PagingAssumption
<1>2. time % Milli \in 0..(Milli - 1)
  BY <1>1
<1>3. time % Milli <= time
  BY <1>1
<1> QED
  BY <1>2, <1>3 DEF ToMillis

\* The order of the SELECT is transitive.
LEMMA NewerTransitive ==
  ASSUME NEW r \in Row, NEW s \in Row, NEW u \in Row, Newer(r, s), Newer(s, u)
  PROVE  Newer(r, u)
BY DEF Row, Newer

\* A row that passes the cursor made from c is older than c.
LEMMA AfterIsOlder ==
  ASSUME NEW c \in Row, NEW r \in Row, After(BuildCursor(c), r)
  PROVE  Newer(c, r)
<1>1. ToMillis(c.at) \in Nat /\ ToMillis(c.at) <= c.at
  BY ToMillisBounds DEF Row
<1>2. BuildCursor(c) # NoCursor
  BY <1>1 DEF BuildCursor, NoCursor
<1> QED
  BY <1>1, <1>2 DEF After, BuildCursor, Newer, Row

\* A row older than c passes the cursor made from c, or is in c's millisecond.
LEMMA OlderIsAfterOrNear ==
  ASSUME NEW c \in Row, NEW r \in Row, Newer(c, r)
  PROVE  After(BuildCursor(c), r) \/ ToMillis(c.at) <= r.at
<1>1. ToMillis(c.at) \in Nat
  BY ToMillisBounds DEF Row
<1> QED
  BY <1>1 DEF After, BuildCursor, Row

----------------------------------------------------------------------------
(* What a SELECT of the walk returns. *)

CutsBefore(c) == IF c = NoCursor THEN {} ELSE cuts

\* List returns all that is selected and no cursor, or a first part of it and
\* the cursor of that part's last row, which is newer than all that remains.
LEMMA ListReturns ==
  ASSUME NEW f, NEW c, NEW n \in Limits, List(f, c, n)
  PROVE  \/ /\ page' = Selected(f, c)
            /\ cursor' = NoCursor
            /\ cuts' = CutsBefore(c)
         \/ /\ page' \subseteq Selected(f, c)
            /\ \E last \in page' :
                 /\ cursor' = BuildCursor(last)
                 /\ cuts' = CutsBefore(c) \cup {last}
                 /\ \A s \in page' : s = last \/ Newer(s, last)
                 /\ \A r \in Selected(f, c) \ page' : Newer(last, r)
<1> DEFINE S == Selected(f, c)
<1>0. n \in Nat
  BY PagingAssumption
<1>1. PICK read \in FirstOf(S, n + 1) :
        \/ /\ Cardinality(read) > n
           /\ \E sliced \in FirstOf(read, n), last \in read :
                /\ IsLast(last, sliced)
                /\ page' = sliced
                /\ cursor' = BuildCursor(last)
                /\ cuts' = CutsBefore(c) \cup {last}
        \/ /\ Cardinality(read) <= n
           /\ page' = read
           /\ cursor' = NoCursor
           /\ cuts' = CutsBefore(c)
  BY DEF List, CutsBefore
<1>2. CASE /\ Cardinality(read) > n
           /\ \E sliced \in FirstOf(read, n), last \in read :
                /\ IsLast(last, sliced)
                /\ page' = sliced
                /\ cursor' = BuildCursor(last)
                /\ cuts' = CutsBefore(c) \cup {last}
  <2>1. PICK sliced \in FirstOf(read, n), last \in read :
          /\ IsLast(last, sliced)
          /\ page' = sliced
          /\ cursor' = BuildCursor(last)
          /\ cuts' = CutsBefore(c) \cup {last}
    BY <1>2
  <2>2. last \in page' /\ \A s \in page' : s = last \/ Newer(s, last)
    BY <2>1 DEF IsLast
  <2>3. page' \subseteq read /\ read \subseteq S
    BY <2>1 DEF FirstOf
  <2>4. \A r \in S \ page' : Newer(last, r)
    <3> SUFFICES ASSUME NEW r \in S \ page' PROVE Newer(last, r)
      OBVIOUS
    <3>1. CASE r \in read
      BY <2>1, <2>2, <3>1 DEF FirstOf
    <3>2. CASE r \notin read
      BY <1>1, <2>2, <2>3, <3>2 DEF FirstOf
    <3> QED
      BY <3>1, <3>2
  <2> QED
    BY <2>1, <2>2, <2>3, <2>4
<1>3. CASE /\ Cardinality(read) <= n
           /\ page' = read
           /\ cursor' = NoCursor
           /\ cuts' = CutsBefore(c)
  <2>1. Cardinality(read) = n + 1 \/ read = S
    BY <1>1 DEF FirstOf
  <2>2. read = S
    BY <1>0, <1>3, <2>1
  <2> QED
    BY <1>3, <2>2
<1> QED
  BY <1>1, <1>2, <1>3

----------------------------------------------------------------------------
(* The inductive invariant. *)

\* All the rows the walk has shown.
Shown == earlier \cup page

\* r is one of the rows a walk may miss: it follows a cut, but does not pass
\* the cursor made from it.
NearACut(r) == \E c \in cuts : Newer(c, r) /\ ~After(BuildCursor(c), r)

\* What is still to be shown lies behind all that has been.
CursorIsBehind ==
  cursor # NoCursor =>
    \A s \in Shown, r \in Row : After(cursor, r) => Newer(s, r)

\* What was there from the start is shown, still to come, or near a cut.
Accounted ==
  \A r \in atStart \ Shown :
    \/ cursor # NoCursor /\ After(cursor, r)
    \/ NearACut(r)

\* The rows a walk began with are of its filter.
StartMatches == \A r \in atStart : r.kind \in KindsForFilter(filter)

IInv ==
  /\ TypeOK
  /\ PagesDescend
  /\ CursorIsBehind
  /\ Accounted
  /\ StartMatches

LEMMA InitIInv == Init => IInv
BY DEF Init, IInv, TypeOK, PagesDescend, CursorIsBehind, Accounted,
       StartMatches, Shown, NoCursor, NotBegun

\* The database's own steps add rows and leave the walk alone.
LEMMA DatabaseKeepsIInv ==
  ASSUME IInv, Tick \/ (\E t \in Tx : Begin(t) \/ Commit(t))
  PROVE  IInv'
<1>1. UNCHANGED walk
  BY DEF Tick, Begin, Commit
<1>2. table \subseteq table' /\ table' \subseteq Row
  <2>1. CASE UNCHANGED table
    BY <2>1 DEF IInv, TypeOK
  <2>2. CASE \E t \in Tx : Commit(t)
    <3>1. PICK t \in Tx : Commit(t)
      BY <2>2
    <3>2. began[t] \in Nat /\ Posts[t] \subseteq [id : Nat, kind : Kinds]
      BY <3>1, PagingAssumption DEF Commit, IInv, TypeOK
    <3>3. Inserted(t) \subseteq Row
      BY <3>2 DEF Inserted, Row
    <3> QED
      BY <3>1, <3>3 DEF Commit, IInv, TypeOK
  <2> QED
    BY <2>1, <2>2 DEF Tick, Begin
<1>3. now' \in Nat /\ committed' \subseteq Tx
  BY DEF IInv, TypeOK, Tick, Begin, Commit
<1>4. began' \in [Tx -> Nat \cup {NotBegun}]
  BY DEF IInv, TypeOK, Tick, Begin, Commit
<1>5. TypeOK'
  BY <1>1, <1>2, <1>3, <1>4 DEF IInv, TypeOK, walk
<1>6. PagesDescend' /\ CursorIsBehind' /\ Accounted' /\ StartMatches'
  BY <1>1 DEF IInv, walk, PagesDescend, CursorIsBehind, Accounted,
              StartMatches, Shown, NearACut
<1> QED
  BY <1>5, <1>6 DEF IInv

\* The first page of a new walk.
LEMMA FirstPageKeepsIInv ==
  ASSUME IInv, NEW f \in Filters, NEW n \in Limits, FirstPage(f, n)
  PROVE  IInv'
<1> DEFINE S == Selected(f, NoCursor)
<1>1. /\ UNCHANGED database
      /\ filter' = f
      /\ earlier' = {}
      /\ atStart' = S
      /\ List(f, NoCursor, n)
  BY DEF FirstPage
<1>2. S \subseteq table /\ table \subseteq Row
  BY DEF IInv, TypeOK, Selected
<1>3. \A r \in S : r.kind \in KindsForFilter(f)
  BY DEF Selected
<1>4. f \in {"all"} \cup DOMAIN FilterToKinds
  BY PagingAssumption
<1>5. PagesDescend' /\ StartMatches'
  BY <1>1, <1>3 DEF PagesDescend, StartMatches
<1>6. CASE /\ page' = S
           /\ cursor' = NoCursor
           /\ cuts' = CutsBefore(NoCursor)
  <2>1. TypeOK'
    BY <1>1, <1>2, <1>3, <1>4, <1>6
       DEF IInv, TypeOK, database, CutsBefore
  <2>2. CursorIsBehind' /\ Accounted'
    BY <1>1, <1>6 DEF CursorIsBehind, Accounted, Shown
  <2> QED
    BY <1>5, <2>1, <2>2 DEF IInv
<1>7. CASE /\ page' \subseteq S
           /\ \E last \in page' :
                /\ cursor' = BuildCursor(last)
                /\ cuts' = CutsBefore(NoCursor) \cup {last}
                /\ \A s \in page' : s = last \/ Newer(s, last)
                /\ \A r \in S \ page' : Newer(last, r)
  <2>1. PICK last \in page' :
          /\ cursor' = BuildCursor(last)
          /\ cuts' = {last}
          /\ \A s \in page' : s = last \/ Newer(s, last)
          /\ \A r \in S \ page' : Newer(last, r)
    BY <1>7 DEF CutsBefore
  <2>2. last \in Row /\ page' \subseteq Row
    BY <1>2, <1>7
  <2>3. BuildCursor(last) \in Cursor /\ BuildCursor(last) # NoCursor
    BY <2>2, ToMillisBounds DEF Row, BuildCursor, Cursor, NoCursor
  <2>4. TypeOK'
    BY <1>1, <1>2, <1>3, <1>4, <1>7, <2>1, <2>3
       DEF IInv, TypeOK, database
  <2>5. CursorIsBehind'
    <3> SUFFICES ASSUME NEW s \in page', NEW r \in Row,
                        After(BuildCursor(last), r)
                 PROVE  Newer(s, r)
      BY <1>1, <2>1 DEF CursorIsBehind, Shown
    <3> QED
      BY <2>1, <2>2, AfterIsOlder, NewerTransitive
  <2>6. Accounted'
    <3> SUFFICES ASSUME NEW r \in S \ page'
                 PROVE  \/ After(BuildCursor(last), r)
                        \/ Newer(last, r) /\ ~After(BuildCursor(last), r)
      BY <1>1, <2>1, <2>3 DEF Accounted, Shown, NearACut
    <3> QED
      BY <2>1
  <2> QED
    BY <1>5, <2>4, <2>5, <2>6 DEF IInv
<1> HIDE DEF S
<1> QED
  BY <1>1, <1>6, <1>7, ListReturns DEF S

\* A page that follows another.
LEMMA NextPageKeepsIInv ==
  ASSUME IInv, NEW n \in Limits, NextPage(n)
  PROVE  IInv'
<1> DEFINE S == Selected(filter, cursor)
<1>1. /\ UNCHANGED <<database, filter, atStart>>
      /\ cursor # NoCursor
      /\ earlier' = Shown
      /\ List(filter, cursor, n)
  BY DEF NextPage, Shown
<1>2. /\ S \subseteq table
      /\ table \subseteq Row
      /\ Shown \subseteq table
      /\ atStart \subseteq table
      /\ cuts \subseteq Shown
  BY DEF IInv, TypeOK, Selected, Shown
<1>3. \A r \in S : r.kind \in KindsForFilter(filter) /\ After(cursor, r)
  BY DEF Selected
<1>4. page' \subseteq S
  BY <1>1, ListReturns
<1>5. PagesDescend'
  BY <1>1, <1>2, <1>3, <1>4 DEF IInv, CursorIsBehind, PagesDescend
<1>6. StartMatches'
  BY <1>1 DEF IInv, StartMatches
<1>7. Shown' = Shown \cup page'
  BY <1>1 DEF Shown
\* What was near a cut still is, and what was to come was selected.
<1>8. \A r \in atStart \ Shown' : r \in S \/ NearACut(r)
  <2> SUFFICES ASSUME NEW r \in atStart \ Shown', ~NearACut(r)
               PROVE  r \in S
    OBVIOUS
  <2>1. After(cursor, r)
    BY <1>7 DEF IInv, Accounted
  <2> QED
    BY <1>2, <2>1 DEF IInv, StartMatches, Selected
<1>9. CASE /\ page' = S
           /\ cursor' = NoCursor
           /\ cuts' = CutsBefore(cursor)
  <2>1. cuts' = cuts
    BY <1>1, <1>9 DEF CutsBefore
  <2>2. TypeOK'
    BY <1>1, <1>2, <1>3, <1>9, <2>1 DEF IInv, TypeOK, database, Shown
  <2>3. CursorIsBehind'
    BY <1>9 DEF CursorIsBehind
  <2>4. Accounted'
    BY <1>1, <1>7, <1>8, <1>9, <2>1 DEF Accounted, NearACut
  <2> QED
    BY <1>5, <1>6, <2>2, <2>3, <2>4 DEF IInv
<1>10. CASE \E last \in page' :
              /\ cursor' = BuildCursor(last)
              /\ cuts' = CutsBefore(cursor) \cup {last}
              /\ \A s \in page' : s = last \/ Newer(s, last)
              /\ \A r \in S \ page' : Newer(last, r)
  <2>1. PICK last \in page' :
          /\ cursor' = BuildCursor(last)
          /\ cuts' = cuts \cup {last}
          /\ \A s \in page' : s = last \/ Newer(s, last)
          /\ \A r \in S \ page' : Newer(last, r)
    BY <1>1, <1>10 DEF CutsBefore
  <2>2. last \in Row /\ page' \subseteq Row
    BY <1>2, <1>4
  <2>3. BuildCursor(last) \in Cursor /\ BuildCursor(last) # NoCursor
    BY <2>2, ToMillisBounds DEF Row, BuildCursor, Cursor, NoCursor
  <2>4. TypeOK'
    BY <1>1, <1>2, <1>3, <1>4, <2>1, <2>3
       DEF IInv, TypeOK, database, Shown
  <2>5. \A s \in Shown \cup page' : s = last \/ Newer(s, last)
    BY <1>1, <1>3, <1>4, <2>1, <2>2 DEF IInv, CursorIsBehind
  <2>6. CursorIsBehind'
    <3> SUFFICES ASSUME NEW s \in Shown \cup page', NEW r \in Row,
                        After(BuildCursor(last), r)
                 PROVE  Newer(s, r)
      BY <1>7, <2>1 DEF CursorIsBehind
    <3>1. s \in Row
      BY <1>2, <2>2
    <3>2. Newer(last, r)
      BY <2>2, AfterIsOlder
    <3> QED
      BY <2>2, <2>5, <3>1, <3>2, NewerTransitive
  <2>7. Accounted'
    <3> SUFFICES ASSUME NEW r \in atStart \ Shown'
                 PROVE  After(BuildCursor(last), r) \/ NearACut(r)'
      BY <1>1, <2>1, <2>3 DEF Accounted
    <3>1. CASE r \in S
      <4>1. Newer(last, r)
        BY <1>7, <2>1, <3>1
      <4> QED
        BY <2>1, <4>1 DEF NearACut
    <3>2. CASE NearACut(r)
      BY <2>1, <3>2 DEF NearACut
    <3> QED
      BY <1>8, <3>1, <3>2
  <2> QED
    BY <1>5, <1>6, <2>4, <2>6, <2>7 DEF IInv
<1> HIDE DEF S
<1> QED
  BY <1>1, <1>9, <1>10, ListReturns DEF S

LEMMA NextIInv == IInv /\ [Next]_vars => IInv'
<1> SUFFICES ASSUME IInv, [Next]_vars PROVE IInv'
  OBVIOUS
<1>1. CASE Tick \/ \E t \in Tx : Begin(t) \/ Commit(t)
  BY <1>1, DatabaseKeepsIInv
<1>2. CASE \E f \in Filters, n \in Limits : FirstPage(f, n)
  BY <1>2, FirstPageKeepsIInv
<1>3. CASE \E n \in Limits : NextPage(n)
  BY <1>3, NextPageKeepsIInv
<1>4. CASE UNCHANGED vars
  BY <1>4 DEF IInv, TypeOK, PagesDescend, CursorIsBehind, Accounted,
              StartMatches, Shown, NearACut, vars, database, walk
<1> QED
  BY <1>1, <1>2, <1>3, <1>4 DEF Next

THEOREM InductiveInvariant == Spec => []IInv
<1> QED
  BY InitIInv, NextIInv, PTL DEF Spec

----------------------------------------------------------------------------
(* The theorems. *)

\* Pages and cursors keep their types.
THEOREM TypeCorrect == Spec => []TypeOK
<1>1. IInv => TypeOK
  BY DEF IInv
<1> QED
  BY <1>1, InductiveInvariant, PTL

\* A walk never goes back, so it shows no row twice, whatever is committed
\* meanwhile and whatever the precision of its cursors.
THEOREM WalksDescend == Spec => []PagesDescend
<1>1. IInv => PagesDescend
  BY DEF IInv
<1> QED
  BY <1>1, InductiveInvariant, PTL

\* What a walk that ended missed follows a cut and was held back by its cursor.
LEMMA SkippedIsHeldBack ==
  ASSUME IInv, NEW r \in Skipped
  PROVE  r \in Row /\ \E c \in cuts : /\ c \in Row
                                       /\ Newer(c, r)
                                       /\ ~After(BuildCursor(c), r)
<1>1. r \in atStart \ Shown /\ cursor = NoCursor
  BY DEF Skipped, Shown
<1>2. NearACut(r)
  BY <1>1 DEF IInv, Accounted
<1>3. atStart \subseteq Row /\ cuts \subseteq Row
  BY DEF IInv, TypeOK
<1> QED
  BY <1>1, <1>2, <1>3 DEF NearACut

\* A walk misses nothing but what lies within a millisecond of a cut.
THEOREM MissesAreNearCuts == Spec => []SkippedWithinAMillisecond
<1>1. IInv => SkippedWithinAMillisecond
  BY SkippedIsHeldBack, OlderIsAfterOrNear DEF SkippedWithinAMillisecond
<1> QED
  BY <1>1, InductiveInvariant, PTL

\* On a clock as coarse as the cursors (Milli = 1) every walk is complete, with
\* any number of rows at one instant: the precision is all that is at fault.
THEOREM CompleteWithExactCursors ==
  ASSUME Milli = 1
  PROVE  Spec => []WalkIsComplete
<1>1. IInv => WalkIsComplete
  <2> SUFFICES ASSUME IInv, NEW r \in Skipped PROVE FALSE
    BY DEF WalkIsComplete
  <2>1. PICK c \in cuts : c \in Row /\ Newer(c, r) /\ ~After(BuildCursor(c), r)
    BY SkippedIsHeldBack
  <2>2. r \in Row /\ c.at \in Nat
    BY <2>1, SkippedIsHeldBack DEF Row
  <2>3. ToMillis(c.at) = c.at
    BY <2>2 DEF ToMillis
  <2> QED
    BY <2>1, <2>2, <2>3 DEF After, BuildCursor, Newer, Row
<1> QED
  BY <1>1, InductiveInvariant, PTL

----------------------------------------------------------------------------
(* The feed: the counters of posts, what likes answer, what pages show.     *)

Steps == {"idle", "change", "count", "commit", "likes"}
Wish == [user : Viewer \cup {Nobody}, post : Post \cup {NoPost}, like : BOOLEAN]
Reply == [liked : BOOLEAN, likeCount : Nat \cup {Unwritten}]

FeedTypeOK ==
  /\ Posted \subseteq Post /\ likeCount \in [Posted -> Nat]
  /\ likes \subseteq Viewer \X Posted
  /\ rowLock \in [Post -> Visit \cup {Nobody}]
  /\ at \in [Visit -> Steps]
  /\ wish \in [Visit -> Wish]
  /\ counted \in [Visit -> Nat]
  /\ written \in [Visit -> Nat \cup {Unwritten}]
  /\ reply \in [Visit -> Reply]
  /\ own \in [Visit -> SUBSET Post]
  /\ rows = [v \in Visit |-> rows[v]]
  /\ likedSet \in [Visit -> SUBSET Post]

\* A transaction of like or unlike holds the row of its post, so that what it
\* read of the counter is the counter, and nobody else changes its like.
LikeInv(v) ==
  /\ at[v] \in {"idle", "likes", "change", "count"} => written[v] = Unwritten
  /\ at[v] \in {"change", "count", "commit"} =>
       /\ wish[v].user \in Viewer
       /\ wish[v].post \in Posted
       /\ rowLock[wish[v].post] = v
       /\ counted[v] = likeCount[wish[v].post]
  /\ at[v] = "count" => (Liked(v) <=> ~wish[v].like)
  /\ at[v] = "commit" /\ written[v] = Unwritten => (Liked(v) <=> wish[v].like)
  /\ at[v] = "commit" /\ written[v] # Unwritten =>
       /\ Liked(v) <=> ~wish[v].like
       /\ written[v] = NewCount(counted[v], wish[v].like)

\* A page that was read counts the viewer's likes that it will show, but for
\* those that were changed meanwhile.
PageInv(v) ==
  at[v] = "likes" =>
    \A p \in DOMAIN rows[v] \ own[v] : <<wish[v].user, p>> \in likes => rows[v][p] > 0

FeedIInv ==
  /\ FeedTypeOK
  /\ LikeCountIsLikes
  /\ \A v \in Visit : LikeInv(v) /\ PageInv(v)
  /\ ShownLikesAreCounted

\* A set of viewers has a number of members, one more with a further member
\* and one less without one that it has.
LEMMA Counting ==
  ASSUME NEW S \in SUBSET Viewer, NEW u \in Viewer
  PROVE  /\ Cardinality(S) \in Nat
         /\ u \notin S => Cardinality(S \cup {u}) = Cardinality(S) + 1
         /\ u \in S => /\ Cardinality(S \ {u}) = Cardinality(S) - 1
                       /\ Cardinality(S) > 0
<1>1. IsFiniteSet(S)
  BY FeedAssumption, FS_Subset
<1>2. Cardinality(S) \in Nat
  BY <1>1, FS_CardinalityType
<1>3. u \notin S => Cardinality(S \cup {u}) = Cardinality(S) + 1
  BY <1>1, FS_AddElement
<1>4. ASSUME u \in S
      PROVE  Cardinality(S \ {u}) = Cardinality(S) - 1 /\ Cardinality(S) > 0
  <2>1. Cardinality(S \ {u}) = Cardinality(S) - 1
    BY <1>1, <1>4, FS_RemoveElement
  <2>2. IsFiniteSet(S \ {u})
    BY <1>1, FS_Subset
  <2>3. Cardinality(S \ {u}) \in Nat
    BY <2>2, FS_CardinalityType
  <2> QED
    BY <2>1, <2>3, <1>2
<1> QED
  BY <1>2, <1>3, <1>4

LEMMA FeedInitial == FeedInit => FeedIInv
<1> SUFFICES ASSUME FeedInit PROVE FeedIInv
  OBVIOUS
<1>1. Posted = {} /\ DOMAIN NoRows = {}
  BY DEF FeedInit, Posted, NoRows
<1>2. FeedTypeOK
  BY <1>1 DEF FeedInit, FeedTypeOK, Steps, Wish, NoWish, Reply, NoReply, NoRows, Posted
<1>3. LikeCountIsLikes
  BY <1>1 DEF LikeCountIsLikes
<1>4. \A v \in Visit : LikeInv(v) /\ PageInv(v)
  BY DEF FeedInit, LikeInv, PageInv
<1>5. ShownLikesAreCounted
  BY <1>1 DEF FeedInit, ShownLikesAreCounted
<1> QED
  BY <1>2, <1>3, <1>4, <1>5 DEF FeedIInv

\* What a step leaves alone keeps what is said of the requests it is not one of.
LEMMA CreatePostKeeps ==
  ASSUME FeedIInv, NEW v \in Visit, CreatePost(v)
  PROVE  FeedIInv'
<1>1. PICK p \in Post \ Posted :
        likeCount' = [q \in Posted \cup {p} |-> IF q = p THEN 0 ELSE likeCount[q]]
  BY DEF CreatePost
<1>2. /\ UNCHANGED <<likes, rowLock, counted, written, reply, rows, likedSet, nextCursor, at, wish, own>>
      /\ Posted' = Posted \cup {p}
      /\ \A q \in Posted : likeCount'[q] = likeCount[q]
      /\ likeCount'[p] = 0
  BY <1>1 DEF CreatePost, likeLocals, pageLocals, Posted
<1>3. FeedTypeOK'
  BY <1>1, <1>2 DEF FeedIInv, FeedTypeOK, Posted
<1>4. LikeCountIsLikes'
  <2>1. Likers(p)' = {} /\ \A q \in Posted : Likers(q)' = Likers(q)
    BY <1>2 DEF FeedIInv, FeedTypeOK, Likers
  <2> QED
    BY <1>2, <2>1, FS_EmptySet DEF FeedIInv, LikeCountIsLikes
<1>5. ASSUME NEW w \in Visit PROVE LikeInv(w)' /\ PageInv(w)'
  BY <1>2 DEF FeedIInv, LikeInv, PageInv, Liked
<1>6. ShownLikesAreCounted'
  BY <1>2 DEF FeedIInv, ShownLikesAreCounted
<1> QED
  BY <1>3, <1>4, <1>5, <1>6 DEF FeedIInv

LEMMA LockPostKeeps ==
  ASSUME FeedIInv, NEW v \in Visit, LockPost(v)
  PROVE  FeedIInv'
<1>1. PICK u \in Viewer, p \in Posted, like \in BOOLEAN :
        /\ rowLock[p] = Nobody
        /\ Begins(v, u, p, like, likeCount[p], NoRows)
        /\ rowLock' = [rowLock EXCEPT ![p] = v]
        /\ at' = [at EXCEPT ![v] = "change"]
        /\ UNCHANGED <<likeCount, likes, written, nextCursor>>
  BY DEF LockPost, feedTables
<1>t. FeedTypeOK /\ p \in Post
  BY DEF FeedIInv, FeedTypeOK
<1>2. /\ at[v] = "idle" /\ at'[v] = "change"
      /\ wish'[v] = [user |-> u, post |-> p, like |-> like]
      /\ counted'[v] = likeCount[p]
      /\ rows'[v] = NoRows /\ likedSet'[v] = {} /\ own'[v] = {}
      /\ rowLock'[p] = v
  BY <1>1, <1>t DEF Begins, FeedTypeOK
<1>3. \A w \in Visit \ {v} :
        /\ at'[w] = at[w] /\ wish'[w] = wish[w] /\ counted'[w] = counted[w]
        /\ rows'[w] = rows[w] /\ likedSet'[w] = likedSet[w] /\ own'[w] = own[w]
  BY <1>1, <1>t DEF Begins, FeedTypeOK
<1>4. FeedTypeOK'
  <2>1. likeCount[p] \in Nat /\ [user |-> u, post |-> p, like |-> like] \in Wish
    BY <1>t DEF FeedTypeOK, Wish
  <2>2. wish' \in [Visit -> Wish] /\ counted' \in [Visit -> Nat]
    BY <1>1, <1>t, <2>1 DEF Begins, FeedTypeOK
  <2>3. reply' \in [Visit -> Reply]
    BY <1>1, <1>t DEF Begins, FeedTypeOK, Reply, NoReply, Unwritten
  <2>4. /\ own' \in [Visit -> SUBSET Post]
        /\ at' \in [Visit -> Steps]
        /\ rowLock' \in [Post -> Visit \cup {Nobody}]
        /\ rows' = [w \in Visit |-> rows'[w]] /\ likedSet' \in [Visit -> SUBSET Post]
    BY <1>1, <1>t DEF Begins, FeedTypeOK, Steps
  <2> QED
    BY <1>1, <1>t, <2>2, <2>3, <2>4 DEF FeedTypeOK, Posted
<1>5. LikeCountIsLikes'
  BY <1>1 DEF FeedIInv, LikeCountIsLikes, Posted, Likers
<1>6. ASSUME NEW w \in Visit PROVE LikeInv(w)' /\ PageInv(w)'
  <2>0. LikeInv(w) /\ PageInv(w)
    BY DEF FeedIInv
  <2>1. CASE w = v
    BY <1>1, <1>2, <2>0, <2>1 DEF LikeInv, PageInv, Posted
  <2>2. CASE w # v
    <3>1. LikeInv(w)'
      <4>1. at[w] \in {"change", "count", "commit"} => wish[w].post # p
        BY <1>1, <2>0, FeedAssumption DEF LikeInv
      <4>2. at[w] \in {"change", "count", "commit"} => rowLock'[wish[w].post] = w
        BY <1>1, <1>t, <2>0, <4>1 DEF LikeInv, FeedTypeOK
      <4> QED
        BY <1>1, <1>3, <2>0, <2>2, <4>2 DEF LikeInv, Liked, Posted
    <3>2. PageInv(w)'
      BY <1>1, <1>3, <2>0, <2>2 DEF PageInv
    <3> QED
      BY <3>1, <3>2
  <2> QED
    BY <2>1, <2>2
<1>7. ShownLikesAreCounted'
  BY <1>2, <1>3 DEF FeedIInv, ShownLikesAreCounted
<1> QED
  BY <1>4, <1>5, <1>6, <1>7 DEF FeedIInv

LEMMA ChangeLikeKeeps ==
  ASSUME FeedIInv, NEW v \in Visit, ChangeLike(v)
  PROVE  FeedIInv'
<1>t. FeedTypeOK
  BY DEF FeedIInv
<1>1. /\ at[v] = "change"
      /\ at' = [at EXCEPT ![v] = IF Liked(v) = wish[v].like THEN "commit" ELSE "count"]
      /\ UNCHANGED <<likeCount, likes, rowLock, counted, written, reply>>
      /\ UNCHANGED <<rows, likedSet, nextCursor, wish, own>>
  BY DEF ChangeLike, feedTables, likeLocals, pageLocals
<1>2. at' \in [Visit -> Steps]
  BY <1>1, <1>t DEF FeedTypeOK, Steps
<1>3. FeedTypeOK'
  BY <1>1, <1>2, <1>t DEF FeedTypeOK, Posted
<1>4. LikeCountIsLikes' /\ ShownLikesAreCounted'
  BY <1>1 DEF FeedIInv, LikeCountIsLikes, Posted, Likers, ShownLikesAreCounted
<1>5. ASSUME NEW w \in Visit PROVE LikeInv(w)' /\ PageInv(w)'
  <2>0. LikeInv(w) /\ PageInv(w)
    BY DEF FeedIInv
  <2>1. wish[v].like \in BOOLEAN /\ Liked(v) \in BOOLEAN
    BY <1>t DEF FeedTypeOK, Wish, Liked
  <2>2. w # v => at'[w] = at[w]
    BY <1>1, <1>t DEF FeedTypeOK
  <2>3. w = v /\ (Liked(v) <=> wish[v].like) => at'[w] = "commit"
    BY <1>1, <1>t, <2>1 DEF FeedTypeOK
  <2>4. w = v /\ ~(Liked(v) <=> wish[v].like) => at'[w] = "count"
    BY <1>1, <1>t, <2>1 DEF FeedTypeOK
  <2>5. Liked(w)' <=> Liked(w)
    BY <1>1 DEF Liked
  <2>6. LikeInv(w)'
    BY <1>1, <2>0, <2>1, <2>2, <2>3, <2>4, <2>5 DEF LikeInv, Posted
  <2>7. PageInv(w)'
    BY <1>1, <2>0, <2>2, <2>3, <2>4 DEF PageInv
  <2> QED
    BY <2>6, <2>7
<1> QED
  BY <1>3, <1>4, <1>5 DEF FeedIInv

LEMMA UpdateCountKeeps ==
  ASSUME FeedIInv, NEW v \in Visit, UpdateCount(v)
  PROVE  FeedIInv'
<1>t. FeedTypeOK /\ LikeInv(v)
  BY DEF FeedIInv
<1> DEFINE p == wish[v].post
<1>1. /\ at[v] = "count"
      /\ rowLock' = [rowLock EXCEPT ![p] = v]
      /\ written' = [written EXCEPT ![v] = NewCount(likeCount[p], wish[v].like)]
      /\ at' = [at EXCEPT ![v] = "commit"]
      /\ UNCHANGED <<likeCount, likes, counted, reply>>
      /\ UNCHANGED <<rows, likedSet, nextCursor, wish, own>>
  BY DEF UpdateCount, feedTables, pageLocals
<1>2. p \in Posted /\ p \in Post /\ rowLock[p] = v /\ counted[v] = likeCount[p]
  BY <1>1, <1>t DEF LikeInv, FeedTypeOK
<1>3. rowLock' = rowLock
  BY <1>1, <1>2, <1>t DEF FeedTypeOK
<1>4. NewCount(likeCount[p], wish[v].like) \in Nat
  BY <1>2, <1>t DEF FeedTypeOK, NewCount
<1>5. FeedTypeOK'
  <2>1. written' \in [Visit -> Nat \cup {Unwritten}] /\ at' \in [Visit -> Steps]
    BY <1>1, <1>4, <1>t DEF FeedTypeOK, Steps
  <2> QED
    BY <1>1, <1>3, <2>1, <1>t DEF FeedTypeOK, Posted
<1>6. LikeCountIsLikes' /\ ShownLikesAreCounted'
  BY <1>1 DEF FeedIInv, LikeCountIsLikes, Posted, Likers, ShownLikesAreCounted
<1>7. ASSUME NEW w \in Visit PROVE LikeInv(w)' /\ PageInv(w)'
  <2>0. LikeInv(w) /\ PageInv(w)
    BY DEF FeedIInv
  <2>1. w # v => at'[w] = at[w] /\ written'[w] = written[w]
    BY <1>1, <1>t DEF FeedTypeOK
  <2>2. /\ at'[v] = "commit"
        /\ written'[v] = NewCount(counted[v], wish[v].like)
        /\ written'[v] # Unwritten
    BY <1>1, <1>2, <1>4, <1>t DEF FeedTypeOK, Unwritten
  <2>3. Liked(w)' <=> Liked(w)
    BY <1>1 DEF Liked
  <2>4. LikeInv(w)'
    BY <1>1, <1>3, <2>0, <2>1, <2>2, <2>3 DEF LikeInv, Posted
  <2>5. PageInv(w)'
    BY <1>1, <2>0, <2>1, <2>2 DEF PageInv
  <2> QED
    BY <2>4, <2>5
<1> QED
  BY <1>5, <1>6, <1>7 DEF FeedIInv

\* The end of a transaction keeps the types and frees no row but its own.
LEMMA EndLikeFrees ==
  ASSUME FeedIInv, NEW v \in Visit, at[v] \in {"change", "count", "commit"}, EndLike(v)
  PROVE  /\ rowLock' \in [Post -> Visit \cup {Nobody}]
         /\ at' \in [Visit -> Steps]
         /\ wish' \in [Visit -> Wish]
         /\ counted' \in [Visit -> Nat]
         /\ written' \in [Visit -> Nat \cup {Unwritten}]
         /\ at'[v] = "idle" /\ written'[v] = Unwritten
         /\ \A w \in Visit \ {v} :
              /\ at'[w] = at[w] /\ wish'[w] = wish[w]
              /\ counted'[w] = counted[w] /\ written'[w] = written[w]
              /\ at[w] \in {"change", "count", "commit"} =>
                   /\ rowLock'[wish[w].post] = w
                   /\ wish[w].post # wish[v].post
<1>1. FeedTypeOK /\ \A w \in Visit : LikeInv(w)
  BY DEF FeedIInv
<1>2. rowLock' \in [Post -> Visit \cup {Nobody}]
  BY <1>1 DEF EndLike, FeedTypeOK
<1>3. at' \in [Visit -> Steps] /\ counted' \in [Visit -> Nat]
  BY <1>1 DEF EndLike, FeedTypeOK, Steps
<1>4. wish' \in [Visit -> Wish]
  BY <1>1 DEF EndLike, FeedTypeOK, Wish, NoWish
<1>5. written' \in [Visit -> Nat \cup {Unwritten}]
  BY <1>1 DEF EndLike, FeedTypeOK
<1>6. at'[v] = "idle" /\ written'[v] = Unwritten
  BY <1>1 DEF EndLike, FeedTypeOK
<1>7. ASSUME NEW w \in Visit \ {v}
      PROVE  /\ at'[w] = at[w] /\ wish'[w] = wish[w]
             /\ counted'[w] = counted[w] /\ written'[w] = written[w]
  BY <1>1 DEF EndLike, FeedTypeOK
<1>8. ASSUME NEW w \in Visit \ {v}, at[w] \in {"change", "count", "commit"}
      PROVE  rowLock'[wish[w].post] = w /\ wish[w].post # wish[v].post
  <2>1. wish[w].post \in Post /\ rowLock[wish[w].post] = w /\ rowLock[wish[v].post] = v
    BY <1>1, <1>8 DEF LikeInv, FeedTypeOK
  <2> QED
    BY <2>1 DEF EndLike
<1> QED
  BY <1>2, <1>3, <1>4, <1>5, <1>6, <1>7, <1>8

LEMMA AbortLikeKeeps ==
  ASSUME FeedIInv, NEW v \in Visit, AbortLike(v)
  PROVE  FeedIInv'
<1>1. /\ at[v] \in {"change", "count", "commit"} /\ EndLike(v)
      /\ UNCHANGED <<likeCount, likes, reply, rows, likedSet, nextCursor, own>>
  BY DEF AbortLike, feedTables, pageLocals
<1>2. FeedTypeOK'
  BY <1>1, EndLikeFrees DEF FeedIInv, FeedTypeOK, Posted
<1>3. LikeCountIsLikes' /\ ShownLikesAreCounted'
  BY <1>1 DEF FeedIInv, LikeCountIsLikes, Posted, Likers, ShownLikesAreCounted
<1>4. ASSUME NEW w \in Visit PROVE LikeInv(w)' /\ PageInv(w)'
  <2>0. LikeInv(w) /\ PageInv(w)
    BY DEF FeedIInv
  <2>1. CASE w = v
    BY <1>1, <2>1, EndLikeFrees DEF LikeInv, PageInv
  <2>2. CASE w # v
    <3>1. /\ at'[w] = at[w] /\ wish'[w] = wish[w]
          /\ counted'[w] = counted[w] /\ written'[w] = written[w]
          /\ at[w] \in {"change", "count", "commit"} => rowLock'[wish[w].post] = w
      BY <1>1, <2>2, EndLikeFrees
    <3> QED
      BY <1>1, <2>0, <3>1 DEF LikeInv, PageInv, Liked, Posted
  <2> QED
    BY <2>1, <2>2
<1> QED
  BY <1>2, <1>3, <1>4 DEF FeedIInv

LEMMA CommitLikeKeeps ==
  ASSUME FeedIInv, NEW v \in Visit, CommitLike(v)
  PROVE  /\ FeedIInv'
         /\ reply'[v] = [liked |-> <<wish[v].user, wish[v].post>> \in likes',
                         likeCount |-> likeCount'[wish[v].post]]
         /\ \A w \in Visit \ {v} : reply'[w] = reply[w]
<1> DEFINE u == wish[v].user
           p == wish[v].post
           wrote == written[v] # Unwritten
<1>t. FeedTypeOK /\ LikeInv(v)
  BY DEF FeedIInv
<1>1. /\ at[v] = "commit"
      /\ likes' = IF wish[v].like THEN likes \cup {<<u, p>>} ELSE likes \ {<<u, p>>}
      /\ likeCount' = IF wrote THEN [likeCount EXCEPT ![p] = written[v]] ELSE likeCount
      /\ reply' = [reply EXCEPT ![v] =
                     [liked |-> wish[v].like,
                      likeCount |-> IF wrote THEN written[v] ELSE counted[v]]]
      /\ own' = [w \in Visit |->
                   IF at[w] = "likes" /\ wish[w].user = u THEN own[w] \cup {p} ELSE own[w]]
      /\ EndLike(v)
      /\ UNCHANGED <<rows, likedSet, nextCursor>>
  BY DEF CommitLike, pageLocals
<1>2. /\ u \in Viewer /\ p \in Posted /\ p \in Post /\ rowLock[p] = v
      /\ counted[v] = likeCount[p] /\ likeCount[p] \in Nat
      /\ wish[v].like \in BOOLEAN
  BY <1>1, <1>t DEF LikeInv, FeedTypeOK, Wish
<1>3. /\ ~wrote => (<<u, p>> \in likes <=> wish[v].like)
      /\ wrote => /\ <<u, p>> \in likes <=> ~wish[v].like
                  /\ written[v] = NewCount(likeCount[p], wish[v].like)
  BY <1>1, <1>2, <1>t DEF LikeInv, Liked
<1>4. /\ Posted' = Posted
      /\ likeCount' \in [Posted -> Nat]
      /\ \A q \in Posted \ {p} : likeCount'[q] = likeCount[q]
      /\ likeCount'[p] = IF wrote THEN written[v] ELSE likeCount[p]
  <2>1. wrote => written[v] \in Nat
    BY <1>t DEF FeedTypeOK
  <2> QED
    BY <1>1, <1>2, <1>t, <2>1 DEF FeedTypeOK, Posted
<1>5. <<u, p>> \in likes' <=> wish[v].like
  BY <1>1, <1>2
<1>6. FeedTypeOK'
  <2>1. likes' \subseteq Viewer \X Posted
    BY <1>1, <1>2, <1>t DEF FeedTypeOK
  <2>2. reply' \in [Visit -> Reply]
    <3>1. [liked |-> wish[v].like, likeCount |-> IF wrote THEN written[v] ELSE counted[v]]
            \in Reply
      BY <1>2, <1>t DEF FeedTypeOK, Reply
    <3> QED
      BY <1>1, <1>t, <3>1 DEF FeedTypeOK
  <2>3. own' \in [Visit -> SUBSET Post]
    BY <1>1, <1>2, <1>t DEF FeedTypeOK
  <2> QED
    BY <1>1, <1>4, <1>t, <2>1, <2>2, <2>3, EndLikeFrees DEF FeedTypeOK
<1>7. LikeCountIsLikes'
  <2> SUFFICES ASSUME NEW q \in Posted PROVE likeCount'[q] = Cardinality(Likers(q)')
    BY <1>4 DEF LikeCountIsLikes
  <2>1. likeCount[q] = Cardinality(Likers(q)) /\ Likers(q) \in SUBSET Viewer
    BY DEF FeedIInv, LikeCountIsLikes, Likers
  <2>2. CASE q # p \/ ~wrote
    <3>1. Likers(q)' = Likers(q) /\ likeCount'[q] = likeCount[q]
      BY <1>1, <1>2, <1>3, <1>4, <2>2 DEF Likers
    <3> QED
      BY <2>1, <3>1
  <2>3. CASE q = p /\ wrote /\ wish[v].like
    <3>1. Likers(q)' = Likers(q) \cup {u} /\ u \notin Likers(q)
      BY <1>1, <1>2, <1>3, <2>3 DEF Likers
    <3> QED
      BY <1>2, <1>3, <1>4, <2>1, <2>3, <3>1, Counting DEF NewCount
  <2>4. CASE q = p /\ wrote /\ ~wish[v].like
    <3>1. Likers(q)' = Likers(q) \ {u} /\ u \in Likers(q)
      BY <1>1, <1>2, <1>3, <2>4 DEF Likers
    <3> QED
      BY <1>2, <1>3, <1>4, <2>1, <2>4, <3>1, Counting DEF NewCount
  <2> QED
    BY <1>2, <2>2, <2>3, <2>4
<1>8. ASSUME NEW w \in Visit PROVE LikeInv(w)' /\ PageInv(w)'
  <2>0. LikeInv(w) /\ PageInv(w)
    BY DEF FeedIInv
  <2>1. CASE w = v
    BY <1>1, <2>1, EndLikeFrees DEF LikeInv, PageInv
  <2>2. CASE w # v
    <3>1. /\ at'[w] = at[w] /\ wish'[w] = wish[w]
          /\ counted'[w] = counted[w] /\ written'[w] = written[w]
          /\ at[w] \in {"change", "count", "commit"} =>
               rowLock'[wish[w].post] = w /\ wish[w].post # p
      BY <1>1, <2>2, EndLikeFrees
    <3>2. at[w] \in {"change", "count", "commit"} => (Liked(w)' <=> Liked(w))
      BY <1>1, <3>1 DEF Liked
    <3>3. LikeInv(w)'
      BY <1>4, <2>0, <3>1, <3>2 DEF LikeInv
    <3>4. PageInv(w)'
      <4> SUFFICES ASSUME at[w] = "likes", NEW q \in DOMAIN rows[w] \ own'[w],
                          <<wish[w].user, q>> \in likes'
                   PROVE  rows[w][q] > 0
        BY <1>1, <3>1 DEF PageInv
      <4>1. q \notin own[w] /\ ~(wish[w].user = u /\ q = p)
        BY <1>1
      <4>2. <<wish[w].user, q>> \in likes
        BY <1>1, <4>1
      <4> QED
        BY <2>0, <4>1, <4>2 DEF PageInv
    <3> QED
      BY <3>3, <3>4
  <2> QED
    BY <2>1, <2>2
<1>9. ShownLikesAreCounted'
  <2>1. \A w \in Visit : own[w] \subseteq own'[w]
    BY <1>1
  <2> QED
    BY <1>1, <2>1 DEF FeedIInv, ShownLikesAreCounted
<1>10. reply'[v] = [liked |-> <<u, p>> \in likes', likeCount |-> likeCount'[p]]
  BY <1>1, <1>2, <1>4, <1>5, <1>t DEF FeedTypeOK
<1>11. \A w \in Visit \ {v} : reply'[w] = reply[w]
  BY <1>1, <1>t DEF FeedTypeOK
<1> QED
  BY <1>6, <1>7, <1>8, <1>9, <1>10, <1>11 DEF FeedIInv

LEMMA ReadPageKeeps ==
  ASSUME FeedIInv, NEW v \in Visit, ReadPage(v)
  PROVE  FeedIInv'
<1>1. PICK u \in Viewer, sliced \in SUBSET Posted :
        /\ Begins(v, u, NoPost, FALSE, 0, [p \in sliced |-> likeCount[p]])
        /\ at' = [at EXCEPT ![v] = IF sliced = {} THEN "idle" ELSE "likes"]
        /\ UNCHANGED <<likeCount, likes, rowLock, written>>
  BY DEF ReadPage, feedTables, Top
<1>t. FeedTypeOK
  BY DEF FeedIInv
<1>2. /\ at[v] = "idle" /\ at'[v] \in {"idle", "likes"}
      /\ wish'[v] = [user |-> u, post |-> NoPost, like |-> FALSE]
      /\ rows'[v] = [p \in sliced |-> likeCount[p]]
      /\ likedSet'[v] = {} /\ own'[v] = {}
  BY <1>1, <1>t DEF Begins, FeedTypeOK
<1>3. \A w \in Visit \ {v} :
        /\ at'[w] = at[w] /\ wish'[w] = wish[w] /\ counted'[w] = counted[w]
        /\ rows'[w] = rows[w] /\ likedSet'[w] = likedSet[w] /\ own'[w] = own[w]
  BY <1>1, <1>t DEF Begins, FeedTypeOK
<1>4. FeedTypeOK'
  <2>1. wish' \in [Visit -> Wish] /\ counted' \in [Visit -> Nat]
    BY <1>1, <1>t DEF Begins, FeedTypeOK, Wish
  <2>2. reply' \in [Visit -> Reply]
    BY <1>1, <1>t DEF Begins, FeedTypeOK, Reply, NoReply, Unwritten
  <2>3. /\ own' \in [Visit -> SUBSET Post]
        /\ at' \in [Visit -> Steps]
        /\ rows' = [w \in Visit |-> rows'[w]] /\ likedSet' \in [Visit -> SUBSET Post]
    BY <1>1, <1>t DEF Begins, FeedTypeOK, Steps
  <2> QED
    BY <1>1, <1>t, <2>1, <2>2, <2>3 DEF FeedTypeOK, Posted
<1>5. LikeCountIsLikes'
  BY <1>1 DEF FeedIInv, LikeCountIsLikes, Posted, Likers
<1>6. ASSUME NEW w \in Visit PROVE LikeInv(w)' /\ PageInv(w)'
  <2>0. LikeInv(w) /\ PageInv(w)
    BY DEF FeedIInv
  <2>1. CASE w = v
    <3>1. LikeInv(w)'
      BY <1>1, <1>2, <2>0, <2>1 DEF LikeInv
    <3>2. ASSUME NEW q \in sliced, <<u, q>> \in likes PROVE likeCount[q] > 0
      <4>1. u \in Likers(q) /\ Likers(q) \in SUBSET Viewer
        BY <3>2 DEF Likers
      <4> QED
        BY <1>1, <4>1, Counting DEF FeedIInv, LikeCountIsLikes
    <3>3. PageInv(w)'
      BY <1>1, <1>2, <2>1, <3>2 DEF PageInv
    <3> QED
      BY <3>1, <3>3
  <2>2. CASE w # v
    BY <1>1, <1>3, <2>0, <2>2 DEF LikeInv, PageInv, Liked, Posted
  <2> QED
    BY <2>1, <2>2
<1>7. ShownLikesAreCounted'
  BY <1>2, <1>3 DEF FeedIInv, ShownLikesAreCounted
<1> QED
  BY <1>4, <1>5, <1>6, <1>7 DEF FeedIInv

LEMMA ReadLikesKeeps ==
  ASSUME FeedIInv, NEW v \in Visit, ReadLikes(v)
  PROVE  FeedIInv'
<1>t. FeedTypeOK
  BY DEF FeedIInv
<1> DEFINE found == {q \in DOMAIN rows[v] : <<wish[v].user, q>> \in likes}
<1>1. /\ at[v] = "likes"
      /\ likedSet' = [likedSet EXCEPT ![v] = found]
      /\ wish' = [wish EXCEPT ![v] = NoWish]
      /\ at' = [at EXCEPT ![v] = "idle"]
      /\ UNCHANGED <<likeCount, likes, rowLock, counted, written, reply, rows, nextCursor, own>>
  BY DEF ReadLikes, feedTables, likeLocals, LikedByMe
<1>2. FeedTypeOK'
  <2>1. wish' \in [Visit -> Wish] /\ at' \in [Visit -> Steps]
    BY <1>1, <1>t DEF FeedTypeOK, Wish, NoWish, Steps
  <2>2. likedSet' \in [Visit -> SUBSET Post]
    <3>1. found \in SUBSET Post
      BY <1>t DEF FeedTypeOK
    <3> QED
      BY <1>1, <1>t, <3>1 DEF FeedTypeOK
  <2> QED
    BY <1>1, <1>t, <2>1, <2>2 DEF FeedTypeOK, Posted
<1>3. LikeCountIsLikes'
  BY <1>1 DEF FeedIInv, LikeCountIsLikes, Posted, Likers
<1>4. ASSUME NEW w \in Visit PROVE LikeInv(w)' /\ PageInv(w)'
  <2>0. LikeInv(w) /\ PageInv(w)
    BY DEF FeedIInv
  <2>1. w = v => at'[w] = "idle"
    BY <1>1, <1>t DEF FeedTypeOK
  <2>2. w # v => at'[w] = at[w] /\ wish'[w] = wish[w]
    BY <1>1, <1>t DEF FeedTypeOK
  <2> QED
    BY <1>1, <2>0, <2>1, <2>2 DEF LikeInv, PageInv, Liked, Posted
<1>5. ShownLikesAreCounted'
  <2> SUFFICES ASSUME NEW w \in Visit, NEW p \in likedSet'[w] \ own'[w]
               PROVE  rows'[w][p] > 0
    BY DEF ShownLikesAreCounted
  <2>1. CASE w = v
    <3>1. p \in found \ own[v]
      BY <1>1, <1>t, <2>1 DEF FeedTypeOK
    <3> QED
      BY <1>1, <2>1, <3>1 DEF FeedIInv, PageInv
  <2>2. CASE w # v
    BY <1>1, <1>t, <2>2 DEF FeedIInv, FeedTypeOK, ShownLikesAreCounted
  <2> QED
    BY <2>1, <2>2
<1> QED
  BY <1>2, <1>3, <1>4, <1>5 DEF FeedIInv

LEMMA FeedInductive == FeedIInv /\ [FeedNext]_feedVars => FeedIInv'
<1> SUFFICES ASSUME FeedIInv, [FeedNext]_feedVars PROVE FeedIInv'
  OBVIOUS
<1>1. ASSUME NEW v \in Visit, FeedStep(v) PROVE FeedIInv'
  BY <1>1, CreatePostKeeps, LockPostKeeps, ChangeLikeKeeps, UpdateCountKeeps,
     CommitLikeKeeps, AbortLikeKeeps, ReadPageKeeps, ReadLikesKeeps DEF FeedStep
<1>2. CASE UNCHANGED feedVars
  BY <1>2 DEF feedVars, feedTables, likeLocals, pageLocals, FeedIInv, FeedTypeOK, Posted,
     LikeCountIsLikes, Likers, LikeInv, PageInv, Liked, ShownLikesAreCounted
<1> QED
  BY <1>1, <1>2 DEF FeedNext

LEMMA FeedInvariant == FeedSpec => []FeedIInv
BY FeedInitial, FeedInductive, PTL DEF FeedSpec

\* The counter of a post is the number of its likes, for any users, posts and
\* number of requests at a time.
THEOREM CountersCountLikes == FeedSpec => []LikeCountIsLikes
<1>1. FeedIInv => LikeCountIsLikes
  BY DEF FeedIInv
<1> QED
  BY <1>1, FeedInvariant, PTL

\* A page counts the like of its viewer, unless the viewer changed it meanwhile.
THEOREM PagesCountOwnLike == FeedSpec => []ShownLikesAreCounted
<1>1. FeedIInv => ShownLikesAreCounted
  BY DEF FeedIInv
<1> QED
  BY <1>1, FeedInvariant, PTL

\* like and unlike answer what is so when they commit: nothing but a commit
\* answers them, and it answers what it writes or what its lock protected.
THEOREM LikesAnswerExactly == FeedSpec => AnswersAreExact
<1> DEFINE Exact == \A v \in Visit :
              reply[v] = NoReply /\ reply'[v] # NoReply =>
                LET p == wish[v].post IN
                reply'[v] = [liked |-> <<wish[v].user, p>> \in likes', likeCount |-> likeCount'[p]]
<1>1. ASSUME FeedIInv, NEW w \in Visit, FeedStep(w) PROVE Exact
  <2> SUFFICES ASSUME NEW v \in Visit, reply[v] = NoReply, reply'[v] # NoReply
               PROVE  reply'[v] = [liked |-> <<wish[v].user, wish[v].post>> \in likes',
                                   likeCount |-> likeCount'[wish[v].post]]
    OBVIOUS
  <2>t. reply \in [Visit -> Reply]
    BY <1>1 DEF FeedIInv, FeedTypeOK
  <2>1. CASE LockPost(w) \/ ReadPage(w)
    <3>1. reply' = [reply EXCEPT ![w] = NoReply]
      BY <2>1 DEF LockPost, ReadPage, Begins
    <3> QED
      BY <2>t, <3>1
  <2>2. CASE CommitLike(w)
    <3>1. v = w
      BY <1>1, <2>2, CommitLikeKeeps
    <3> QED
      BY <1>1, <2>2, <3>1, CommitLikeKeeps
  <2>3. CASE CreatePost(w) \/ ChangeLike(w) \/ UpdateCount(w) \/ AbortLike(w) \/ ReadLikes(w)
    BY <2>3 DEF CreatePost, ChangeLike, UpdateCount, AbortLike, ReadLikes, likeLocals
  <2> QED
    BY <1>1, <2>1, <2>2, <2>3 DEF FeedStep
<1>2. ASSUME FeedIInv, [FeedNext]_feedVars PROVE [Exact]_feedVars
  BY <1>1, <1>2 DEF FeedNext
<1> QED
  BY <1>2, FeedInvariant, PTL DEF FeedSpec, AnswersAreExact

=============================================================================
