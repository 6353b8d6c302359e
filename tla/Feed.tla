-------------------------------- MODULE Feed --------------------------------
(***************************************************************************)
(* ideas.service.ts: posts, the likes of them, their counters, and the     *)
(* feed that shows both.  like and unlike are transactions of several      *)
(* statements; a page of the feed is read by one statement and the         *)
(* viewer's likes of its posts by another.                                 *)
(***************************************************************************)
EXTENDS Integers, FiniteSets

CONSTANTS
  Viewer,   \* users
  Post,     \* the ids of posts
  CreatedAt,    \* their posts.created_at, in instants (microseconds)
  Millisecond,  \* instants in a millisecond
  Pinned,   \* those that are shown first; no code of the repository pins
  Sizes,    \* page sizes
  Visit,    \* requests that may be under way at a time
  Nobody

ASSUME FeedAssumption ==
  /\ IsFiniteSet(Viewer)
  /\ Post \subseteq Nat /\ Pinned \subseteq Post
  /\ CreatedAt \in [Post -> Nat] /\ Millisecond \in Nat \ {0}
  /\ Sizes \subseteq Nat \ {0}
  /\ Nobody \notin Visit

VARIABLES
  likeCount,  \* posts.like_count, of the posts there are
  likes,      \* post_likes: pairs of a user and a post
  rowLock,    \* the transaction that holds the row of a post
  at,         \* the statement a request is at
  wish,       \* what it is for: the user, and the post to like or unlike
  counted,    \* like_count as its first statement returned it
  written,    \*   and as it wrote it, or Unwritten
  reply,      \* what it answered
  rows,       \* the posts of the page it read: post -> like_count,
  likedSet,   \*   and those of them that it shows as liked by the viewer
  nextCursor, \* the cursor of the next page, or NoPostCursor
  own         \* history: posts that the viewer liked or unliked since

feedTables == <<likeCount, likes>>
likeLocals == <<rowLock, counted, written, reply>>
pageLocals == <<rows, likedSet, nextCursor>>
feedVars == <<feedTables, likeLocals, pageLocals, at, wish, own>>

Unwritten == -1
NoPost == -1
NoPostCursor == [pinned |-> FALSE, at |-> -1, id |-> NoPost]
NoReply == [liked |-> FALSE, likeCount |-> Unwritten]
NoWish == [user |-> Nobody, post |-> NoPost, like |-> FALSE]
NoRows == [p \in {} |-> 0]

Posted == DOMAIN likeCount

FeedInit ==
  /\ likeCount = NoRows
  /\ likes = {}
  /\ rowLock = [p \in Post |-> Nobody]
  /\ at = [v \in Visit |-> "idle"]
  /\ wish = [v \in Visit |-> NoWish]
  /\ counted = [v \in Visit |-> 0]
  /\ written = [v \in Visit |-> Unwritten]
  /\ reply = [v \in Visit |-> NoReply]
  /\ rows = [v \in Visit |-> NoRows]
  /\ likedSet = [v \in Visit |-> {}]
  /\ nextCursor = [v \in Visit |-> NoPostCursor]
  /\ own = [v \in Visit |-> {}]

-----------------------------------------------------------------------------
\* createPost: the transaction inserts a row that nobody else knows of.
CreatePost(v) ==
  /\ at[v] = "idle"
  /\ \E p \in Post \ Posted :
       likeCount' = [q \in Posted \cup {p} |-> IF q = p THEN 0 ELSE likeCount[q]]
  /\ UNCHANGED <<likes, likeLocals, pageLocals, at, wish, own>>

-----------------------------------------------------------------------------
(* like, unlike *)

\* The last request of v is forgotten.
Begins(v, u, p, like, n, page) ==
  /\ at[v] = "idle"
  /\ wish' = [wish EXCEPT ![v] = [user |-> u, post |-> p, like |-> like]]
  /\ counted' = [counted EXCEPT ![v] = n]
  /\ reply' = [reply EXCEPT ![v] = NoReply]
  /\ rows' = [rows EXCEPT ![v] = page]
  /\ likedSet' = [likedSet EXCEPT ![v] = {}]
  /\ own' = [own EXCEPT ![v] = {}]

\* Bug: the post is read without FOR UPDATE.
LockPost_NoLock(v) ==
  \E u \in Viewer, p \in Posted, like \in BOOLEAN :
    /\ Begins(v, u, p, like, likeCount[p], NoRows)
    /\ at' = [at EXCEPT ![v] = "change"]
    /\ UNCHANGED <<feedTables, rowLock, written, nextCursor>>

\* SELECT .. FOR UPDATE; a post that there is not is answered 404.
LockPost(v) ==
  \E u \in Viewer, p \in Posted, like \in BOOLEAN :
    /\ rowLock[p] = Nobody
    /\ Begins(v, u, p, like, likeCount[p], NoRows)
    /\ rowLock' = [rowLock EXCEPT ![p] = v]
    /\ at' = [at EXCEPT ![v] = "change"]
    /\ UNCHANGED <<feedTables, written, nextCursor>>

Liked(v) == <<wish[v].user, wish[v].post>> \in likes

\* Another transaction has inserted or deleted the same like.
KeyBusy(v) ==
  \E w \in Visit \ {v} :
    /\ at[w] = "count" \/ (at[w] = "commit" /\ written[w] # Unwritten)
    /\ wish[w] \in [user : {wish[v].user}, post : {wish[v].post}, like : BOOLEAN]

\* Bug: that the user has liked the post already is not noticed.
ChangeLike_NoCheck(v) ==
  /\ at[v] = "change"
  /\ ~KeyBusy(v)
  /\ at' = [at EXCEPT ![v] = "count"]
  /\ UNCHANGED <<feedTables, likeLocals, pageLocals, wish, own>>

\* INSERT .. ON CONFLICT DO NOTHING, or DELETE: it has an effect or it has not.
ChangeLike(v) ==
  /\ at[v] = "change"
  /\ ~KeyBusy(v)
  /\ at' = [at EXCEPT ![v] = IF Liked(v) = wish[v].like THEN "commit" ELSE "count"]
  /\ UNCHANGED <<feedTables, likeLocals, pageLocals, wish, own>>

\* like_count + 1, greatest(like_count - 1, 0)
NewCount(n, like) == IF like THEN n + 1 ELSE IF n > 0 THEN n - 1 ELSE 0

UpdateCount(v) ==
  LET p == wish[v].post IN
  /\ at[v] = "count"
  /\ rowLock[p] \in {Nobody, v}
  /\ rowLock' = [rowLock EXCEPT ![p] = v]
  /\ written' = [written EXCEPT ![v] = NewCount(likeCount[p], wish[v].like)]
  /\ at' = [at EXCEPT ![v] = "commit"]
  /\ UNCHANGED <<feedTables, counted, reply, pageLocals, wish, own>>

\* The transaction is over: the row is free.
EndLike(v) ==
  /\ rowLock' = [p \in Post |-> IF rowLock[p] = v THEN Nobody ELSE rowLock[p]]
  /\ at' = [at EXCEPT ![v] = "idle"]
  /\ wish' = [wish EXCEPT ![v] = NoWish]
  /\ counted' = [counted EXCEPT ![v] = 0]
  /\ written' = [written EXCEPT ![v] = Unwritten]

\* The answer is the counter as written, or as read if nothing was written.
CommitLike(v) ==
  LET u == wish[v].user
      p == wish[v].post
      wrote == written[v] # Unwritten IN
  /\ at[v] = "commit"
  /\ likes' = IF wish[v].like THEN likes \cup {<<u, p>>} ELSE likes \ {<<u, p>>}
  /\ likeCount' = IF wrote THEN [likeCount EXCEPT ![p] = written[v]] ELSE likeCount
  /\ reply' = [reply EXCEPT ![v] =
                 [liked |-> wish[v].like,
                  likeCount |-> IF wrote THEN written[v] ELSE counted[v]]]
  /\ own' = [w \in Visit |->
               IF at[w] = "likes" /\ wish[w].user = u THEN own[w] \cup {p} ELSE own[w]]
  /\ EndLike(v)
  /\ UNCHANGED pageLocals

\* A statement fails or the process dies: nothing has happened.
AbortLike(v) ==
  /\ at[v] \in {"change", "count", "commit"}
  /\ EndLike(v)
  /\ UNCHANGED <<feedTables, reply, pageLocals, own>>

-----------------------------------------------------------------------------
(* listFeed *)

Later(p, q) == CreatedAt[p] > CreatedAt[q] \/ (CreatedAt[p] = CreatedAt[q] /\ p > q)

\* p comes before q: pinned posts first, new ones before old ones.
ShownBefore(p, q) ==
  IF p \in Pinned <=> q \in Pinned THEN Later(p, q) ELSE p \in Pinned

\* The first n of S in that order.
Top(S, n) == {p \in S : Cardinality({q \in S : ShownBefore(q, p)}) < n}

Bottom(S) == CHOOSE p \in S : \A q \in S : q = p \/ ShownBefore(q, p)

\* toISOString keeps milliseconds.
PostCursor(p) ==
  [pinned |-> p \in Pinned, at |-> CreatedAt[p] - (CreatedAt[p] % Millisecond), id |-> p]

Passes(p, c) ==
  \/ c = NoPostCursor
  \/ c.pinned /\ p \notin Pinned
  \/ /\ c.pinned <=> p \in Pinned
     /\ CreatedAt[p] < c.at \/ (CreatedAt[p] = c.at /\ p < c.id)

\* A request names a cursor that some page has answered, or none.
ReadPage(v) ==
  \E u \in Viewer, n \in Sizes, c \in {NoPostCursor} \cup {nextCursor[w] : w \in Visit} :
    LET found == {p \in Posted : Passes(p, c)}
        sliced == Top(found, n) IN
    /\ Begins(v, u, NoPost, FALSE, 0, [p \in sliced |-> likeCount[p]])
    /\ nextCursor' = [nextCursor EXCEPT ![v] =
                      IF Cardinality(found) > n THEN PostCursor(Bottom(sliced)) ELSE NoPostCursor]
    /\ at' = [at EXCEPT ![v] = IF sliced = {} THEN "idle" ELSE "likes"]
    /\ UNCHANGED <<feedTables, rowLock, written>>

\* Bug: the likes are not restricted to those of the viewer.
LikedByMe_Anyone(u, p) == \E w \in Viewer : <<w, p>> \in likes

LikedByMe(u, p) == <<u, p>> \in likes

\* The second read: authors and streamers do not change, likes do.
ReadLikes(v) ==
  /\ at[v] = "likes"
  /\ likedSet' = [likedSet EXCEPT ![v] = {p \in DOMAIN rows[v] : LikedByMe(wish[v].user, p)}]
  /\ wish' = [wish EXCEPT ![v] = NoWish]
  /\ at' = [at EXCEPT ![v] = "idle"]
  /\ UNCHANGED <<feedTables, likeLocals, rows, nextCursor, own>>

FeedStep(v) ==
  \/ CreatePost(v)
  \/ LockPost(v) \/ ChangeLike(v) \/ UpdateCount(v) \/ CommitLike(v) \/ AbortLike(v)
  \/ ReadPage(v) \/ ReadLikes(v)

FeedNext == \E v \in Visit : FeedStep(v)

FeedSpec == FeedInit /\ [][FeedNext]_feedVars

-----------------------------------------------------------------------------
Likers(p) == {u \in Viewer : <<u, p>> \in likes}

(***************************************************************************)
(* The counter of a post, which is kept apart from the likes it counts, is *)
(* their number, whatever likes and unlikes overlap, repeat and fail       *)
(* (like, unlike; the unique index and greatest(.., 0) included).          *)
(***************************************************************************)
LikeCountIsLikes == \A p \in Posted : likeCount[p] = Cardinality(Likers(p))

(***************************************************************************)
(* What like and unlike answer is what is so when they commit, also when   *)
(* they find nothing to do and answer the counter they read (like,         *)
(* unlike; the FOR UPDATE of their first statement).                       *)
(***************************************************************************)
AnswersAreExact ==
  [][\A v \in Visit :
       reply[v] = NoReply /\ reply'[v] # NoReply =>
         LET p == wish[v].post IN
         reply'[v] = [liked |-> <<wish[v].user, p>> \in likes', likeCount |-> likeCount'[p]]]_feedVars

(***************************************************************************)
(* The feed reads counters and the viewer's likes at two moments.  What it *)
(* shows as liked counts the viewer's like, unless the viewer has liked or *)
(* unliked that very post in between (listFeed).                           *)
(***************************************************************************)
ShownLikesAreCounted ==
  \A v \in Visit : \A p \in likedSet[v] \ own[v] : rows[v][p] > 0
=============================================================================
