------------------------------ MODULE MCLists ------------------------------
(***************************************************************************)
(* The two lists that are read page by page: the wallet history and the    *)
(* feed.  They share nothing, so a behaviour is one of either.             *)
(***************************************************************************)
EXTENDS MCPaging, Feed, TLC

\* Two posts of one millisecond.
PostTimes == [p \in Post |-> p + 1]

ListsInit == Init /\ FeedInit

ListsNext ==
  \/ FeedInit /\ Next /\ UNCHANGED feedVars
  \/ Init /\ FeedNext /\ UNCHANGED vars

ListsSpec == ListsInit /\ [][ListsNext]_<<vars, feedVars>>

Symmetry == Permutations(Viewer) \cup Permutations(Visit)
=============================================================================
