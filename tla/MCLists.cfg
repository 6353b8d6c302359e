CONSTANTS
  deposit = deposit
  stake = stake
  payout = payout
  Tx <- Txs
  Posts <- TxPosts
  Filters = {"all", "top_ups"}
  Limits = {1, 2}
  Milli = 2
  LastInstant = 3
  Viewer = {ann, bob}
  Post = {1, 2}
  CreatedAt <- PostTimes
  Millisecond = 2
  Pinned = {1}
  Sizes = {1, 2}
  Visit = {v1, v2}
  Nobody = nobody
SYMMETRY Symmetry
SPECIFICATION ListsSpec
INVARIANTS
  TypeOK
  PagesDescend
  SkippedWithinAMillisecond
  LikeCountIsLikes
  ShownLikesAreCounted
PROPERTY AnswersAreExact
