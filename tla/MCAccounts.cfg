CONSTANTS
  f = f
  g = g
  h = h
  fmail = fmail
  gmail = gmail
  short = short
  long = long
  c1 = c1
  c2 = c2
  c3 = c3
  c4 = c4
  c5 = c5
  User <- Users
  Name = {fmail, gmail, short, long}
  Candidates = {short, long}
  GoogleNames = {None, gmail}
  Founders = {f}
  FounderEmail <- MCFounderEmail
  t1 = t1
  t2 = t2
  t3 = t3
  t4 = t4
  l1 = l1
  l2 = l2
  Token <- Tokens
  Link <- Links
  Call <- Calls
  Workload <- Workloads
  Horizon <- Horizons
  ShortTtl = 1
  LongTtl = 3
  AbsoluteTtl = 4
  IdleTtl = 1
  ResetTtl = 1
  None = None
SYMMETRY Ids
SPECIFICATION Spec
INVARIANTS TypeOK FamilyKeepsLifetime NamesAreUnique
PROPERTIES EndedFamilyStaysEnded AloneKeepsPromise GoneForGood
CHECK_DEADLOCK FALSE
