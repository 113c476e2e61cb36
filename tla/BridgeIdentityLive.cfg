CONSTANTS
  c1 = c1
  l1 = l1
  l2 = l2
  d1 = d1
  d2 = d2
  s1 = s1
  s2 = s2
  Users = {1, 2}
  Discord = {d1, d2}
  Slack = {s1, s2}
  NoId = NoId
  Callers = {c1}
  Loaders = {l1}
  Objects = {1, 2, 3, 4}
  NoMap = NoMap
  PageSize = 1
  Cap = 1
  MaxEvents = 1
SPECIFICATION FairSpec
INVARIANT Exact
PROPERTY Converges
