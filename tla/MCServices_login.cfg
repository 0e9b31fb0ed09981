SPECIFICATION MCSpec
CONSTANTS
  s1 = s1  s2 = s2  a1 = a1  a2 = a2  c1 = c1  c2 = c2  r1 = r1  r2 = r2  r3 = r3
  f1 = f1  f2 = f2  t1 = t1  t2 = t2  w1 = w1  w2 = w2
  Shop = {s1, s2}
  IdCaller = {a1, a2}
  Horizon = 3
  DayLength = 2
  CountRange = 3
  Stream = {c1, c2}
  NoSession = NoSession
  MaxMessages = 2
  MaxChatFaults = 1
  LikeRequest = {r1, r2, r3}
  Fan = {f1, f2}
  MaxLiked = 3
  FollowRequest = {r1, r2}
  MaxRows = 3
  MaxBlog = 4
  PageSize = 2
  FeedRequest = {r1, r2}
  TypeReader = {r1, r2}
  TypeCount = 3
  Token = {t1, t2}
  Worker = {w1, w2}
  Nobody = Nobody
  MonthLength = 5
  MaxPrice = 120
INVARIANT OwnUser
CHECK_DEADLOCK FALSE
