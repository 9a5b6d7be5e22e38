\* Two requests at a time: who takes the write lock gives it back.
SPECIFICATION FairSpec
CONSTANTS
  Users = {u1, u2}
  SystemUser = SystemUser
  Usernames = {n1}
  ChoreListIDs = {l1}
  InviteIDs = {i1, i2}
  Workers = {w1, w2}
  InviteLife = 2
  BootInviteLife = 1
  MaxTime = 2
  NoUser = NoUser
  NoName = NoName
  NoList = NoList
  NoInvite = NoInvite
  NoRequest = NoRequest
  NoWorker = NoWorker
INVARIANTS
  LockInUse
PROPERTIES
  StatementsRunOut
  WriterReleased
  StartGoesOn
