\* Two requests at a time, two users to be, three invites.
SPECIFICATION Spec
CONSTANTS
  Users = {u1, u2}
  SystemUser = SystemUser
  Usernames = {n1, n2}
  ChoreListIDs = {l1}
  InviteIDs = {i1, i2, i3}
  Workers = {w1, w2}
  InviteLife = 2
  BootInviteLife = 1
  MaxTime = 2
  NoUser = NoUser
  NoName = NoName
  NoList = NoList
  NoInvite = NoInvite
  NoRequest = NoRequest
  NoWorker = NoWorker
SYMMETRY Interchangeable
INVARIANTS
  TypeOK
  AccountsComplete
  NobodyUninvited
PROPERTIES
  ImplementsAdmission
  EveryMemberInvited
  ExpiredForGood
