\* Two requests over one chore for two days, statement by statement.
SPECIFICATION SpecT
CONSTANTS
  l1 = l1
  u1 = u1
  c1 = c1
  w1 = w1
  w2 = w2
  NoChore = NoChore
  NoRequest = NoRequest
  NoDraft = NoDraft
  ChoreListIDs = {l1}
  Users = {u1}
  Workers = {w1, w2}
  ChoreIDs = {c1}
  Inputs <- DailyForm
  Intervals = {1}
  MaxRepeats = 1
  MaxDate = 2
  MaxEvents = 1
INVARIANTS
  TypeOKT
  NobodyStuck
PROPERTIES
  ImplementsService
  StatementsRunOut
  LocksReleased
