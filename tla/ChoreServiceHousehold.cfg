\* Two members who come and go, two chores, one request at a time.
SPECIFICATION Spec
CONSTANTS
  l1 = l1
  u1 = u1
  u2 = u2
  c1 = c1
  c2 = c2
  w1 = w1
  w2 = w2
  NoChore = NoChore
  NoRequest = NoRequest
  ChoreListIDs = {l1}
  Users = {u1, u2}
  Workers = {w1}
  ChoreIDs = {c1, c2}
  Inputs <- HouseholdForms
  Intervals = {1}
  MaxRepeats = 2
  MaxDate = 1
  MaxEvents = 2
SYMMETRY Interchangeable
PROPERTIES
  ImplementsLedger
  CompletionSurvivesEdit
