\* A oneshot chore completed by two requests.
SPECIFICATION Spec
CONSTANTS
  l1 = l1
  u1 = u1
  u2 = u2
  c1 = c1
  c2 = c2
  w1 = w1
  w2 = w2
  NoChore = NoChore
  NoRequest = NoRequest
  ChoreListIDs = {l1}
  Users = {u1}
  Workers = {w1, w2}
  ChoreIDs = {c1}
  Inputs <- OnceForms
  Intervals = {1}
  MaxRepeats = 2
  MaxDate = 2
  MaxEvents = 2
INVARIANTS
  OneshotNeverForever
