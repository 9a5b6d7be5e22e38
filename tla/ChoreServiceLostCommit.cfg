\* A completion whose COMMIT fails is acknowledged.
SPECIFICATION Spec
CONSTANTS
  l1 = l1
  u1 = u1
  u2 = u2
  c1 = c1
  c2 = c2
  w1 = w1
  w2 = w2
  NoChore = NoChore
  NoRequest = NoRequest
  ChoreListIDs = {l1}
  Users = {u1}
  Workers = {w1}
  ChoreIDs = {c1}
  Inputs <- AgainForms
  Intervals = {1}
  MaxRepeats = 2
  MaxDate = 2
  MaxEvents = 1
PROPERTIES
  AcknowledgedCompletionStored
