\* Two requests of one user racing over one chore for three days.
SPECIFICATION Spec
CONSTANTS
  l1 = l1
  u1 = u1
  u2 = u2
  c1 = c1
  c2 = c2
  w1 = w1
  w2 = w2
  NoChore = NoChore
  NoRequest = NoRequest
  ChoreListIDs = {l1}
  Users = {u1}
  Workers = {w1, w2}
  ChoreIDs = {c1}
  Inputs <- RaceForms
  Intervals = {1, 2}
  MaxRepeats = 2
  MaxDate = 3
  MaxEvents = 1
SYMMETRY Interchangeable
INVARIANTS
  TypeOK
  ShapeOK
  NoOrphanEvents
  LastCompletionRecorded
  SnoozedIsSoon
  RepeatsAccountedFor
PROPERTIES
  SnoozeDirection
  ImplementsLedger
