\* Pages of up to three chores, served and looked at over two days.
SPECIFICATION Spec
CONSTANTS
  l1 = l1
  ChoreListIDs = {l1}
  Intervals = {1, 4, 6}
  MaxRepeats = 2
  MaxDate = 2
  Rows <- MixedRows
  MaxChores = 3
  Week = 3
  Month = 5
  Latest = 10
  NoPage = NoPage
  NoCalendar = NoCalendar
INVARIANTS
  TypeOK
  RightSection
  InDueOrder
  OfferStands
  CalendarAgrees
