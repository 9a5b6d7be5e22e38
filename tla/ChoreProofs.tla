---------------------------- MODULE ChoreProofs ----------------------------
(***************************************************************************)
(* Lemmas about the operators of Chore: what each operation does to the    *)
(* type, the shape and the due date of a row.                              *)
(***************************************************************************)
EXTENDS Chore, TLAPS

LEMMA DatesAreNumbers == Date \subseteq Int /\ RealDate \subseteq Date
BY ChoreAssumption DEF Date, RealDate, ZeroDate

LEMMA NotSnoozedIsNumber == NotSnoozed \in Int
BY DEF NotSnoozed

LEMMA RowNumbers ==
  ASSUME NEW row \in Row
  PROVE  /\ row.createdAt \in Int
         /\ row.lastCompletion \in Int
         /\ row.interval \in Int
         /\ row.snoozedFor \in Int
<1>1. /\ row.createdAt \in RealDate
      /\ row.lastCompletion \in Date
      /\ row.interval \in Durations
      /\ row.snoozedFor \in Int
  BY DEF Row
<1>2. Durations \subseteq Int
  BY ChoreAssumption DEF Durations
<1> QED BY <1>1, <1>2, DatesAreNumbers

\* Snoozing and expediting (changeSnooze) make the chore due exactly n days after
\* the day t the handler read, whatever the row held.
THEOREM SnoozeLands ==
  ASSUME NEW row \in Row, NEW t \in Int, NEW n \in Int
  PROVE  /\ SnoozedRow(row, t, n) \in Row
         /\ NextCompletion(SnoozedRow(row, t, n)) = t + n
<1>1. row.createdAt \in Int /\ row.lastCompletion \in Int /\ row.interval \in Int
      /\ row.snoozedFor \in Int
  BY RowNumbers
<1>2. NextCompletion(row) \in Int /\ DurationToNextFrom(row, t) \in Int
  BY <1>1 DEF NextCompletion, DurationToNextFrom
<1>3. SnoozedRow(row, t, n) \in Row
  BY <1>1, <1>2 DEF SnoozedRow, Row
<1>4. /\ SnoozedRow(row, t, n).snoozedFor
            = n + row.snoozedFor - DurationToNextFrom(row, t)
      /\ SnoozedRow(row, t, n).createdAt = row.createdAt
      /\ SnoozedRow(row, t, n).lastCompletion = row.lastCompletion
      /\ SnoozedRow(row, t, n).interval = row.interval
  BY DEF SnoozedRow, Row
<1>5. NextCompletion(SnoozedRow(row, t, n)) = t + n
  BY <1>1, <1>2, <1>4 DEF NextCompletion, DurationToNextFrom
<1> QED BY <1>3, <1>5

\* The repeat count stays within its range: CompleteChore's max(-1, n - 1).
LEMMA RepeatsInRange ==
  ASSUME NEW n \in Repeats
  PROVE  RepeatsAfterCompletion(n) \in Repeats
BY ChoreAssumption DEF RepeatsAfterCompletion, Forever, Repeats

\* Of a count of one at most, a completion leaves none, and of none it leaves
\* "without end".
LEMMA RepeatsRunOut ==
  ASSUME NEW n \in Repeats, n <= 1
  PROVE  /\ RepeatsAfterCompletion(n) <= 1
         /\ RepeatsAfterCompletion(n) = 0 => n = 1
         /\ RepeatsAfterCompletion(n) = Forever => n = 0 \/ n = Forever
BY ChoreAssumption DEF RepeatsAfterCompletion, Forever, Repeats

\* What a completion writes: a row due one interval after the day it is for.
LEMMA CompletedRowFacts ==
  ASSUME NEW row \in Row, NEW d \in RealDate
  PROVE  LET done == CompletedRow(row, d) IN
         /\ done \in Row
         /\ done.lastCompletion = d
         /\ done.snoozedFor = NotSnoozed
         /\ done.choreType = row.choreType
         /\ done.interval = row.interval
         /\ done.repeatsLeft = RepeatsAfterCompletion(row.repeatsLeft)
<1>1. RepeatsAfterCompletion(row.repeatsLeft) \in Repeats
  BY RepeatsInRange DEF Row
<1>2. d \in Date
  BY DEF RealDate
<1> QED BY <1>1, <1>2, NotSnoozedIsNumber DEF CompletedRow, Row

\* What the INSERT of a valid form writes.
LEMMA NewRowFacts ==
  ASSUME NEW inp \in Input, NEW d \in RealDate, ValidNew(inp)
  PROVE  LET new == NewRow(inp, d) IN
         /\ new \in Row
         /\ new.choreType = inp.choreType
         /\ new.lastCompletion = inp.date
         /\ new.snoozedFor = NotSnoozed
         /\ new.repeatsLeft = inp.repeats
         /\ inp.repeats # 0
         /\ new.choreType = "interval" <=> new.interval # 0
         /\ new.choreType = "date" <=> new.lastCompletion # ZeroDate
         /\ new.choreType # "interval" => new.repeatsLeft = 1
<1>1. inp.choreType \in ChoreTypes /\ inp.choreListID \in ChoreListIDs
  BY DEF ValidNew, ValidAs, ChoreTypes, Input
<1>2. /\ inp.repeats # 0
      /\ inp.choreType = "interval" <=> inp.interval # 0
      /\ inp.choreType = "date" <=> inp.date # ZeroDate
      /\ inp.choreType # "interval" => inp.repeats = 1
  BY DEF ValidNew, ValidAs, ValidInterval, ValidOneshot, ValidDate, Forever
<1> QED BY <1>1, <1>2, NotSnoozedIsNumber DEF NewRow, Row, Input

\* What Validate leaves of a form that edits a row.
LEMMA ResolveFacts ==
  ASSUME NEW inp \in Input, NEW prev \in Row, ValidEdit(inp, prev)
  PROVE  LET res == Resolve(inp, prev) IN
         /\ res \in Input
         /\ res.choreType = prev.choreType
         /\ res.choreType = "interval" <=> res.interval # 0
         /\ res.choreType = "date" => res.date # ZeroDate
         /\ res.choreType # "date" => res.date = prev.lastCompletion
         /\ res.repeats # 0
         /\ res.choreType # "interval" => res.repeats = 1
<1>1. prev.choreType \in FormTypes /\ prev.lastCompletion \in Date
  BY DEF Row, FormTypes
<1>2. Resolve(inp, prev) \in Input
  BY <1>1 DEF Resolve, Input
<1>3. /\ Resolve(inp, prev).choreType = prev.choreType
      /\ Resolve(inp, prev).interval = inp.interval
      /\ Resolve(inp, prev).repeats = inp.repeats
      /\ Resolve(inp, prev).date
           = IF prev.choreType = "date" THEN inp.date ELSE prev.lastCompletion
  BY DEF Resolve, Input
<1>4. /\ inp.repeats # 0
      /\ prev.choreType = "interval" <=> inp.interval # 0
      /\ prev.choreType = "date" => inp.date # ZeroDate
      /\ prev.choreType # "interval" => inp.repeats = 1
  BY DEF ValidEdit, ValidAs, ValidInterval, ValidOneshot, ValidDate, Forever
<1> QED BY <1>2, <1>3, <1>4

\* What the UPDATE of an edit writes.
LEMMA UpdatedRowFacts ==
  ASSUME NEW row \in Row, NEW inp \in Input
  PROVE  LET new == UpdatedRow(row, inp) IN
         /\ new \in Row
         /\ new.choreType = row.choreType
         /\ new.interval = inp.interval
         /\ new.lastCompletion = inp.date
         /\ new.snoozedFor = NotSnoozed
         /\ new.repeatsLeft = inp.repeats
<1>1. /\ inp.interval \in Durations
      /\ inp.repeats \in Repeats
      /\ inp.date \in Date
  BY DEF Input
<1> QED BY <1>1, NotSnoozedIsNumber DEF UpdatedRow, Row

\* What a postponement leaves alone.
LEMMA SnoozedRowFacts ==
  ASSUME NEW row \in Row, NEW t, NEW n
  PROVE  LET new == SnoozedRow(row, t, n) IN
         /\ new.choreType = row.choreType
         /\ new.interval = row.interval
         /\ new.lastCompletion = row.lastCompletion
         /\ new.repeatsLeft = row.repeatsLeft
BY DEF SnoozedRow, Row

=============================================================================
