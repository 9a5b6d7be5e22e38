------------------------------- MODULE Chore -------------------------------
(***************************************************************************)
(* The chore itself: the row that SQLite stores for it, the dates that are *)
(* computed from the row, the rules a form has to obey, and what each      *)
(* operation of internal/core/service.go writes back.  No state machine    *)
(* here: ChoreService and ListView build theirs from these operators.      *)
(*                                                                         *)
(* Dates are days since the epoch, 0 being the zero date ("no date").      *)
(* Durations are differences of dates.  A name is kept only as far as the  *)
(* code looks at it: empty or not.                                         *)
(***************************************************************************)
EXTENDS Integers

CONSTANTS ChoreListIDs,  \* identifiers of chore lists
          Intervals,     \* the non-zero durations a form may carry
          MaxRepeats,    \* bound: the largest repeat count a form may carry
          MaxDate        \* bound: the last day of the model's calendar

NoList == ""

ASSUME ChoreAssumption ==
  /\ NoList \notin ChoreListIDs
  /\ Intervals \subseteq Int \ {0}
  /\ MaxRepeats \in Nat \ {0}
  /\ MaxDate \in Nat \ {0}

ZeroDate == 0
Date     == ZeroDate .. MaxDate
RealDate == Date \ {ZeroDate}
OneDay   == 1
NotSnoozed == 0
Forever  == -1      \* repeats_left of a chore that repeats without end

Durations == Intervals \cup {0}
Repeats   == Forever .. MaxRepeats

ChoreTypes == {"interval", "oneshot", "date"}
FormTypes  == ChoreTypes \cup {"date-repeating", ""}

\* A row of table chore.  lastCompletion is the zero date until the chore is
\* done, except for a chore of type "date", whose date is stored there.
Row == [choreType      : ChoreTypes,
        choreListID    : ChoreListIDs,
        createdAt      : RealDate,
        interval       : Durations,
        lastCompletion : Date,
        snoozedFor     : Int,
        repeatsLeft    : Repeats]

\* What Input.FromForm makes of a form.
Input == [named       : BOOLEAN,
          choreType   : FormTypes,
          choreListID : ChoreListIDs \cup {NoList},
          interval    : Durations,
          repeats     : Repeats,
          date        : Date]

-----------------------------------------------------------------------------
(* When is it due? *)

NextCompletion(row) ==
  IF row.lastCompletion = ZeroDate
  THEN row.createdAt + row.snoozedFor
  ELSE row.lastCompletion + row.interval + row.snoozedFor

DurationToNextFrom(row, today) == NextCompletion(row) - today

\* GetChoresByList shows every chore that has a repetition left.
Listed(row) == row.repeatsLeft # 0

-----------------------------------------------------------------------------
(* Input.Validate: the form is checked against the type it is for. *)

ValidInterval(inp) ==
  /\ inp.date = ZeroDate
  /\ inp.interval # 0
  /\ inp.repeats = Forever \/ inp.repeats > 0

ValidOneshot(inp) == inp.date = ZeroDate /\ inp.interval = 0 /\ inp.repeats = 1

ValidDate(inp) == inp.date # ZeroDate /\ inp.interval = 0 /\ inp.repeats = 1

ValidAs(inp, choreType) ==
  \/ choreType = "interval" /\ ValidInterval(inp)
  \/ choreType = "oneshot" /\ ValidOneshot(inp)
  \/ choreType = "date" /\ ValidDate(inp)

ValidNew(inp) ==
  inp.named /\ inp.choreListID # NoList /\ ValidAs(inp, inp.choreType)

\* Mutant: the form's own type is believed when a chore is edited.
ValidEditAsForm(inp, prev) == inp.named /\ ValidAs(inp, inp.choreType)

\* An edit is checked against the type the chore already has.
ValidEdit(inp, prev) == inp.named /\ ValidAs(inp, prev.choreType)

\* Mutant: the form's own date is kept, though only a date chore's form has one.
ResolveType(inp, prev) == [inp EXCEPT !.choreType = prev.choreType]

\* What Validate(prev) leaves in the input: the type of the chore as it was
\* read, and, unless that type carries a date of its own, the last completion
\* as it was read.
Resolve(inp, prev) ==
  [inp EXCEPT !.choreType = prev.choreType,
              !.date = IF prev.choreType = "date" THEN @ ELSE prev.lastCompletion]

-----------------------------------------------------------------------------
(* What the operations write. *)

NewRow(inp, today) ==
  [choreType      |-> inp.choreType,
   choreListID    |-> inp.choreListID,
   createdAt      |-> today,
   interval       |-> inp.interval,
   lastCompletion |-> inp.date,
   snoozedFor     |-> NotSnoozed,
   repeatsLeft    |-> inp.repeats]

\* Mutant: the count runs below "forever".
OneRepeatLess(n) == n - 1

\* Mutant: the last repetition is taken for the end of the count.
LastRepeatForever(n) == IF n - 1 > 0 THEN n - 1 ELSE Forever

\* max(-1, repeats_left - 1) of query CompleteChore.
RepeatsAfterCompletion(n) == IF n - 1 > Forever THEN n - 1 ELSE Forever

\* Mutant: a completion leaves the snooze of the previous round in place.
CompletedStillSnoozed(row, occurredAt) ==
  [row EXCEPT !.lastCompletion = occurredAt,
              !.repeatsLeft = RepeatsAfterCompletion(@)]

CompletedRow(row, occurredAt) ==
  [row EXCEPT !.lastCompletion = occurredAt,
              !.repeatsLeft = RepeatsAfterCompletion(@),
              !.snoozedFor = NotSnoozed]

\* Query UpdateChore as Update calls it: SnoozedFor is not among the arguments
\* Update passes, so the column is set to zero.
UpdatedRow(row, inp) ==
  [row EXCEPT !.interval = inp.interval,
              !.repeatsLeft = inp.repeats,
              !.snoozedFor = NotSnoozed,
              !.lastCompletion = inp.date]

\* changeSnooze: due again snoozeFor days after today.
SnoozedRow(row, today, snoozeFor) ==
  [row EXCEPT !.snoozedFor = snoozeFor + @ - DurationToNextFrom(row, today)]

CanSnooze(row, today)   == DurationToNextFrom(row, today) <= 0
CanExpedite(row, today) == DurationToNextFrom(row, today) > 0

=============================================================================
