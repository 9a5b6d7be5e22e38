--------------------------- MODULE MCChoreService ---------------------------
(***************************************************************************)
(* Small instances of ChoreService for TLC.                                *)
(***************************************************************************)
EXTENDS ChoreService, TLC

CONSTANTS l1, u1, u2, c1, c2, w1, w2

Form(choreType, interval, repeats, date) ==
  [named |-> TRUE, choreType |-> choreType, choreListID |-> l1,
   interval |-> interval, repeats |-> repeats, date |-> date]

\* The forms among those that FromForm can make.
Sent(forms) == {f \in Input : f \in forms}

\* Chores without end, counted ones, and chores with a date.
RaceForms == Sent({Form("interval", 1, Forever, ZeroDate),
                   Form("interval", 2, 1, ZeroDate), Form("date", 0, 1, 2)})

\* One chore of each type that can be made, and a form for a type that none can have.
HouseholdForms ==
  Sent({Form("interval", 1, Forever, ZeroDate), Form("oneshot", 0, 1, ZeroDate),
        Form("date", 0, 1, 1), Form("date-repeating", 1, Forever, 1)})

\* A chore to be done once.
OnceForms == Sent({Form("oneshot", 0, 1, ZeroDate)})

\* A chore to be done again and again.
AgainForms == Sent({Form("interval", 1, Forever, ZeroDate)})

Interchangeable == Permutations(Workers) \cup Permutations(Users) \cup Permutations(ChoreIDs)

=============================================================================
