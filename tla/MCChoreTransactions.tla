-------------------------- MODULE MCChoreTransactions --------------------------
(* Small instances of ChoreTransactions for TLC. *)
EXTENDS ChoreTransactions

CONSTANTS l1, u1, c1, w1, w2

Form(choreType, interval, repeats, date) ==
  [named |-> TRUE, choreType |-> choreType, choreListID |-> l1,
   interval |-> interval, repeats |-> repeats, date |-> date]

\* The forms among those that FromForm can make.
Sent(forms) == {f \in Input : f \in forms}

\* A chore that is due every day.
DailyForm == Sent({Form("interval", 1, Forever, ZeroDate)})

=============================================================================
