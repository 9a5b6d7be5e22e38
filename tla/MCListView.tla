----------------------------- MODULE MCListView -----------------------------
(***************************************************************************)
(* Small instances of ListView for TLC: a week of three days, a month of   *)
(* five.                                                                   *)
(***************************************************************************)
EXTENDS ListView, TLC

CONSTANT l1

New(choreType, interval, lastCompletion, snoozedFor, repeatsLeft) ==
  [choreType |-> choreType, choreListID |-> l1, createdAt |-> 1, interval |-> interval,
   lastCompletion |-> lastCompletion, snoozedFor |-> snoozedFor,
   repeatsLeft |-> repeatsLeft]

\* A daily chore that was never done, one due in a month for the last time but one,
\* and one due later still for the last time: completed and snoozed, they come under
\* every heading.
MixedRows == {New("interval", 1, ZeroDate, 0, Forever), New("interval", 4, 1, 0, 2),
              New("interval", 6, 2, 0, 1)}

=============================================================================
