---------------------------- MODULE ChoreLedger ----------------------------
(***************************************************************************)
(* What the chore service promises of a chore, whatever requests run at    *)
(* the same time: it is created once, its completions are counted day by   *)
(* day and stay until it is removed, it is not seen again after that, and  *)
(* its last completion is a day on which it was completed.                 *)
(***************************************************************************)
EXTENDS Integers

CONSTANTS Chores, MaxDate, MaxRepeats

VARIABLES
  status,      \* "unborn", then "open", then "gone"
  dated,       \* the open chores that carry a date of their own
  completed,   \* how often each was completed on each day
  last,        \* the day of the last completion, or the chore's own date
  left         \* completions to go: -1 for no end, 0 for a finished chore

ledger == <<status, dated, completed, last, left>>

Day == 0 .. MaxDate           \* 0 is no day

Blank == [d \in Day |-> 0]

\* A plan for what is left, as a form may state it.
Plan == {-1} \cup 1 .. MaxRepeats

\* The days that may stand as last completion of an open chore.
Datable(c) == {d \in Day : d = 0 \/ completed[c][d] > 0 \/ c \in dated}

Init ==
  /\ status = [c \in Chores |-> "unborn"]
  /\ dated = {}
  /\ completed = [c \in Chores |-> Blank]
  /\ last = [c \in Chores |-> 0]
  /\ left = [c \in Chores |-> 0]

\* d = 0, or the date of a chore that has one.
Create(c, d) ==
  /\ status[c] = "unborn"
  /\ status' = [status EXCEPT ![c] = "open"]
  /\ dated' = IF d = 0 THEN dated ELSE dated \cup {c}
  /\ last' = [last EXCEPT ![c] = d]
  /\ \E n \in Plan : left' = [left EXCEPT ![c] = n]
  /\ UNCHANGED completed

\* One completion less to go; a chore without end stays one, and a finished chore
\* that is completed once more becomes one.
Complete(c, d) ==
  /\ status[c] = "open"
  /\ completed' = [completed EXCEPT ![c][d] = @ + 1]
  /\ last' = [last EXCEPT ![c] = d]
  /\ left' = [left EXCEPT ![c] = IF @ > 0 THEN @ - 1 ELSE -1]
  /\ UNCHANGED <<status, dated>>

\* An edit plans anew.  It may set the last completion back to an earlier one,
\* never to a day on which nothing was completed.
Edit(c) ==
  /\ status[c] = "open"
  /\ \E n \in Plan : left' = [left EXCEPT ![c] = n]
  /\ \E d \in Datable(c) : last' = [last EXCEPT ![c] = d]
  /\ UNCHANGED <<status, dated, completed>>

Remove(c) ==
  /\ status[c] = "open"
  /\ status' = [status EXCEPT ![c] = "gone"]
  /\ dated' = dated \ {c}
  /\ completed' = [completed EXCEPT ![c] = Blank]
  /\ last' = [last EXCEPT ![c] = 0]
  /\ left' = [left EXCEPT ![c] = 0]

Next ==
  \E c \in Chores :
    \/ \E d \in Day : Create(c, d)
    \/ \E d \in Day \ {0} : Complete(c, d)
    \/ Edit(c)
    \/ Remove(c)

Spec == Init /\ [][Next]_ledger

=============================================================================
