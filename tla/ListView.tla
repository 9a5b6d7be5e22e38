------------------------------ MODULE ListView ------------------------------
(***************************************************************************)
(* The page of a chore list: which chores it shows, in what order, under   *)
(* which heading and with which button (ChoreListPage, NewListView and     *)
(* Sections of internal/core/chore_list.go, and the template               *)
(* chore_list.page.gohtml), and the calendar made of the same chores       *)
(* (APIChoreListIcsFile, ChoreListIcsView of internal/core/view.go and the *)
(* template calendar.goics).                                               *)
(*                                                                         *)
(* The handler reads the date and then the chores; the template reads the  *)
(* date once more.  The page then stays on a screen while days go by and   *)
(* other requests change the chores.                                       *)
(***************************************************************************)
EXTENDS Chore, Sequences, FiniteSets

CONSTANTS Rows,         \* the rows of chores as they are created here
          MaxChores,    \* bound: rows in the table
          Week, Month,  \* date.Week and date.Month, in days
          Latest,       \* bound: stands for date.Max
          NoPage,       \* "no page is on the screen"
          NoCalendar    \* "no calendar is on the screen"

ASSUME ListViewAssumption ==
  /\ Rows \subseteq Row
  /\ MaxChores \in Nat
  /\ Week \in Nat /\ Month \in Nat
  /\ Latest \in Nat
  /\ OneDay < Week /\ Week < Month /\ Month < Latest

\* date.Max is a day no chore will ever be due on.
ASSUME LatestAssumption ==
  /\ MaxDate + OneDay <= Latest
  /\ \A row \in Rows : NextCompletion(row) <= Latest /\ MaxDate + row.interval <= Latest

VARIABLES
  day,      \* the date date.Today() returns
  table,    \* the chores of the list, in the order of their names
  reading,  \* the date the handler in flight has read, or the zero date
  page,     \* the page on the screen
  calendar  \* or the calendar: the day of each chore

vars == <<day, table, reading, page, calendar>>

\* A chore on the page is known by its place in the table, which it keeps.
Places == 1 .. MaxChores

-----------------------------------------------------------------------------
(* NewListView *)

\* GetChoresByList, ORDER BY name, id.
Chores(rows) == {c \in 1 .. Len(rows) : Listed(rows[c])}

\* Mutant: the chores stay in the order of the query.
InFrontByName(rows, c) == {d \in Chores(rows) : d < c}

\* sort.SliceStable: in front of a chore are those due before it, and those due on the
\* same day that the query returns before it.
InFront(rows, c) ==
  {d \in Chores(rows) :
     \/ NextCompletion(rows[d]) < NextCompletion(rows[c])
     \/ NextCompletion(rows[d]) = NextCompletion(rows[c]) /\ d < c}

ByDue(rows) ==
  [p \in 1 .. Cardinality(Chores(rows)) |->
     CHOOSE c \in Chores(rows) : Cardinality(InFront(rows, c)) = p - 1]

-----------------------------------------------------------------------------
(* Sections *)

\* LatestCompletion of Overdue, Today, Tomorrow, This week, This month and Later.
Limits == <<-OneDay, 0, OneDay, Week, Month, Latest>>

\* Mutant: the limit is the first day that is too late.
FitsBefore(row, i, today) == DurationToNextFrom(row, today) < Limits[i]

Fits(row, i, today) == DurationToNextFrom(row, today) <= Limits[i]

\* The inner loop of section i: the index goes on from j while the next chore fits.
Taken(rows, today, s, i, j) ==
  CHOOSE m \in j .. Len(s) :
    /\ \A k \in j + 1 .. m : Fits(rows[s[k]], i, today)
    /\ m < Len(s) => ~Fits(rows[s[m + 1]], i, today)

\* The outer loop: where the index is after each section.
Ends(rows, today) ==
  LET s == ByDue(rows)
      end[i \in 0 .. Len(Limits)] == IF i = 0 THEN 0 ELSE Taken(rows, today, s, i, end[i - 1])
  IN  end

\* The chores of each section.
Sections(rows, today) ==
  LET s   == ByDue(rows)
      end == Ends(rows, today)
  IN  [i \in 1 .. Len(Limits) |-> SubSeq(s, end[i - 1] + 1, end[i])]

\* Mutant: the button goes by the heading's idea of being due.
SnoozeOfferedLate(row, today) == DurationToNextFrom(row, today) < 0

\* The button of a chore: snooze, or else expedite.
SnoozeOffered(row, today) == ~(DurationToNextFrom(row, today) > 0)

-----------------------------------------------------------------------------
(* ChoreListIcsView *)

\* Mutant: a chore stays on the day it was due.
DayItWasDue(row, today) == NextCompletion(row)

\* NextCompletionOf: what is overdue is to be done today.
NextCompletionOf(row, today) ==
  IF NextCompletion(row) > today THEN NextCompletion(row) ELSE today

\* The entries of the calendar: the events of calendar.goics.
Entries(rows, today) ==
  {[chore |-> c, date |-> NextCompletionOf(rows[c], today)] :
     c \in Chores(rows)}

-----------------------------------------------------------------------------
Calendar == [today   : RealDate,
             rows    : Seq(Row),
             entries : SUBSET [chore : Places, date : Int]]

Page == [today    : RealDate,                 \* the date of the headings
         shown    : RealDate,                 \* the date of the buttons
         rows     : Seq(Row),                 \* the rows it was made from
         sections : [1 .. Len(Limits) -> Seq(Places)],
         snooze   : SUBSET Places]

TypeOK ==
  /\ day \in RealDate
  /\ table \in Seq(Row) /\ Len(table) <= MaxChores
  /\ reading \in Date
  /\ page = NoPage \/ page \in Page
  /\ calendar = NoCalendar \/ calendar \in Calendar

Init ==
  /\ day = 1
  /\ table = <<>>
  /\ reading = ZeroDate
  /\ page = NoPage
  /\ calendar = NoCalendar

\* A page is asked for, in place of what is on the screen: ChoreListPage reads the
\* date.
Read ==
  /\ reading = ZeroDate
  /\ reading' = day
  /\ page' = NoPage
  /\ calendar' = NoCalendar
  /\ UNCHANGED <<day, table>>

\* ChoreListRender and the template.
Render ==
  /\ reading # ZeroDate
  /\ page' = [today |-> reading, shown |-> day, rows |-> table,
              sections |-> Sections(table, reading),
              snooze |-> {c \in 1 .. Len(table) : SnoozeOffered(table[c], day)}]
  /\ reading' = ZeroDate
  /\ UNCHANGED <<day, table, calendar>>

\* Or a calendar: APIChoreListIcsFile reads the chores and then the date, and a midnight
\* between the two is one before both, as no chore changes with it.
Export ==
  /\ reading = ZeroDate
  /\ calendar' = [today |-> day, rows |-> table, entries |-> Entries(table, day)]
  /\ page' = NoPage
  /\ UNCHANGED <<day, table, reading>>

\* Other requests: a chore is added, completed or snoozed.  One that is added goes
\* last by name, which leaves every table possible.
AddChore(row) ==
  /\ Len(table) < MaxChores
  /\ row.createdAt <= day
  /\ table' = Append(table, row)
  /\ UNCHANGED <<day, reading, page, calendar>>

CompleteChore(c) ==
  /\ table' = [table EXCEPT ![c] = CompletedRow(@, day)]
  /\ UNCHANGED <<day, reading, page, calendar>>

SnoozeChore(c) ==
  /\ CanSnooze(table[c], day)
  /\ table' = [table EXCEPT ![c] = SnoozedRow(@, day, OneDay)]
  /\ UNCHANGED <<day, reading, page, calendar>>

NextDay ==
  /\ day < MaxDate
  /\ day' = day + 1
  /\ UNCHANGED <<table, reading, page, calendar>>

Next ==
  \/ Read
  \/ Render
  \/ Export
  \/ \E row \in Rows : AddChore(row)
  \/ \E c \in 1 .. Len(table) : CompleteChore(c) \/ SnoozeChore(c)
  \/ NextDay

Spec == Init /\ [][Next]_vars

-----------------------------------------------------------------------------
(* What the page shows *)

On(c, i) == \E k \in 1 .. Len(page.sections[i]) : page.sections[i][k] = c

\* The one pass of Sections over the sorted chores leaves none out: every chore with
\* a repetition left is under the first heading that is not too early for it, and
\* under no other.
RightSection ==
  page # NoPage =>
    \A c \in 1 .. Len(page.rows), i \in 1 .. Len(Limits) :
      LET togo == DurationToNextFrom(page.rows[c], page.today) IN
      On(c, i) <=> /\ Listed(page.rows[c])
                   /\ togo <= Limits[i]
                   /\ \A k \in 1 .. i - 1 : Limits[k] < togo

\* Down the page the chores are due later and later, those of one day in the order
\* of their names, and none is shown twice.
InDueOrder ==
  page # NoPage =>
    \A i \in 1 .. Len(Limits) :
      LET s == page.sections[i]
          due(c) == NextCompletion(page.rows[c])
      IN \A k, m \in 1 .. Len(s) :
           k < m => due(s[k]) < due(s[m]) \/ (due(s[k]) = due(s[m]) /\ s[k] < s[m])

\* The button that the page offers does what it says: snooze is not refused however
\* old the page is, unless the chore was changed, and expedite not on the same day,
\* even though the headings may still be those of the day before.
OfferStands ==
  page # NoPage =>
    \A c \in 1 .. Len(page.rows) :
      table[c] = page.rows[c] =>
        /\ c \in page.snooze => CanSnooze(table[c], day)
        /\ c \notin page.snooze /\ day = page.shown => CanExpedite(table[c], day)

\* The calendar and the page agree: what the calendar has on the day it is made is what
\* the page of that day has under Overdue and Today, and what it has on the next day is
\* what the page has under Tomorrow; nothing of it lies in the past, and no chore that is
\* finished is in it.
CalendarAgrees ==
  calendar # NoCalendar =>
    LET sections == Sections(calendar.rows, calendar.today)
        under(S)  == UNION {{sections[i][k] : k \in 1 .. Len(sections[i])} : i \in S}
        on(d)     == {e.chore : e \in {e \in calendar.entries : e.date = d}}
    IN  /\ on(calendar.today) = under({1, 2})
        /\ on(calendar.today + 1) = under({3})
        /\ {e.chore : e \in calendar.entries} = under(1 .. Len(Limits))
        /\ \A e \in calendar.entries : e.date >= calendar.today

=============================================================================
