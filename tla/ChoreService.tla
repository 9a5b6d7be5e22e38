---------------------------- MODULE ChoreService ----------------------------
(***************************************************************************)
(* The chore handlers of internal/core/chore.go over the service functions *)
(* of internal/core/service.go, and the chore lists whose members may use  *)
(* them.  Every request runs in a goroutine of its own, so a handler is    *)
(* taken apart wherever another request can come between:                  *)
(*                                                                         *)
(*   first step   decode the form, read today's date, look the chore up    *)
(*                (a SELECT of its own, outside any transaction);          *)
(*   second step  the statement or the transaction that writes.            *)
(*                                                                         *)
(* What the first step read travels with the request, and may be stale     *)
(* when the second step uses it.  A transaction is one step here, and      *)
(* taken apart into its statements in ChoreTransactions.                   *)
(***************************************************************************)
EXTENDS Chore

CONSTANTS ChoreIDs,    \* identifiers NewId may draw
          Users,
          Workers,     \* goroutines serving requests
          Inputs,      \* the forms users send
          MaxEvents,   \* bound: completions of one chore on one day
          NoChore,     \* "there is no row"
          NoRequest    \* "the worker is idle"

ASSUME ServiceAssumption ==
  /\ Inputs \subseteq Input
  /\ MaxEvents \in Nat
  /\ NoChore \notin Row

VARIABLES
  day,         \* the date date.Today() returns
  choreList,   \* rows of table chore_list
  member,      \* rows of table chore_list_members
  chore,       \* table chore: the row of each identifier, or NoChore
  event,       \* table chore_event: completions of a chore on a day
  issued,      \* identifiers NewId has drawn for a chore that was stored
  request,     \* the request each worker has in flight
  reply        \* what each worker answered last: a redirect or an error page

vars == <<day, choreList, member, chore, event, issued, request, reply>>
database == <<choreList, member, chore, event, issued>>

Ops == {"add", "complete", "snooze", "expedite", "update", "delete"}

\* The locals a handler holds between its two steps.  date is the day the
\* handler read (add, snooze, expedite) or the completed_at of the form
\* (complete); input is the form, as far as Validate has resolved it.
Request == [op    : Ops,
            user  : Users,
            id    : ChoreIDs,
            date  : Date,
            input : Input]

ASSUME RequestAssumption == NoRequest \notin Request

\* Stands in the fields a request has no use for.
NoInput == [named |-> FALSE, choreType |-> "", choreListID |-> NoList,
            interval |-> 0, repeats |-> Forever, date |-> ZeroDate]

NoEvents == [d \in Date |-> 0]

TypeOK ==
  /\ day \in RealDate
  /\ choreList \subseteq ChoreListIDs
  /\ member \subseteq choreList \X Users
  /\ chore \in [ChoreIDs -> Row \cup {NoChore}]
  /\ event \in [ChoreIDs -> [Date -> Nat]]
  /\ issued \subseteq ChoreIDs
  /\ request \in [Workers -> Request \cup {NoRequest}]
  /\ reply \in [Workers -> {"none", "ok", "error"}]

Init ==
  /\ day = 1
  /\ choreList = {}
  /\ member = {}
  /\ chore = [c \in ChoreIDs |-> NoChore]
  /\ event = [c \in ChoreIDs |-> NoEvents]
  /\ issued = {}
  /\ request = [w \in Workers |-> NoRequest]
  /\ reply = [w \in Workers |-> "none"]

-----------------------------------------------------------------------------
(* Queries *)

Stored(c) == chore[c] # NoChore

\* GetChore: the row, for a member of the list it is in.
Visible(u, c) == Stored(c) /\ <<chore[c].choreListID, u>> \in member

\* Mutant: the foreign key of chore_event is not enforced.
AnyChore(c) == TRUE

\* The foreign key of chore_event: there is a row to point at.
CanHaveEvents(c) == Stored(c)

\* Mutant: the event carries the day of the request, not the day it is for.
EventToday(c, d) == [event EXCEPT ![c][day] = @ + 1]

\* CreateChoreEvent
EventAdded(c, d) == [event EXCEPT ![c][d] = @ + 1]

\* Mutant: the events of a deleted chore stay.
EventsKept(c) == event

\* ON DELETE CASCADE of chore_event.chore_id
EventsDeleted(c) == [event EXCEPT ![c] = NoEvents]

\* Mutant: an identifier is free again once its row is gone.
UnusedIDs == {c \in ChoreIDs : ~Stored(c)}

\* NewId never draws an identifier twice.
FreshIDs == ChoreIDs \ issued

-----------------------------------------------------------------------------
(* Workers *)

Idle(w) == request[w] = NoRequest

Serving(w, op) == ~Idle(w) /\ request[w].op = op

Begin(w, op, u, c, d, inp) ==
  /\ request' = [request EXCEPT ![w] =
       [op |-> op, user |-> u, id |-> c, date |-> d, input |-> inp]]
  /\ reply' = [reply EXCEPT ![w] = "none"]
  /\ UNCHANGED <<day, database>>

Answer(w, r) ==
  /\ request' = [request EXCEPT ![w] = NoRequest]
  /\ reply' = [reply EXCEPT ![w] = r]

-----------------------------------------------------------------------------
(* First steps *)

\* ChoreAddHandler and Create up to the INSERT: today is read, the form is
\* checked and the identifier is drawn.
BeginAdd(w, u, c, inp) ==
  /\ Idle(w)
  /\ c \in FreshIDs
  /\ ValidNew(inp)
  /\ Begin(w, "add", u, c, day, inp)

\* ChoreCompleteHandler up to Complete.  The form may name any day, or none.
BeginComplete(w, u, c, completedAt) ==
  /\ Idle(w)
  /\ Visible(u, c)
  /\ Begin(w, "complete", u, c, completedAt, NoInput)

\* Complete, where the form has left the day out: today, whenever the transaction will be
\* over.
DateCompletion(w) ==
  LET r == request[w] IN
  /\ Serving(w, "complete")
  /\ r.date = ZeroDate
  /\ Begin(w, "complete", r.user, r.id, day, r.input)

\* ChoreSnoozeHandler and ChoreExpediteHandler up to the transaction.  The day
\* is read first; the lookup that follows needs no step, as the transaction
\* repeats it and it keeps nothing the transaction uses.
BeginSnooze(w, u, c) ==
  /\ Idle(w)
  /\ Begin(w, "snooze", u, c, day, NoInput)

BeginExpedite(w, u, c) ==
  /\ Idle(w)
  /\ Begin(w, "expedite", u, c, day, NoInput)

\* ChoreUpdateHandler up to the UPDATE: the form is resolved against the row
\* as it is now.
BeginUpdate(w, u, c, inp) ==
  /\ Idle(w)
  /\ Visible(u, c)
  /\ ValidEdit(inp, chore[c])
  /\ Begin(w, "update", u, c, ZeroDate, Resolve(inp, chore[c]))

\* ChoreDeleteHandler up to the DELETE.
BeginDelete(w, u, c) ==
  /\ Idle(w)
  /\ Visible(u, c)
  /\ Begin(w, "delete", u, c, ZeroDate, NoInput)

\* A form that does not decode or is not valid, or a chore the user cannot see:
\* an error page at once.
Refuse(w) ==
  /\ Idle(w)
  /\ Answer(w, "error")
  /\ UNCHANGED <<day, database>>

-----------------------------------------------------------------------------
(* Second steps.  d stands for the request's date, inp for its input. *)

\* INSERT INTO chore.  The identifier is new, and the list has to exist.
AddCommit(w) ==
  LET r == request[w] IN
  /\ Serving(w, "add")
  /\ r.id \in FreshIDs
  /\ r.input.choreListID \in choreList
  /\ chore' = [chore EXCEPT ![r.id] = NewRow(r.input, r.date)]
  /\ issued' = issued \cup {r.id}
  /\ Answer(w, "ok")
  /\ UNCHANGED <<day, choreList, member, event>>

\* Complete: the event and the row in one transaction.  The UPDATE matches no
\* row and does no harm when there is none, but then the event has no chore to
\* point at.
CompleteRuns(r) == r.date # ZeroDate /\ CanHaveEvents(r.id)

CompleteCommit(w) ==
  LET r == request[w] IN
  /\ Serving(w, "complete")
  /\ CompleteRuns(r)
  /\ event[r.id][r.date] < MaxEvents
  /\ event' = EventAdded(r.id, r.date)
  /\ chore' = [chore EXCEPT ![r.id] = IF Stored(r.id) THEN CompletedRow(@, r.date) ELSE @]
  /\ Answer(w, "ok")
  /\ UNCHANGED <<day, choreList, member, issued>>

\* Mutant: the handler's own lookup is trusted to have found the chore due.
SnoozeRunsUnchecked(r) == Visible(r.user, r.id)

\* Snooze: the row is looked up again inside the transaction.
SnoozeRuns(r) == Visible(r.user, r.id) /\ CanSnooze(chore[r.id], r.date)

SnoozeCommit(w) ==
  LET r == request[w] IN
  /\ Serving(w, "snooze")
  /\ SnoozeRuns(r)
  /\ chore' = [chore EXCEPT ![r.id] = SnoozedRow(@, r.date, OneDay)]
  /\ Answer(w, "ok")
  /\ UNCHANGED <<day, choreList, member, event, issued>>

\* Expedite: the same transaction with the opposite test.
ExpediteRuns(r) == Visible(r.user, r.id) /\ CanExpedite(chore[r.id], r.date)

ExpediteCommit(w) ==
  LET r == request[w] IN
  /\ Serving(w, "expedite")
  /\ ExpediteRuns(r)
  /\ chore' = [chore EXCEPT ![r.id] = SnoozedRow(@, r.date, 0)]
  /\ Answer(w, "ok")
  /\ UNCHANGED <<day, choreList, member, event, issued>>

\* UPDATE ... RETURNING: no row to return is an error.
UpdateCommit(w) ==
  LET r == request[w] IN
  /\ Serving(w, "update")
  /\ Stored(r.id)
  /\ chore' = [chore EXCEPT ![r.id] = UpdatedRow(@, r.input)]
  /\ Answer(w, "ok")
  /\ UNCHANGED <<day, choreList, member, event, issued>>

\* DELETE: no row to delete is no error.
DeleteCommit(w) ==
  LET r == request[w] IN
  /\ Serving(w, "delete")
  /\ chore' = [chore EXCEPT ![r.id] = NoChore]
  /\ event' = EventsDeleted(r.id)
  /\ Answer(w, "ok")
  /\ UNCHANGED <<day, choreList, member, issued>>

-----------------------------------------------------------------------------
(* What goes wrong *)

\* A statement fails (busy database, cancelled request, constraint, missing row,
\* chore not due): the transaction rolls back and an error page is served.
Abort(w) ==
  /\ ~Idle(w)
  /\ Answer(w, "error")
  /\ UNCHANGED <<day, database>>

\* COMMIT fails where the handler does not look: Complete and changeSnooze run it
\* in a defer and drop its error.  Nothing is stored and the redirect is served.
CommitLost(w) ==
  /\ \/ Serving(w, "complete") /\ CompleteRuns(request[w])
     \/ Serving(w, "snooze") /\ SnoozeRuns(request[w])
     \/ Serving(w, "expedite") /\ ExpediteRuns(request[w])
  /\ Answer(w, "ok")
  /\ UNCHANGED <<day, database>>

\* The process dies: requests are gone, the database is not.
Crash ==
  /\ request' = [w \in Workers |-> NoRequest]
  /\ reply' = [w \in Workers |-> "none"]
  /\ UNCHANGED <<day, database>>

-----------------------------------------------------------------------------
(* Lists and time *)

\* ChoreListNewHandler: list and first member in one transaction, whose COMMIT
\* is checked.
CreateList(u, l) ==
  /\ l \notin choreList
  /\ choreList' = choreList \cup {l}
  /\ member' = member \cup {<<l, u>>}
  /\ UNCHANGED <<day, chore, event, issued, request, reply>>

\* ChoreListLeaveHandler
LeaveList(u, l) ==
  /\ <<l, u>> \in member
  /\ member' = member \ {<<l, u>>}
  /\ UNCHANGED <<day, choreList, chore, event, issued, request, reply>>

\* An accepted invite (internal/core/invite.go).
JoinList(u, l) ==
  /\ l \in choreList
  /\ <<l, u>> \notin member
  /\ member' = member \cup {<<l, u>>}
  /\ UNCHANGED <<day, choreList, chore, event, issued, request, reply>>

\* Midnight.
Tick ==
  /\ day < MaxDate
  /\ day' = day + 1
  /\ UNCHANGED <<database, request, reply>>

-----------------------------------------------------------------------------
FirstStep(w) ==
  \/ Refuse(w)
  \/ DateCompletion(w)
  \/ \E u \in Users, c \in ChoreIDs :
       \/ \E inp \in Inputs : BeginAdd(w, u, c, inp)
       \/ \E inp \in Inputs : BeginUpdate(w, u, c, inp)
       \/ \E d \in Date : BeginComplete(w, u, c, d)
       \/ BeginSnooze(w, u, c)
       \/ BeginExpedite(w, u, c)
       \/ BeginDelete(w, u, c)

SecondStep(w) ==
  \/ AddCommit(w)
  \/ CompleteCommit(w)
  \/ SnoozeCommit(w)
  \/ ExpediteCommit(w)
  \/ UpdateCommit(w)
  \/ DeleteCommit(w)
  \/ Abort(w)
  \/ CommitLost(w)

Next ==
  \/ \E w \in Workers : FirstStep(w) \/ SecondStep(w)
  \/ \E u \in Users, l \in ChoreListIDs :
       CreateList(u, l) \/ LeaveList(u, l) \/ JoinList(u, l)
  \/ Crash
  \/ Tick

Spec == Init /\ [][Next]_vars

-----------------------------------------------------------------------------
(* What holds *)

\* A row keeps the shape its type asks for, whatever edits, completions and
\* snoozes of other requests come between the two steps of one: only interval
\* chores have an interval, and a date chore never loses its date (Validate
\* resolves an edit against a row that may be gone stale).
WellFormed(row) ==
  /\ row.choreType = "interval" <=> row.interval # 0
  /\ row.choreType = "date" => row.lastCompletion # ZeroDate

ShapeOK == \A c \in ChoreIDs : Stored(c) => WellFormed(chore[c])

\* No event outlives its chore, or arrives after it: a completion whose lookup
\* found the chore and whose transaction runs after a DELETE leaves nothing.
NoOrphanEvents == \A c \in ChoreIDs : ~Stored(c) => event[c] = NoEvents

\* The last completion of a chore that has no date of its own is a day on which
\* an event says it was completed, even when an edit wrote back an older one.
LastCompletionRecorded ==
  \A c \in ChoreIDs :
    Stored(c) /\ chore[c].choreType # "date" =>
      \/ chore[c].lastCompletion = ZeroDate
      \/ event[c][chore[c].lastCompletion] > 0

\* A snoozed or expedited chore is due tomorrow at the latest: postponing twice,
\* postponing across midnight, completing and editing never add up to more.
SnoozedIsSoon ==
  \A c \in ChoreIDs :
    Stored(c) /\ chore[c].snoozedFor # NotSnoozed => NextCompletion(chore[c]) <= day + 1

\* Two completions of c are on record, of one day or of two.
CompletedTwice(c) ==
  \E d, e \in Date :
    /\ event[c][d] > 0 /\ event[c][e] > 0
    /\ d = e => event[c][d] > 1

RepeatsOnRecord(c) ==
  chore[c].choreType # "interval" =>
    /\ chore[c].repeatsLeft <= 1
    /\ chore[c].repeatsLeft = 0 => \E d \in Date : event[c][d] > 0
    /\ chore[c].repeatsLeft = Forever => CompletedTwice(c)

\* What is left of a chore that is done once, an oneshot or a chore with a date, is
\* on record: none left, and it was completed; "without end", and it was completed
\* twice.  No edit, however late it is written, and no single completion makes a
\* household repeat for ever what it meant to do once.
RepeatsAccountedFor == \A c \in ChoreIDs : Stored(c) => RepeatsOnRecord(c)

\* Snoozing never makes a chore due sooner and expediting never makes it due
\* later, though it may have been completed, edited or snoozed since the user
\* saw it: the test on the duration is made on the row the UPDATE then changes.
SnoozeDirection ==
  [][\A w \in Workers :
       LET c == request[w].id IN
       reply'[w] = "ok" /\ chore' # chore =>
         /\ Serving(w, "snooze") =>
              NextCompletion(chore'[c]) > NextCompletion(chore[c])
         /\ Serving(w, "expedite") =>
              NextCompletion(chore'[c]) < NextCompletion(chore[c])]_vars

-----------------------------------------------------------------------------
(* The inductive invariant behind them: what a request in flight carries *)

\* A stored chore has been issued: with FreshIDs, no INSERT meets an older row.
IssuedOK == \A c \in ChoreIDs : Stored(c) => c \in issued

\* An add carries a valid form and a day.
AddOK(r) == ValidNew(r.input) /\ r.date \in RealDate

\* A postponement carries a day that has come.
PostponeOK(r) == r.date \in RealDate /\ r.date <= day

\* An edit carries what the row may take however much it has changed since: its
\* type, a plan, and a date that is its own or that of a completion on record.
EditOK(r) ==
  /\ r.id \in issued
  /\ r.input.choreType = "interval" <=> r.input.interval # 0
  /\ r.input.choreType = "date" => r.input.date # ZeroDate
  /\ r.input.repeats # 0
  /\ r.input.choreType # "interval" => r.input.repeats = 1
  /\ Stored(r.id) =>
       /\ r.input.choreType = chore[r.id].choreType
       /\ r.input.choreType # "date" =>
            r.input.date = ZeroDate \/ event[r.id][r.input.date] > 0

RequestsOK ==
  \A w \in Workers :
    /\ ~Idle(w) => reply[w] = "none"
    /\ Serving(w, "add") => AddOK(request[w])
    /\ Serving(w, "snooze") \/ Serving(w, "expedite") => PostponeOK(request[w])
    /\ Serving(w, "update") => EditOK(request[w])

IInv ==
  /\ TypeOK
  /\ IssuedOK
  /\ RequestsOK
  /\ ShapeOK
  /\ NoOrphanEvents
  /\ LastCompletionRecorded
  /\ SnoozedIsSoon
  /\ RepeatsAccountedFor

-----------------------------------------------------------------------------
(* What the service is for *)

\* The ledger a household reads off the tables: which chores there are, on which
\* days each was completed, which completion was the last, and what is left.
Status(c)      == IF Stored(c) THEN "open" ELSE IF c \in issued THEN "gone" ELSE "unborn"
Dated          == {c \in ChoreIDs : Stored(c) /\ chore[c].choreType = "date"}
LastOrDate(c)  == IF Stored(c) THEN chore[c].lastCompletion ELSE ZeroDate
RepeatsLeft(c) == IF Stored(c) THEN chore[c].repeatsLeft ELSE 0

StatusMap      == [c \in ChoreIDs |-> Status(c)]
LastOrDateMap  == [c \in ChoreIDs |-> LastOrDate(c)]
RepeatsLeftMap == [c \in ChoreIDs |-> RepeatsLeft(c)]

Ledger == INSTANCE ChoreLedger WITH
  Chores <- ChoreIDs, status <- StatusMap, dated <- Dated, completed <- event,
  last <- LastOrDateMap, left <- RepeatsLeftMap

\* Every step of the service is one entry of the ledger, or none.
ImplementsLedger == Ledger!Spec

-----------------------------------------------------------------------------
(* What the repository says and the code does not do *)

\* chore_test.go:163-168: when Complete returns no error, the chore's last
\* completion is the day it was completed on.
AcknowledgedCompletionStored ==
  [][\A w \in Workers :
       LET r == request[w] IN
       Serving(w, "complete") /\ reply'[w] = "ok" =>
         /\ chore'[r.id] # NoChore
         /\ chore'[r.id].lastCompletion = r.date]_vars

\* service.go:90 "oneshot chore can't have repeats", chore.go:32 "-1 means
\* infinite": no chore that is done once repeats without end.
OneshotNeverForever ==
  \A c \in ChoreIDs :
    Stored(c) /\ chore[c].choreType # "interval" => chore[c].repeatsLeft # Forever

\* chore_test.go:163-168 again: a completed chore's last completion is the day of
\* its completion.  Nothing but another completion may change it (a date chore's
\* date excepted, which an edit may move).  True as long as no completion is
\* committed while an edit of the same chore is under way, and false otherwise.
CompletionSurvivesEdit ==
  [][\A c \in ChoreIDs :
       /\ Stored(c) /\ Stored(c)'
       /\ chore[c].choreType # "date"
       /\ chore'[c].lastCompletion # chore[c].lastCompletion
       => event'[c] # event[c]]_vars

-----------------------------------------------------------------------------
(* What would make them true (the proofs are in ChoreServiceProofs) *)

\* No COMMIT is lost where the handler does not look.
CommitsSucceed == [][\A w \in Workers : ~CommitLost(w)]_vars

\* Nobody completes a chore that has no repetition left.
OnlyListedCompleted ==
  [][\A w \in Workers : CompleteCommit(w) => Listed(chore[request[w].id])]_vars

\* No completion is committed while an edit of the same chore is under way.
EditsNotOvertaken ==
  [][\A v, w \in Workers :
       CompleteCommit(v) /\ Serving(w, "update") => request[w].id # request[v].id]_vars

\* At most one request is served at a time.
OneAtATime == \A v, w \in Workers : ~Idle(v) /\ ~Idle(w) => v = w

=============================================================================
