--------------------------- MODULE ChoreTransactions ---------------------------
(***************************************************************************)
(* The transactions of internal/core/service.go statement by statement,    *)
(* over the locks SQLite takes for them: what ChoreService does in one     *)
(* step is here an INSERT and an UPDATE (Complete) or a SELECT, a test and *)
(* an UPDATE (changeSnooze), and a COMMIT.                                 *)
(*                                                                         *)
(* SQLite locks the database file as a whole.  BEGIN takes no lock.  The   *)
(* first SELECT of a transaction takes SHARED, its first write RESERVED,   *)
(* which one connection at a time may have.  COMMIT first keeps new        *)
(* readers out (PENDING) and then waits for those that are in.  Whoever    *)
(* has no lock yet waits for one; who has read and finds the writer's      *)
(* place taken is told SQLITE_BUSY at once, as the two would wait for each *)
(* other.  A statement outside a transaction is a transaction of its own.  *)
(***************************************************************************)
EXTENDS ChoreService

CONSTANT NoDraft   \* "nobody has written"

VARIABLES
  tx,      \* where the transaction of each worker stands
  draft    \* the tables as the transaction that writes has left them, or NoDraft

transactions == <<tx, draft>>
varsT == <<vars, transactions>>

Locks == {"none", "shared", "reserved", "pending"}

Tables == [chore : [ChoreIDs -> Row \cup {NoChore}], event : [ChoreIDs -> [Date -> Nat]]]

\* The lock held, the next statement, and the row that get returned.
Tx == [lock : Locks, next : {"begin", "update", "commit"}, seen : Row \cup {NoChore}]

Fresh == [lock |-> "none", next |-> "begin", seen |-> NoChore]

ASSUME TransactionAssumption == NoDraft \notin Tables

\* The worker holds the writer's lock.
Writing(w) == tx[w].lock \in {"reserved", "pending"}

\* The types, and that somebody's writes wait for their COMMIT exactly when somebody holds
\* the writer's lock.
TypeOKT ==
  /\ TypeOK
  /\ tx \in [Workers -> Tx]
  /\ draft \in Tables \cup {NoDraft}
  /\ draft # NoDraft <=> \E w \in Workers : Writing(w)

InitT ==
  /\ Init
  /\ tx = [w \in Workers |-> Fresh]
  /\ draft = NoDraft

-----------------------------------------------------------------------------
(* Locks *)

\* What the other connections hold.
OtherLocks(w) == {tx[v].lock : v \in Workers \ {w}}

MayRead(w)    == "pending" \notin OtherLocks(w)
MayReserve(w) == OtherLocks(w) \cap {"reserved", "pending"} = {}
MayCommit(w)  == OtherLocks(w) \subseteq {"none"}

\* The worker's transaction stands before a statement.
Before(w, next) == ~Idle(w) /\ tx[w].next = next

\* A statement is run: the lock it leaves the transaction with, and the statement after it.
Run(w, lock, next, seen, tables) ==
  /\ tx' = [tx EXCEPT ![w] = [lock |-> lock, next |-> next, seen |-> seen]]
  /\ draft' = tables
  /\ UNCHANGED vars

\* Mutant: what a transaction wrote outlives its rollback.
EndedDraftKept(w) ==
  /\ tx' = [tx EXCEPT ![w] = Fresh]
  /\ draft' = draft

\* The transaction ends: its locks are released.
Ended(w) ==
  /\ tx' = [tx EXCEPT ![w] = Fresh]
  /\ draft' = IF Writing(w) THEN NoDraft ELSE draft

-----------------------------------------------------------------------------
(* Complete *)

InsertEvent(w) ==
  LET r == request[w] IN
  /\ Serving(w, "complete")
  /\ r.date # ZeroDate
  /\ Before(w, "begin")
  /\ MayReserve(w)
  /\ CanHaveEvents(r.id)
  /\ event[r.id][r.date] < MaxEvents
  /\ Run(w, "reserved", "update", NoChore,
         [chore |-> chore, event |-> EventAdded(r.id, r.date)])

CanUpdateCompleted(w) == Serving(w, "complete") /\ Before(w, "update")

\* UPDATE chore: no row to match is no error.
UpdateCompleted(w) ==
  LET r == request[w] IN
  /\ CanUpdateCompleted(w)
  /\ Run(w, "reserved", "commit", NoChore,
         [draft EXCEPT !.chore[r.id] = IF @ = NoChore THEN @ ELSE CompletedRow(@, r.date)])

-----------------------------------------------------------------------------
(* changeSnooze *)

Postponing(w) == Serving(w, "snooze") \/ Serving(w, "expedite")

\* validateDurToNext and snoozeFor, as Snooze and Expedite pass them.
MayPostpone(r, row) ==
  IF r.op = "snooze" THEN CanSnooze(row, r.date) ELSE CanExpedite(row, r.date)

SnoozeFor(r) == IF r.op = "snooze" THEN OneDay ELSE 0

\* Mutant: the lookup is not part of the transaction (the database in place of txc).
LookUpOutside(w) ==
  LET r == request[w] IN
  /\ Postponing(w)
  /\ Before(w, "begin")
  /\ MayRead(w)
  /\ Visible(r.user, r.id)
  /\ Run(w, "none", "update", chore[r.id], draft)

\* get
LookUp(w) ==
  LET r == request[w] IN
  /\ Postponing(w)
  /\ Before(w, "begin")
  /\ MayRead(w)
  /\ Visible(r.user, r.id)
  /\ Run(w, "shared", "update", chore[r.id], draft)

\* The test on what was looked up, and the writer's place for the taking.
CanUpdateSnoozed(w) ==
  /\ Postponing(w)
  /\ Before(w, "update")
  /\ MayPostpone(request[w], tx[w].seen)
  /\ MayReserve(w)

\* UPDATE chore SET snoozed_for, from the row that was looked up.
UpdateSnoozed(w) ==
  LET r    == request[w]
      days == SnoozedRow(tx[w].seen, r.date, SnoozeFor(r)).snoozedFor
  IN
  /\ CanUpdateSnoozed(w)
  /\ Run(w, "reserved", "commit", NoChore,
         [chore |-> [chore EXCEPT ![r.id] =
                        IF @ = NoChore THEN @ ELSE [@ EXCEPT !.snoozedFor = days]],
          event |-> event])

-----------------------------------------------------------------------------
(* The ends of a transaction *)

CanStartCommit(w) == Before(w, "commit") /\ tx[w].lock = "reserved"

\* COMMIT: no new readers ...
StartCommit(w) ==
  /\ CanStartCommit(w)
  /\ Run(w, "pending", "commit", NoChore, draft)

CanCommit(w) == tx[w].lock = "pending" /\ MayCommit(w)

\* ... and then no readers.
Commit(w) ==
  /\ CanCommit(w)
  /\ chore' = draft.chore
  /\ event' = draft.event
  /\ Answer(w, "ok")
  /\ Ended(w)
  /\ UNCHANGED <<day, choreList, member, issued>>

\* tx.Rollback and an error page.
RollBack(w) ==
  /\ Abort(w)
  /\ Ended(w)

\* Mutant: a reader that would write waits for its turn like everybody else.
MustGiveUpOrWait(w) ==
  LET r == request[w] IN
  \/ Serving(w, "complete") /\ Before(w, "begin") /\ MayReserve(w) /\ ~CanHaveEvents(r.id)
  \/ Postponing(w) /\ Before(w, "begin") /\ MayRead(w) /\ ~Visible(r.user, r.id)
  \/ Postponing(w) /\ Before(w, "update") /\ ~MayPostpone(r, tx[w].seen)

\* The statement that is next fails for a reason the transaction knows: no such chore, a
\* chore that is not due, SQLITE_BUSY for a reader that would write.
MustGiveUp(w) ==
  LET r == request[w] IN
  \/ Serving(w, "complete") /\ Before(w, "begin") /\ MayReserve(w) /\ ~CanHaveEvents(r.id)
  \/ Postponing(w) /\ Before(w, "begin") /\ MayRead(w) /\ ~Visible(r.user, r.id)
  \/ Postponing(w) /\ Before(w, "update") /\ ~MayPostpone(r, tx[w].seen)
  \/ Postponing(w) /\ Before(w, "update") /\ ~MayReserve(w)

\* Mutant: a reader that finds the writer's place taken starts all over, its lock in hand.
GiveUpOrRestart(w) ==
  /\ MustGiveUp(w)
  /\ \/ RollBack(w)
     \/ Run(w, tx[w].lock, "begin", NoChore, draft)

GiveUp(w) == MustGiveUp(w) /\ RollBack(w)

\* COMMIT fails: the driver rolls back, the handler does not look.
LoseCommit(w) ==
  /\ Before(w, "commit")
  /\ Answer(w, "ok")
  /\ Ended(w)
  /\ UNCHANGED <<day, database>>

-----------------------------------------------------------------------------
(* Everybody else *)

\* The handlers that write with one statement.
AutoCommit(w) ==
  /\ MayCommit(w)
  /\ AddCommit(w) \/ UpdateCommit(w) \/ DeleteCommit(w)
  /\ UNCHANGED transactions

\* The short transactions on lists and members (Invites takes them apart).
ChangeLists ==
  /\ \A w \in Workers : tx[w].lock = "none"
  /\ \E u \in Users, l \in ChoreListIDs : CreateList(u, l) \/ LeaveList(u, l) \/ JoinList(u, l)
  /\ UNCHANGED transactions

\* The first steps write nothing; that a lookup may have to wait for a commit makes it a
\* later lookup.
Prepare(w) == FirstStep(w) /\ UNCHANGED transactions

\* The journal is rolled back when the database is opened again.
CrashT ==
  /\ Crash
  /\ tx' = [w \in Workers |-> Fresh]
  /\ draft' = NoDraft

-----------------------------------------------------------------------------

\* What a request does next by itself.
Proceed(w) ==
  \/ InsertEvent(w)
  \/ UpdateCompleted(w)
  \/ LookUp(w)
  \/ UpdateSnoozed(w)
  \/ StartCommit(w)
  \/ Commit(w)
  \/ GiveUp(w)
  \/ AutoCommit(w)

\* And what may happen to it: a busy timeout, a request that is cancelled, a full disk.
NextT ==
  \/ \E w \in Workers : Proceed(w) \/ Prepare(w) \/ RollBack(w) \/ LoseCommit(w)
  \/ ChangeLists
  \/ CrashT
  \/ Tick /\ UNCHANGED transactions

\* Goroutines run; that a timeout or a failure comes to their help is not assumed.
SpecT == InitT /\ [][NextT]_varsT /\ \A w \in Workers : WF_varsT(Proceed(w))

-----------------------------------------------------------------------------
(* What holds *)

\* Taken apart like this the transactions do what ChoreService says they do in one step:
\* the row a snooze is computed from is the row it is stored in, whatever other requests
\* complete, edit, snooze or delete between its statements, and a completion stores its
\* event and its row together or neither.
ImplementsService == Spec

\* A worker with a lock in hand waits for nobody.
CanGoOn(w) ==
  \/ CanUpdateCompleted(w)
  \/ CanUpdateSnoozed(w)
  \/ CanStartCommit(w)
  \/ CanCommit(w)
  \/ MustGiveUp(w)

\* Whoever waits with a lock in hand waits for somebody who waits for nobody: however
\* many requests there are, and whatever they have read and written so far, there is no
\* ring of them each of which has what the next one needs.
NobodyStuck ==
  \A w \in Workers :
    tx[w].lock # "none" => \E v \in Workers : tx[v].lock # "none" /\ CanGoOn(v)

\* How many statements a transaction with a lock has before it at most.
StatementsLeft(w) ==
  IF tx[w].lock = "none" THEN 0
  ELSE IF tx[w].lock = "pending" THEN 1
  ELSE IF tx[w].next = "commit" THEN 2
  ELSE IF tx[w].next = "update" THEN 3 ELSE 4

\* A transaction that has a lock never runs a statement twice and is not sent back by the
\* steps of another: each of its steps leaves it fewer to go.
StatementsRunOut ==
  [][\A w \in Workers :
       tx[w].lock # "none" =>
         tx'[w] = tx[w] \/ StatementsLeft(w)' < StatementsLeft(w)]_varsT

\* Nobody keeps a lock for good: two postponements that have both read the chore do not
\* wait for each other, a writer that waits for readers sees them go, and every way out
\* of a transaction gives up its locks, without the help of a timeout.  The two properties
\* before this one say why; that the goroutines run is all that is added to them.
LocksReleased == \A w \in Workers : tx[w].lock # "none" ~> tx[w].lock = "none"

=============================================================================
