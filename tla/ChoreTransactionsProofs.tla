---------------------- MODULE ChoreTransactionsProofs ----------------------
(***************************************************************************)
(* Proofs that the transactions of service.go, statement by statement over *)
(* the locks of SQLite, implement ChoreService, for any number of requests *)
(* in flight.  So whatever ChoreServiceProofs says of ChoreService holds   *)
(* of them.                                                                *)
(*                                                                         *)
(* A transaction carries what its statements have established so far       *)
(* (TxOK).  The locks keep it true: nobody changes the tables while a      *)
(* reader is in, and nobody but the writer has a draft.                    *)
(***************************************************************************)
EXTENDS ChoreTransactions, ChoreServiceProofs

\* The tables as the transaction of r leaves them.
Completed(r) ==
  [chore |-> [chore EXCEPT ![r.id] = IF Stored(r.id) THEN CompletedRow(@, r.date) ELSE @],
   event |-> EventAdded(r.id, r.date)]

Postponed(r) ==
  [chore |-> [chore EXCEPT ![r.id] = SnoozedRow(@, r.date, SnoozeFor(r))],
   event |-> event]

MayComplete(r) == CompleteRuns(r) /\ event[r.id][r.date] < MaxEvents

\* What the statements of a worker have established.
TxOK(w) ==
  LET r == request[w] IN
  /\ tx[w].next = "begin" => tx[w] = Fresh
  /\ tx[w].next # "begin" => Serving(w, "complete") \/ Postponing(w)
  /\ tx[w].next = "update" /\ Serving(w, "complete") =>
       /\ tx[w].lock = "reserved"
       /\ MayComplete(r)
       /\ draft = [chore |-> chore, event |-> EventAdded(r.id, r.date)]
  /\ tx[w].next = "update" /\ Postponing(w) =>
       /\ tx[w].lock = "shared"
       /\ Visible(r.user, r.id)
       /\ tx[w].seen = chore[r.id]
  /\ tx[w].next = "commit" => Writing(w)
  /\ tx[w].next = "commit" /\ Serving(w, "complete") => MayComplete(r) /\ draft = Completed(r)
  /\ tx[w].next = "commit" /\ Postponing(w) =>
       Visible(r.user, r.id) /\ MayPostpone(r, chore[r.id]) /\ draft = Postponed(r)

OneWriter == \A v, w \in Workers : Writing(v) /\ Writing(w) => v = w

TInv ==
  /\ IInv
  /\ TypeOKT
  /\ OneWriter
  /\ \A w \in Workers : TxOK(w)

-----------------------------------------------------------------------------
(* Where a transaction can stand *)

LEMMA Stands ==
  ASSUME TInv, NEW w \in Workers
  PROVE  /\ tx[w] \in Tx
         /\ tx[w].next \in {"begin", "update", "commit"}
         /\ Idle(w) => tx[w] = Fresh
         /\ ~Serving(w, "complete") /\ ~Postponing(w) => tx[w] = Fresh
         /\ tx[w].lock = "none" <=> tx[w] = Fresh
         /\ tx[w].lock = "pending" => tx[w].next = "commit"
<1>1. tx[w] \in Tx /\ TxOK(w)
  BY DEF TInv, TypeOKT
<1>2. tx[w].next \in {"begin", "update", "commit"}
  BY <1>1 DEF Tx
<1>3. Idle(w) => ~Serving(w, "complete") /\ ~Postponing(w)
  BY DEF Serving, Postponing
<1>4. Fresh.lock = "none"
  BY DEF Fresh
<1>5. tx[w].next = "begin" => tx[w] = Fresh
  BY <1>1 DEF TxOK
<1>6. tx[w].next = "update" => tx[w].lock \in {"reserved", "shared"}
  BY <1>1 DEF TxOK
<1>7. tx[w].next = "commit" => tx[w].lock \in {"reserved", "pending"}
  BY <1>1 DEF TxOK, Writing
<1>8. tx[w].next # "begin" => Serving(w, "complete") \/ Postponing(w)
  BY <1>1 DEF TxOK
<1>9. tx[w].lock = "none" <=> tx[w] = Fresh
  BY <1>2, <1>4, <1>5, <1>6, <1>7
<1>10. tx[w].lock = "pending" => tx[w].next = "commit"
  BY <1>2, <1>4, <1>5, <1>6
<1> QED BY <1>1, <1>2, <1>3, <1>5, <1>8, <1>9, <1>10

\* A transaction that others run beside: nothing it has established is undone, if what it
\* holds a lock for is left alone.
LEMMA OtherTx ==
  ASSUME TInv, NEW v \in Workers, tx'[v] = tx[v], request'[v] = request[v],
         tx[v].lock # "none" => chore' = chore /\ event' = event /\ member' = member,
         Writing(v) => draft' = draft
  PROVE  TxOK(v)'
<1>1. TxOK(v)
  BY DEF TInv
<1>2. CASE tx[v] = Fresh
  BY <1>2 DEF TxOK, Fresh, Writing
<1>3. CASE tx[v] # Fresh
  <2>1. chore' = chore /\ event' = event /\ member' = member
    BY <1>3, Stands
  <2>2. tx[v].lock = "reserved" => Writing(v)
    BY DEF Writing
  <2>3. tx[v].next = "commit" => draft' = draft
    BY <1>1 DEF TxOK
  <2>4. tx[v].next = "update" /\ Serving(v, "complete") => draft' = draft
    BY <1>1, <2>2 DEF TxOK
  <2> QED
    BY <1>1, <2>1, <2>3, <2>4
       DEF TxOK, Serving, Postponing, Idle, MayComplete, CompleteRuns, CanHaveEvents, Stored,
           EventAdded, Visible, Writing, Completed, Postponed, SnoozeFor, MayPostpone
<1> QED BY <1>2, <1>3

-----------------------------------------------------------------------------
(* A step of one transaction *)

LEMMA FreshType == Fresh \in Tx /\ Fresh.lock = "none"
BY DEF Fresh, Tx, Locks

\* It leaves the others as they were, if it has the locks for what it does.
LEMMA OneTransaction ==
  ASSUME TInv, IInv', NEW w \in Workers, NEW new \in Tx, tx' = [tx EXCEPT ![w] = new],
         \A v \in Workers \ {w} : request'[v] = request[v],
         \A v \in Workers \ {w} :
           tx[v].lock # "none" => chore' = chore /\ event' = event /\ member' = member,
         draft' \in Tables \cup {NoDraft},
         new.lock \in {"reserved", "pending"} =>
           draft' # NoDraft /\ \A v \in Workers \ {w} : ~Writing(v),
         new.lock \notin {"reserved", "pending"} =>
           draft' = IF Writing(w) THEN NoDraft ELSE draft,
         TxOK(w)'
  PROVE  TInv'
<1>1. /\ tx' \in [Workers -> Tx]
      /\ tx'[w] = new
      /\ \A v \in Workers \ {w} : tx'[v] = tx[v]
  BY DEF TInv, TypeOKT
<1>2. /\ Writing(w)' <=> new.lock \in {"reserved", "pending"}
      /\ \A v \in Workers \ {w} : Writing(v)' <=> Writing(v)
  BY <1>1 DEF Writing
<1>3. \A v \in Workers \ {w} : Writing(w) => ~Writing(v)
  BY DEF TInv, OneWriter
<1>4. OneWriter'
  BY <1>2 DEF TInv, OneWriter
<1>5. draft # NoDraft <=> \E v \in Workers : Writing(v)
  BY DEF TInv, TypeOKT
<1>6. (draft # NoDraft)' <=> \E v \in Workers : Writing(v)'
  <2>1. CASE new.lock \in {"reserved", "pending"}
    BY <1>2, <2>1
  <2>2. CASE new.lock \notin {"reserved", "pending"} /\ Writing(w)
    BY <1>2, <1>3, <2>2
  <2>3. CASE new.lock \notin {"reserved", "pending"} /\ ~Writing(w)
    BY <1>2, <1>5, <2>3
  <2> QED BY <2>1, <2>2, <2>3
<1>7. TypeOKT'
  BY <1>1, <1>6 DEF TypeOKT, IInv
<1>8. ASSUME NEW v \in Workers \ {w}
      PROVE  TxOK(v)'
  <2>1. Writing(v) => draft' = draft
    BY <1>3, <1>8
  <2> QED BY <1>1, <1>8, <2>1, OtherTx
<1> QED BY <1>4, <1>7, <1>8 DEF TInv

\* What the locks say of the others.
LEMMA LocksExclude ==
  ASSUME TInv, NEW w \in Workers
  PROVE  /\ MayReserve(w) => \A v \in Workers \ {w} : ~Writing(v)
         /\ Writing(w) => \A v \in Workers \ {w} : ~Writing(v)
         /\ MayCommit(w) => \A v \in Workers \ {w} : tx[v].lock = "none"
<1>1. MayReserve(w) => \A v \in Workers \ {w} : ~Writing(v)
  BY DEF MayReserve, OtherLocks, Writing
<1>2. Writing(w) => \A v \in Workers \ {w} : ~Writing(v)
  BY DEF TInv, OneWriter
<1>3. MayCommit(w) => \A v \in Workers \ {w} : tx[v].lock = "none"
  BY DEF MayCommit, OtherLocks
<1> QED BY <1>1, <1>2, <1>3

\* A statement of a transaction: the tables that others see stay.
LEMMA StatementInvariant ==
  ASSUME TInv, NEW w \in Workers, NEW lock \in {"shared", "reserved", "pending"},
         NEW next \in {"update", "commit"}, NEW seen \in Row \cup {NoChore}, NEW tables,
         Run(w, lock, next, seen, tables),
         lock # "shared" => MayReserve(w) \/ Writing(w),
         lock # "shared" => tables \in Tables,
         lock = "shared" => tables = draft /\ ~Writing(w),
         TxOK(w)'
  PROVE  TInv'
<1> DEFINE new == [lock |-> lock, next |-> next, seen |-> seen]
<1>1. new \in Tx
  BY DEF Tx, Locks
<1>2. /\ tx' = [tx EXCEPT ![w] = new]
      /\ draft' = tables
      /\ UNCHANGED vars
  BY DEF Run
<1>3. IInv'
  BY <1>2, StutterInvariant DEF TInv
<1>4. draft' \in Tables \cup {NoDraft}
  BY <1>2 DEF TInv, TypeOKT
<1>5. /\ request' = request
      /\ chore' = chore /\ event' = event /\ member' = member
  BY <1>2 DEF vars
<1>6. lock # "shared" => draft' # NoDraft /\ \A v \in Workers \ {w} : ~Writing(v)
  BY <1>2, LocksExclude, TransactionAssumption
<1>7. new.lock = lock
  OBVIOUS
<1> HIDE DEF new
<1> QED BY <1>1, <1>2, <1>3, <1>4, <1>5, <1>6, <1>7, OneTransaction

\* The end of a transaction, when its request is answered.
LEMMA EndInvariant ==
  ASSUME TInv, IInv', NEW w \in Workers, NEW a \in {"ok", "error"}, Answer(w, a), Ended(w),
         \A v \in Workers \ {w} :
           tx[v].lock # "none" => chore' = chore /\ event' = event /\ member' = member
  PROVE  TInv'
<1>1. /\ tx' = [tx EXCEPT ![w] = Fresh]
      /\ draft' = IF Writing(w) THEN NoDraft ELSE draft
  BY DEF Ended
<1>2. draft' \in Tables \cup {NoDraft}
  BY <1>1 DEF TInv, TypeOKT
<1>3. /\ request'[w] = NoRequest
      /\ \A v \in Workers \ {w} : request'[v] = request[v]
  BY AnswerFacts DEF TInv, IInv
<1>4. TxOK(w)'
  BY <1>1, FreshType DEF TxOK, Fresh, Writing, TInv, TypeOKT
<1> QED BY <1>1, <1>2, <1>3, <1>4, FreshType, OneTransaction

-----------------------------------------------------------------------------
(* The statements *)

\* The request a transaction serves.
LEMMA Served ==
  ASSUME TInv, NEW w \in Workers, ~Idle(w)
  PROVE  /\ TypeOK /\ TxOK(w)
         /\ request[w].id \in ChoreIDs
         /\ request[w].date \in Date
         /\ Visible(request[w].user, request[w].id) =>
              Stored(request[w].id) /\ chore[request[w].id] \in Row
<1>1. TypeOK /\ TxOK(w) /\ IInv
  BY DEF TInv, TypeOKT
<1> QED BY <1>1, RequestFacts, RowType DEF Visible

\* The tables a draft is made of.
LEMMA EventType ==
  ASSUME TypeOK, NEW c \in ChoreIDs, NEW d \in Date
  PROVE  EventAdded(c, d) \in [ChoreIDs -> [Date -> Nat]]
BY DEF TypeOK, EventAdded

LEMMA InsertEventInvariant ==
  ASSUME TInv, NEW w \in Workers, InsertEvent(w)
  PROVE  TInv'
<1> DEFINE r == request[w]
           tables == [chore |-> chore, event |-> EventAdded(r.id, r.date)]
<1>1. ~Idle(w) /\ Serving(w, "complete") /\ ~Postponing(w)
  BY DEF InsertEvent, Serving, Postponing
<1>2. /\ Run(w, "reserved", "update", NoChore, tables)
      /\ MayReserve(w)
      /\ MayComplete(r)
  BY DEF InsertEvent, MayComplete, CompleteRuns
<1>3. tables \in Tables
  BY <1>1, Served, EventType DEF Tables, TypeOK
<1>4. /\ tx'[w] = [lock |-> "reserved", next |-> "update", seen |-> NoChore]
      /\ draft' = tables
      /\ UNCHANGED vars
  BY <1>2 DEF Run, TInv, TypeOKT
<1>5. TxOK(w)'
  BY <1>1, <1>2, <1>4
     DEF TxOK, Serving, Postponing, Idle, Writing, MayComplete, CompleteRuns, CanHaveEvents,
         Stored, EventAdded, vars
<1> HIDE DEF tables
<1> QED BY <1>2, <1>3, <1>5, StatementInvariant

LEMMA UpdateCompletedInvariant ==
  ASSUME TInv, NEW w \in Workers, UpdateCompleted(w)
  PROVE  TInv'
<1> DEFINE r == request[w]
           tables == [draft EXCEPT !.chore[r.id] =
                        IF @ = NoChore THEN @ ELSE CompletedRow(@, r.date)]
<1>1. /\ ~Idle(w) /\ Serving(w, "complete") /\ ~Postponing(w)
      /\ tx[w].next = "update"
  BY DEF UpdateCompleted, CanUpdateCompleted, Before, Serving, Postponing
<1>2. /\ tx[w].lock = "reserved"
      /\ MayComplete(r)
      /\ draft = [chore |-> chore, event |-> EventAdded(r.id, r.date)]
  BY <1>1, Served DEF TxOK
<1>3. tables = Completed(r)
  BY <1>2 DEF Completed, Stored
<1>4. Completed(r) \in Tables
  <2>1. r.date \in RealDate
    BY <1>1, <1>2, Served, DatesAreNumbers DEF MayComplete, CompleteRuns, RealDate, Date, ZeroDate
  <2>2. Stored(r.id) => CompletedRow(chore[r.id], r.date) \in Row
    BY <1>1, <2>1, Served, RowType, CompletedRowFacts
  <2>3. Completed(r).chore \in [ChoreIDs -> Row \cup {NoChore}]
    BY <1>1, <2>2, Served DEF Completed, TypeOK, Stored
  <2> QED BY <1>1, <2>3, Served, EventType DEF Completed, Tables
<1>5. /\ Run(w, "reserved", "commit", NoChore, Completed(r))
      /\ Writing(w)
  BY <1>2, <1>3 DEF UpdateCompleted, Writing
<1>6. /\ tx'[w] = [lock |-> "reserved", next |-> "commit", seen |-> NoChore]
      /\ draft' = Completed(r)
      /\ UNCHANGED vars
  BY <1>5 DEF Run, TInv, TypeOKT
<1>7. TxOK(w)'
  BY <1>1, <1>2, <1>6
     DEF TxOK, Serving, Postponing, Idle, Writing, MayComplete, CompleteRuns, CanHaveEvents,
         Stored, EventAdded, Completed, vars
<1> QED BY <1>4, <1>5, <1>7, StatementInvariant

LEMMA LookUpInvariant ==
  ASSUME TInv, NEW w \in Workers, LookUp(w)
  PROVE  TInv'
<1> DEFINE r == request[w]
<1>1. /\ ~Idle(w) /\ Postponing(w) /\ ~Serving(w, "complete")
      /\ tx[w].next = "begin"
  BY DEF LookUp, Before, Serving, Postponing
<1>2. ~Writing(w)
  BY <1>1, Served, FreshType DEF TxOK, Writing
<1>3. Run(w, "shared", "update", chore[r.id], draft) /\ Visible(r.user, r.id)
  BY DEF LookUp
<1>4. chore[r.id] \in Row \cup {NoChore}
  BY <1>1, Served DEF TypeOK
<1>5. /\ tx'[w] = [lock |-> "shared", next |-> "update", seen |-> chore[r.id]]
      /\ UNCHANGED vars
  BY <1>3 DEF Run, TInv, TypeOKT
<1>6. TxOK(w)'
  BY <1>1, <1>3, <1>5 DEF TxOK, Serving, Postponing, Idle, Writing, Visible, Stored, vars
<1> QED BY <1>2, <1>3, <1>4, <1>6, StatementInvariant

LEMMA UpdateSnoozedInvariant ==
  ASSUME TInv, NEW w \in Workers, UpdateSnoozed(w)
  PROVE  TInv'
<1> DEFINE r == request[w]
           days == SnoozedRow(tx[w].seen, r.date, SnoozeFor(r)).snoozedFor
           tables == [chore |-> [chore EXCEPT ![r.id] =
                                   IF @ = NoChore THEN @ ELSE [@ EXCEPT !.snoozedFor = days]],
                      event |-> event]
<1>1. /\ ~Idle(w) /\ Postponing(w) /\ ~Serving(w, "complete")
      /\ tx[w].next = "update"
  BY DEF UpdateSnoozed, CanUpdateSnoozed, Before, Serving, Postponing
<1>2. /\ Visible(r.user, r.id)
      /\ tx[w].seen = chore[r.id]
      /\ Stored(r.id) /\ chore[r.id] \in Row
  BY <1>1, Served DEF TxOK
<1>3. MayPostpone(r, chore[r.id]) /\ MayReserve(w)
      /\ Run(w, "reserved", "commit", NoChore, tables)
  BY <1>2 DEF UpdateSnoozed, CanUpdateSnoozed
<1>4. [chore[r.id] EXCEPT !.snoozedFor = days] = SnoozedRow(chore[r.id], r.date, SnoozeFor(r))
  BY <1>2 DEF SnoozedRow, Row
<1>5. tables = Postponed(r)
  BY <1>2, <1>4 DEF Postponed, Stored
<1>6. Postponed(r) \in Tables
  <2>1. r.date \in Int /\ SnoozeFor(r) \in Int
    BY <1>1, Served, DatesAreNumbers DEF SnoozeFor, OneDay
  <2>2. SnoozedRow(chore[r.id], r.date, SnoozeFor(r)) \in Row
    BY <1>2, <2>1, SnoozeLands
  <2> QED BY <1>1, <2>2, Served DEF Postponed, Tables, TypeOK
<1>7. /\ tx'[w] = [lock |-> "reserved", next |-> "commit", seen |-> NoChore]
      /\ draft' = Postponed(r)
      /\ UNCHANGED vars
  BY <1>3, <1>5 DEF Run, TInv, TypeOKT
<1>8. TxOK(w)'
  BY <1>1, <1>2, <1>3, <1>7
     DEF TxOK, Serving, Postponing, Idle, Writing, Visible, Stored, MayPostpone, Postponed,
         SnoozeFor, vars
<1> HIDE DEF tables
<1> QED BY <1>3, <1>5, <1>6, <1>8, StatementInvariant

LEMMA StartCommitInvariant ==
  ASSUME TInv, NEW w \in Workers, StartCommit(w)
  PROVE  TInv'
<1>1. ~Idle(w) /\ tx[w].next = "commit" /\ Writing(w)
  BY DEF StartCommit, CanStartCommit, Before, Writing
<1>2. Run(w, "pending", "commit", NoChore, draft)
  BY DEF StartCommit
<1>3. draft \in Tables
  BY <1>1 DEF TInv, TypeOKT
<1>4. /\ tx'[w] = [lock |-> "pending", next |-> "commit", seen |-> NoChore]
      /\ draft' = draft
      /\ UNCHANGED vars
  BY <1>2 DEF Run, TInv, TypeOKT
<1>5. TxOK(w)'
  BY <1>1, <1>4, Served
     DEF TxOK, Serving, Postponing, Idle, Writing, MayComplete, CompleteRuns, CanHaveEvents,
         Stored, EventAdded, Visible, Completed, Postponed, SnoozeFor, MayPostpone, vars
<1> QED BY <1>1, <1>2, <1>3, <1>5, StatementInvariant

-----------------------------------------------------------------------------
(* The ends of a transaction *)

\* A transaction that is to commit has done all that ChoreService does in one step.
LEMMA ReadyToCommit ==
  ASSUME TInv, NEW w \in Workers, ~Idle(w), tx[w].next = "commit"
  PROVE  /\ \/ Serving(w, "complete") /\ MayComplete(request[w]) /\ draft = Completed(request[w])
            \/ /\ Serving(w, "snooze") /\ SnoozeRuns(request[w])
               /\ draft = Postponed(request[w]) /\ SnoozeFor(request[w]) = OneDay
            \/ /\ Serving(w, "expedite") /\ ExpediteRuns(request[w])
               /\ draft = Postponed(request[w]) /\ SnoozeFor(request[w]) = 0
         /\ Writing(w)
BY Served DEF TxOK, Postponing, Serving, SnoozeRuns, ExpediteRuns, MayPostpone, SnoozeFor

LEMMA CommitIsCommit ==
  ASSUME TInv, NEW w \in Workers, Commit(w)
  PROVE  CompleteCommit(w) \/ SnoozeCommit(w) \/ ExpediteCommit(w)
<1> DEFINE r == request[w]
<1>1. tx[w].lock = "pending"
  BY DEF Commit, CanCommit
<1>2. ~Idle(w) /\ tx[w].next = "commit"
  BY <1>1, Stands, FreshType
<1>3. /\ chore' = draft.chore /\ event' = draft.event
      /\ Answer(w, "ok")
      /\ UNCHANGED <<day, choreList, member, issued>>
  BY DEF Commit
<1>4. CASE Serving(w, "complete") /\ MayComplete(r) /\ draft = Completed(r)
  BY <1>3, <1>4 DEF CompleteCommit, MayComplete, Completed
<1>5. CASE Serving(w, "snooze") /\ SnoozeRuns(r) /\ draft = Postponed(r) /\ SnoozeFor(r) = OneDay
  BY <1>3, <1>5 DEF SnoozeCommit, Postponed
<1>6. CASE Serving(w, "expedite") /\ ExpediteRuns(r) /\ draft = Postponed(r) /\ SnoozeFor(r) = 0
  BY <1>3, <1>6 DEF ExpediteCommit, Postponed
<1> QED BY <1>2, <1>4, <1>5, <1>6, ReadyToCommit

LEMMA LoseCommitIsCommitLost ==
  ASSUME TInv, NEW w \in Workers, LoseCommit(w)
  PROVE  CommitLost(w)
<1>1. ~Idle(w) /\ tx[w].next = "commit"
  BY DEF LoseCommit, Before
<1> QED BY <1>1, ReadyToCommit DEF LoseCommit, CommitLost, MayComplete

LEMMA CommitInvariant ==
  ASSUME TInv, NEW w \in Workers, Commit(w)
  PROVE  TInv'
<1>1. IInv'
  BY CommitIsCommit, CompleteCommits, PostponementCommits DEF TInv
<1>2. \A v \in Workers \ {w} : tx[v].lock = "none"
  BY LocksExclude DEF Commit, CanCommit
<1> QED BY <1>1, <1>2, EndInvariant DEF Commit

LEMMA LoseCommitInvariant ==
  ASSUME TInv, NEW w \in Workers, LoseCommit(w)
  PROVE  TInv'
<1>1. IInv'
  BY LoseCommitIsCommitLost, NextInvariant DEF TInv, Next, SecondStep
<1> QED BY <1>1, EndInvariant DEF LoseCommit, database

LEMMA RollBackInvariant ==
  ASSUME TInv, NEW w \in Workers, RollBack(w)
  PROVE  TInv'
<1>1. IInv'
  BY NextInvariant DEF TInv, Next, SecondStep, RollBack
<1> QED BY <1>1, EndInvariant DEF RollBack, Abort, database

-----------------------------------------------------------------------------
(* Everybody else *)

\* A step that is no statement of a transaction.
LEMMA BesidesInvariant ==
  ASSUME TInv, IInv', UNCHANGED transactions,
         \A v \in Workers :
           \/ /\ request'[v] = request[v]
              /\ tx[v].lock # "none" => chore' = chore /\ event' = event /\ member' = member
           \/ tx[v] = Fresh
  PROVE  TInv'
<1>1. tx' = tx /\ draft' = draft
  BY DEF transactions
<1>2. TypeOKT' /\ OneWriter'
  BY <1>1 DEF TInv, TypeOKT, OneWriter, Writing, IInv
<1>3. ASSUME NEW v \in Workers
      PROVE  TxOK(v)'
  <2>1. CASE tx[v] = Fresh
    BY <1>1, <2>1 DEF TxOK, Fresh, Writing
  <2>2. CASE tx[v] # Fresh
    BY <1>1, <1>3, <2>2, OtherTx
  <2> QED BY <2>1, <2>2
<1> QED BY <1>2, <1>3 DEF TInv

LEMMA AutoCommitInvariant ==
  ASSUME TInv, NEW w \in Workers, AutoCommit(w)
  PROVE  TInv'
<1>1. AddCommit(w) \/ UpdateCommit(w) \/ DeleteCommit(w)
  BY DEF AutoCommit
<1>2. IInv'
  BY <1>1, NextInvariant DEF TInv, Next, SecondStep
<1>3. tx[w] = Fresh
  BY <1>1, Stands DEF AddCommit, UpdateCommit, DeleteCommit, Serving, Postponing
<1>4. Answer(w, "ok")
  BY <1>1 DEF AddCommit, UpdateCommit, DeleteCommit
<1>5. \A v \in Workers \ {w} : request'[v] = request[v]
  BY <1>4, AnswerFacts DEF TInv, IInv
<1>6. \A v \in Workers \ {w} : tx[v].lock = "none"
  BY LocksExclude DEF AutoCommit
<1> QED BY <1>2, <1>3, <1>5, <1>6, BesidesInvariant DEF AutoCommit

LEMMA ChangeListsInvariant ==
  ASSUME TInv, ChangeLists
  PROVE  TInv'
<1>1. IInv'
  BY NextInvariant DEF TInv, Next, ChangeLists
<1>2. \A v \in Workers : tx[v].lock = "none"
  BY DEF ChangeLists
<1>3. request' = request
  BY DEF ChangeLists, CreateList, LeaveList, JoinList
<1> QED BY <1>1, <1>2, <1>3, BesidesInvariant DEF ChangeLists

LEMMA PrepareInvariant ==
  ASSUME TInv, NEW w \in Workers, Prepare(w)
  PROVE  TInv'
<1>1. IInv'
  BY NextInvariant DEF TInv, Next, Prepare
<1>2. /\ UNCHANGED database
      /\ \A v \in Workers \ {w} : request'[v] = request[v]
  BY DEF Prepare, FirstStep, Refuse, DateCompletion, BeginAdd, BeginComplete, BeginSnooze,
         BeginExpedite, BeginUpdate, BeginDelete, Begin, Answer, TInv, IInv, TypeOK
<1>3. tx[w] = Fresh
  <2>1. CASE Idle(w)
    BY <2>1, Stands
  <2>2. CASE DateCompletion(w)
    <3>1. ~Idle(w) /\ Serving(w, "complete") /\ ~MayComplete(request[w])
      BY <2>2 DEF DateCompletion, Serving, MayComplete, CompleteRuns
    <3>2. TxOK(w) /\ tx[w].next \in {"begin", "update", "commit"}
      BY Stands DEF TInv
    <3> QED BY <3>1, <3>2 DEF TxOK
  <2>3. Idle(w) \/ DateCompletion(w)
    BY DEF Prepare, FirstStep, Refuse, BeginAdd, BeginComplete, BeginSnooze, BeginExpedite,
           BeginUpdate, BeginDelete
  <2> QED BY <2>1, <2>2, <2>3
<1> QED BY <1>1, <1>2, <1>3, BesidesInvariant DEF Prepare, database

LEMMA TickTInvariant ==
  ASSUME TInv, Tick, UNCHANGED transactions
  PROVE  TInv'
BY TickInvariant, BesidesInvariant DEF TInv, Tick, database

LEMMA StutterTInvariant ==
  ASSUME TInv, UNCHANGED varsT
  PROVE  TInv'
BY StutterInvariant, BesidesInvariant DEF TInv, varsT, vars

\* After a crash nobody stands anywhere.
LEMMA AllFresh ==
  ASSUME IInv', tx' = [w \in Workers |-> Fresh], draft' = NoDraft
  PROVE  TInv'
<1>1. tx' \in [Workers -> Tx] /\ \A w \in Workers : tx'[w] = Fresh /\ ~Writing(w)'
  BY FreshType DEF Writing
<1>2. TypeOKT' /\ OneWriter'
  BY <1>1 DEF TypeOKT, OneWriter, IInv
<1>3. \A w \in Workers : TxOK(w)'
  BY <1>1 DEF TxOK, Fresh
<1> QED BY <1>2, <1>3 DEF TInv

-----------------------------------------------------------------------------
(* The theorems *)

\* Every statement is a step of the service or none.
LEMMA StepRefined ==
  ASSUME TInv, [NextT]_varsT
  PROVE  [Next]_vars
<1>1. CASE UNCHANGED varsT
  BY <1>1 DEF varsT
<1>2. ASSUME NEW w \in Workers, Proceed(w)
      PROVE  [Next]_vars
  <2>1. CASE InsertEvent(w) \/ UpdateCompleted(w) \/ LookUp(w) \/ UpdateSnoozed(w) \/ StartCommit(w)
    BY <2>1 DEF InsertEvent, UpdateCompleted, LookUp, UpdateSnoozed, StartCommit, Run
  <2>2. CASE Commit(w)
    BY <2>2, CommitIsCommit DEF Next, SecondStep
  <2>3. CASE GiveUp(w)
    BY <2>3 DEF GiveUp, RollBack, Next, SecondStep
  <2>4. CASE AutoCommit(w)
    BY <2>4 DEF AutoCommit, Next, SecondStep
  <2> QED BY <1>2, <2>1, <2>2, <2>3, <2>4 DEF Proceed
<1>3. ASSUME NEW w \in Workers, Prepare(w) \/ RollBack(w) \/ LoseCommit(w)
      PROVE  [Next]_vars
  BY <1>3, LoseCommitIsCommitLost DEF Prepare, RollBack, Next, SecondStep
<1>4. CASE ChangeLists \/ CrashT \/ (Tick /\ UNCHANGED transactions)
  BY <1>4 DEF ChangeLists, CrashT, Next
<1> QED BY <1>1, <1>2, <1>3, <1>4 DEF NextT

LEMMA TStep ==
  ASSUME TInv, [NextT]_varsT
  PROVE  TInv'
<1>1. ASSUME NEW w \in Workers, Proceed(w)
      PROVE  TInv'
  <2>1. GiveUp(w) => RollBack(w)
    BY DEF GiveUp
  <2> QED
    BY <1>1, <2>1, InsertEventInvariant, UpdateCompletedInvariant, LookUpInvariant,
       UpdateSnoozedInvariant, StartCommitInvariant, CommitInvariant, RollBackInvariant,
       AutoCommitInvariant
       DEF Proceed
<1>2. CASE CrashT
  BY <1>2, CrashInvariant, AllFresh DEF CrashT, TInv
<1> QED
  BY <1>1, <1>2, PrepareInvariant, RollBackInvariant, LoseCommitInvariant,
     ChangeListsInvariant, TickTInvariant, StutterTInvariant
     DEF NextT

LEMMA TInit == InitT => TInv
BY InitInvariant DEF InitT, TInv, TypeOKT, IInv, OneWriter, TxOK, Fresh, Writing, Tx, Locks

\* What the statements of a transaction have established is still true when the next one
\* is run, whoever was served in between.
THEOREM TransactionsIsolated == SpecT => []TInv
BY TInit, TStep, PTL DEF SpecT

\* Types, and a draft exactly when somebody is the writer.
THEOREM TransactionTypes == SpecT => []TypeOKT
<1>1. TInv => TypeOKT
  BY DEF TInv
<1> QED BY <1>1, TransactionsIsolated, PTL

\* Taken apart into their statements, the transactions of Complete and changeSnooze do
\* what ChoreService has them do in one step.
THEOREM ServiceImplemented == SpecT => ImplementsService
<1>1. InitT => Init
  BY DEF InitT
<1> QED BY <1>1, StepRefined, TransactionsIsolated, PTL DEF SpecT, Spec, ImplementsService

\* And so the household's ledger is kept, statement by statement.
THEOREM LedgerKept == SpecT => ImplementsLedger
BY ServiceImplemented, LedgerImplemented DEF ImplementsService

-----------------------------------------------------------------------------
(* Nobody is stuck *)

\* A worker with a lock in hand waits only where it commits.
LEMMA OnlyCommitWaits ==
  ASSUME TInv, NEW w \in Workers, tx[w].lock # "none"
  PROVE  CanGoOn(w) \/ (tx[w].lock = "pending" /\ ~MayCommit(w))
<1>1. /\ ~Idle(w)
      /\ tx[w].next \in {"update", "commit"}
      /\ Serving(w, "complete") \/ Postponing(w)
      /\ TxOK(w)
  BY Stands, FreshType DEF TInv, TxOK
<1>2. CASE tx[w].next = "update" /\ Serving(w, "complete")
  BY <1>1, <1>2 DEF CanGoOn, CanUpdateCompleted, Before
<1>3. CASE tx[w].next = "update" /\ Postponing(w)
  BY <1>1, <1>3 DEF CanGoOn, CanUpdateSnoozed, MustGiveUp, Before
<1>4. CASE tx[w].next = "commit"
  BY <1>1, <1>4 DEF CanGoOn, CanStartCommit, CanCommit, Before, TxOK, Writing
<1> QED BY <1>1, <1>2, <1>3, <1>4

\* And those it then waits for are readers, who go on or give up.
LEMMA ReadersGo ==
  ASSUME TInv, NEW w \in Workers, tx[w].lock = "pending", ~MayCommit(w)
  PROVE  \E v \in Workers : tx[v].lock # "none" /\ CanGoOn(v)
<1>1. PICK v \in Workers \ {w} : tx[v].lock # "none"
  BY DEF MayCommit, OtherLocks
<1>2. ~Writing(v)
  BY <1>1 DEF TInv, OneWriter, Writing
<1> QED BY <1>1, <1>2, OnlyCommitWaits DEF Writing

\* Deadlock freedom for any number of requests: as long as somebody holds a lock,
\* somebody who holds one can run its next statement or gives up by itself.
THEOREM NoDeadlock == SpecT => []NobodyStuck
<1>1. TInv => NobodyStuck
  BY OnlyCommitWaits, ReadersGo DEF NobodyStuck
<1> QED BY <1>1, TransactionsIsolated, PTL

\* A statement of w, or the end of its transaction, leaves it fewer to go.
LEMMA OwnStatement ==
  ASSUME TInv, NEW w \in Workers, tx[w].lock # "none",
         \/ InsertEvent(w) \/ UpdateCompleted(w) \/ LookUp(w) \/ UpdateSnoozed(w)
         \/ StartCommit(w) \/ Ended(w)
  PROVE  StatementsLeft(w)' < StatementsLeft(w)
<1>1. /\ tx \in [Workers -> Tx]
      /\ tx[w].next \in {"update", "commit"}
      /\ tx[w].lock = "pending" => tx[w].next = "commit"
  BY Stands, FreshType DEF TInv, TypeOKT, TxOK
<1>2. ~InsertEvent(w) /\ ~LookUp(w)
  BY <1>1 DEF InsertEvent, LookUp, Before
<1>3. CASE UpdateCompleted(w) \/ UpdateSnoozed(w)
  <2>1. tx[w].next = "update"
    BY <1>3 DEF UpdateCompleted, CanUpdateCompleted, UpdateSnoozed, CanUpdateSnoozed, Before
  <2>2. StatementsLeft(w) = 3
    BY <1>1, <2>1 DEF StatementsLeft
  <2>3. tx'[w].lock = "reserved" /\ tx'[w].next = "commit"
    BY <1>1, <1>3 DEF UpdateCompleted, UpdateSnoozed, Run
  <2>4. StatementsLeft(w)' = 2
    BY <2>3 DEF StatementsLeft
  <2> QED BY <2>2, <2>4
<1>4. CASE StartCommit(w)
  <2>1. tx[w].next = "commit" /\ tx[w].lock = "reserved"
    BY <1>4 DEF StartCommit, CanStartCommit, Before
  <2>2. StatementsLeft(w) = 2
    BY <2>1 DEF StatementsLeft
  <2>3. tx'[w].lock = "pending"
    BY <1>1, <1>4 DEF StartCommit, Run
  <2>4. StatementsLeft(w)' = 1
    BY <2>3 DEF StatementsLeft
  <2> QED BY <2>2, <2>4
<1>5. CASE Ended(w)
  <2>1. tx'[w].lock = "none"
    BY <1>1, <1>5, FreshType DEF Ended
  <2>2. StatementsLeft(w)' = 0
    BY <2>1 DEF StatementsLeft
  <2>3. StatementsLeft(w) \in 1 .. 4
    BY DEF StatementsLeft
  <2> QED BY <2>2, <2>3
<1> QED BY <1>2, <1>3, <1>4, <1>5

\* A statement or an end of the transaction of v.
StepOf(v) ==
  \/ InsertEvent(v) \/ UpdateCompleted(v) \/ LookUp(v) \/ UpdateSnoozed(v)
  \/ StartCommit(v) \/ Ended(v)

\* It moves v's transaction only.
LEMMA OthersStay ==
  ASSUME TInv, NEW v \in Workers, NEW w \in Workers, v # w, StepOf(v)
  PROVE  tx'[w] = tx[w]
BY DEF StepOf, InsertEvent, UpdateCompleted, LookUp, UpdateSnoozed, StartCommit, Ended, Run,
       TInv, TypeOKT

\* Every step moves the transaction of one worker, of all, or of none.
LEMMA WhoMoves ==
  ASSUME [NextT]_varsT
  PROVE  \/ tx' = tx
         \/ tx' = [w \in Workers |-> Fresh]
         \/ \E v \in Workers : StepOf(v)
<1>1. ASSUME NEW v \in Workers, Proceed(v)
      PROVE  tx' = tx \/ StepOf(v)
  BY <1>1 DEF Proceed, StepOf, Commit, GiveUp, RollBack, AutoCommit, transactions
<1>2. ASSUME NEW v \in Workers, Prepare(v) \/ RollBack(v) \/ LoseCommit(v)
      PROVE  tx' = tx \/ StepOf(v)
  BY <1>2 DEF Prepare, RollBack, LoseCommit, StepOf, transactions
<1> QED BY <1>1, <1>2 DEF NextT, ChangeLists, CrashT, varsT, transactions

\* Every transaction with a lock comes nearer to its end with each of its steps, and no
\* other request sends it back.
THEOREM NoStatementTwice == SpecT => StatementsRunOut
<1>1. ASSUME TInv, [NextT]_varsT, NEW w \in Workers, tx[w].lock # "none"
      PROVE  tx'[w] = tx[w] \/ StatementsLeft(w)' < StatementsLeft(w)
  <2>1. CASE tx' = tx
    BY <2>1
  <2>2. CASE tx' = [v \in Workers |-> Fresh]
    <3>1. StatementsLeft(w)' = 0
      BY <2>2, FreshType DEF StatementsLeft
    <3>2. StatementsLeft(w) \in 1 .. 4
      BY <1>1 DEF StatementsLeft
    <3> QED BY <3>1, <3>2
  <2>3. ASSUME NEW v \in Workers, StepOf(v)
        PROVE  tx'[w] = tx[w] \/ StatementsLeft(w)' < StatementsLeft(w)
    BY <1>1, <2>3, OthersStay, OwnStatement DEF StepOf
  <2> QED BY <1>1, <2>1, <2>2, <2>3, WhoMoves
<1>2. TInv /\ [NextT]_varsT =>
        [\A w \in Workers :
           tx[w].lock # "none" =>
             tx'[w] = tx[w] \/ StatementsLeft(w)' < StatementsLeft(w)]_varsT
  BY <1>1
<1> QED BY <1>2, TransactionsIsolated, PTL DEF SpecT, StatementsRunOut

=============================================================================
