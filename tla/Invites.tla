------------------------------ MODULE Invites ------------------------------
(***************************************************************************)
(* Users, chore lists and the invites that bring them together:            *)
(* internal/core/invite.go, the list and invite handlers of                *)
(* internal/core/chore_list.go, and GenerateInvite of internal/core/run.go.*)
(*                                                                         *)
(* Here a transaction is taken apart into its statements.  SQLite lets one *)
(* connection write at a time: a transaction becomes the writer with its   *)
(* first INSERT, UPDATE or DELETE and stays it until COMMIT or ROLLBACK.   *)
(* Its own statements see what it wrote, everybody else sees what was      *)
(* committed.  A statement outside a transaction commits by itself.        *)
(***************************************************************************)
EXTENDS Integers

CONSTANTS Users,          \* identifiers NewId may draw for a user
          SystemUser,     \* the user that GenerateInvite creates
          Usernames,
          ChoreListIDs,
          InviteIDs,
          Workers,        \* goroutines serving requests
          InviteLife,     \* how long the invite of a user is good (24 hours)
          BootInviteLife, \* how long the invite of GenerateInvite is good (5 hours)
          MaxTime,        \* bound: the last moment of the model
          NoUser,         \* "there is no session"
          NoName,         \* an empty form field
          NoList,         \* NULL in invitation.chore_list_id
          NoInvite,       \* "there is no row"
          NoRequest,      \* "the worker is idle"
          NoWorker        \* "nobody holds the write lock"

People     == Users \cup {SystemUser}
Time       == 1 .. MaxTime
ExpiryTime == 1 .. MaxTime + InviteLife + BootInviteLife

\* A row of table invitation.
Invitation == [expiresAt : ExpiryTime, list : ChoreListIDs \cup {NoList}]

\* The tables.  username stands for password_auth: the name of each user, or NoName
\* where there is no row.
Database == [user      : SUBSET People,
             username  : [Users -> Usernames \cup {NoName}],
             choreList : SUBSET ChoreListIDs,
             member    : SUBSET (ChoreListIDs \X Users),
             invite    : [InviteIDs -> Invitation \cup {NoInvite}]]

Ops == {"accept", "found", "invite", "withdraw"}

\* Where a request stands: the statement it runs next.
Statements == {"user", "password", "redeem", "list", "member", "commit", "insert", "remove"}

\* The locals of a handler.
Request == [op     : Ops,
            next   : Statements,
            user   : Users \cup {NoUser},
            name   : Usernames \cup {NoName},
            list   : ChoreListIDs \cup {NoList},
            invite : InviteIDs \cup {NoInvite},
            now    : Time]

ASSUME InvitesAssumption ==
  /\ InviteLife \in Nat \ {0}
  /\ BootInviteLife \in Nat \ {0}
  /\ MaxTime \in Nat \ {0}
  /\ SystemUser \notin Users
  /\ NoUser \notin People
  /\ NoName \notin Usernames
  /\ NoList \notin ChoreListIDs
  /\ NoWorker \notin Workers
  /\ NoInvite \notin Invitation \cup InviteIDs
  /\ NoRequest \notin Request

VARIABLES
  db,        \* the committed tables
  txdb,      \* the tables as the writer sees them; db when there is no writer
  writer,    \* the worker that holds the write lock, or NoWorker
  issued,    \* identifiers of invites that were stored, ever
  time,      \* what time.Now() returns
  startup,   \* where RunCfg stands
  request    \* the request each worker has in flight

vars == <<db, txdb, writer, issued, time, startup, request>>

TypeOK ==
  /\ db \in Database
  /\ txdb \in Database
  /\ writer \in Workers \cup {NoWorker}
  /\ issued \subseteq InviteIDs
  /\ time \in Time
  /\ startup \in {"boot", "invite", "serving"}
  /\ request \in [Workers -> Request \cup {NoRequest}]

EmptyDatabase ==
  [user      |-> {},
   username  |-> [u \in Users |-> NoName],
   choreList |-> {},
   member    |-> {},
   invite    |-> [i \in InviteIDs |-> NoInvite]]

Init ==
  /\ db = EmptyDatabase
  /\ txdb = EmptyDatabase
  /\ writer = NoWorker
  /\ issued = {}
  /\ time = 1
  /\ startup = "boot"
  /\ request = [w \in Workers |-> NoRequest]

-----------------------------------------------------------------------------
(* Transactions *)

Idle(w) == request[w] = NoRequest

\* The worker's next statement.
At(w, statement) == ~Idle(w) /\ request[w].next = statement

\* What the statements of a worker see.
SeenBy(w) == IF writer = w THEN txdb ELSE db

\* A statement that writes has to be the only writer's.
MayWrite(w) == writer \in {w, NoWorker}

\* The statement of a transaction: new is what the worker sees from now on, r what
\* its handler knows.
Write(w, new, r) ==
  /\ writer' = w
  /\ txdb' = new
  /\ request' = [request EXCEPT ![w] = r]
  /\ UNCHANGED <<db, issued, time, startup>>

\* A statement outside a transaction.
AutoCommit(new) ==
  /\ writer = NoWorker
  /\ db' = new
  /\ txdb' = new
  /\ UNCHANGED <<writer, time>>

\* The handler returns.
Return(w) == request' = [request EXCEPT ![w] = NoRequest]

Commit(w) ==
  /\ At(w, "commit")
  /\ writer = w
  /\ db' = txdb
  /\ writer' = NoWorker
  /\ Return(w)
  /\ UNCHANGED <<txdb, issued, time, startup>>

\* Mutant: the error path forgets the transaction.
StillHeld(w) == writer

\* The deferred Rollback.
Released(w) == IF writer = w THEN NoWorker ELSE writer

\* Mutant: a failed statement has the request try again instead of serving an error.
FailAndRetry(w) ==
  /\ ~Idle(w)
  /\ writer' = Released(w)
  /\ txdb' = IF writer = w THEN db ELSE txdb
  /\ request' = [request EXCEPT ![w].next = CASE @ = "password" -> "user"
                                              [] @ = "member"   -> "redeem"
                                              [] OTHER          -> @]
  /\ UNCHANGED <<db, issued, time, startup>>

\* Any statement fails (busy for too long, cancelled request, constraint, missing
\* row, COMMIT included) or a check before it does: an error page is served.
Fail(w) ==
  /\ ~Idle(w)
  /\ writer' = Released(w)
  /\ txdb' = IF writer = w THEN db ELSE txdb
  /\ Return(w)
  /\ UNCHANGED <<db, issued, time, startup>>

Begin(w, r) ==
  /\ startup = "serving"
  /\ Idle(w)
  /\ request' = [request EXCEPT ![w] = r]
  /\ UNCHANGED <<db, txdb, writer, issued, time, startup>>

-----------------------------------------------------------------------------
(* InviteStore.InviteAccept *)

\* A user who is logged in, or somebody with a form for a new account.
BeginAccept(w, u, i, n) ==
  /\ u \in db.user \cup {NoUser}
  /\ Begin(w, [op |-> "accept", next |-> IF u = NoUser THEN "user" ELSE "redeem",
               user |-> u, name |-> n, list |-> NoList, invite |-> i, now |-> time])

\* CreateUser
UserCreated(seen, u) == [seen EXCEPT !.user = @ \cup {u}]

\* createUser, the row of table user
InsertUser(w) ==
  LET r == request[w]  seen == SeenBy(w) IN
  /\ At(w, "user")
  /\ MayWrite(w)
  /\ r.name # NoName
  /\ \E u \in Users \ seen.user :
       Write(w, UserCreated(seen, u), [r EXCEPT !.user = u, !.next = "password"])

\* Mutant: two users may have one name.
AnyName(seen, n) == TRUE

\* UNIQUE (username)
NameFree(seen, n) == \A u \in Users : seen.username[u] # n

\* CreatePasswordAuth
PasswordAuthCreated(seen, u, n) == [seen EXCEPT !.username[u] = n]

\* createUser, the row of table password_auth
InsertPassword(w) ==
  LET r == request[w]  seen == SeenBy(w) IN
  /\ At(w, "password")
  /\ MayWrite(w)
  /\ NameFree(seen, r.name)
  /\ Write(w, PasswordAuthCreated(seen, r.user, r.name), [r EXCEPT !.next = "redeem"])

\* Mutant: the invite is looked up, and deleted by nobody.
InviteKept(seen, i) == seen

InviteDeleted(seen, i) == [seen EXCEPT !.invite[i] = NoInvite]

\* Mutant: an invite to no list is taken for one to a list.
AlwaysMember(list) == "member"

AfterRedeem(list) == IF list = NoList THEN "commit" ELSE "member"

\* Mutant: the DELETE does not ask when the invite ends.
GoodForEver(inv, now) == inv # NoInvite

\* WHERE id = ? AND expires_at > ?
Good(inv, now) == inv # NoInvite /\ inv.expiresAt > now

\* DELETE ... RETURNING finds the invite, if it is there and was good when the
\* request came.
RedeemInvite(w) ==
  LET r == request[w]  seen == SeenBy(w)  inv == seen.invite[r.invite] IN
  /\ At(w, "redeem")
  /\ MayWrite(w)
  /\ Good(inv, r.now)
  /\ Write(w, InviteDeleted(seen, r.invite),
           [r EXCEPT !.list = inv.list, !.next = AfterRedeem(inv.list)])

\* AddUserToChoreList
MemberAdded(seen, l, u) == [seen EXCEPT !.member = @ \cup {<<l, u>>}]

\* The last statement but COMMIT of InviteAccept and of ChoreListNewHandler.
\* PRIMARY KEY (chore_list_id, user_id)
InsertMember(w) ==
  LET r == request[w]  seen == SeenBy(w) IN
  /\ At(w, "member")
  /\ MayWrite(w)
  /\ <<r.list, r.user>> \notin seen.member
  /\ Write(w, MemberAdded(seen, r.list, r.user), [r EXCEPT !.next = "commit"])

-----------------------------------------------------------------------------
(* Lists *)

\* ChoreListNewHandler
BeginList(w, u) ==
  /\ u \in db.user
  /\ Begin(w, [op |-> "found", next |-> "list", user |-> u, name |-> NoName,
               list |-> NoList, invite |-> NoInvite, now |-> time])

\* CreateChoreList
ChoreListCreated(seen, l) == [seen EXCEPT !.choreList = @ \cup {l}]

InsertList(w) ==
  LET r == request[w]  seen == SeenBy(w) IN
  /\ At(w, "list")
  /\ MayWrite(w)
  /\ \E l \in ChoreListIDs \ seen.choreList :
       Write(w, ChoreListCreated(seen, l), [r EXCEPT !.list = l, !.next = "member"])

\* RemoveUser
MemberRemoved(seen, l, u) == [seen EXCEPT !.member = @ \ {<<l, u>>}]

\* ChoreListLeaveHandler
LeaveList(u, l) ==
  /\ startup = "serving"
  /\ <<l, u>> \in db.member
  /\ AutoCommit(MemberRemoved(db, l, u))
  /\ UNCHANGED <<issued, startup, request>>

\* CreateInviteWithChoreList: the time is read, then the row is stored.
BeginInvite(w, u, l) ==
  /\ u \in db.user
  /\ Begin(w, [op |-> "invite", next |-> "insert", user |-> u, name |-> NoName,
               list |-> l, invite |-> NoInvite, now |-> time])

Issue(i, expiresAt, l) ==
  /\ i \notin issued
  /\ issued' = issued \cup {i}
  /\ AutoCommit([db EXCEPT !.invite[i] = [expiresAt |-> expiresAt, list |-> l]])

InsertInvite(w) ==
  LET r == request[w] IN
  /\ At(w, "insert")
  /\ r.list \in db.choreList
  /\ \E i \in InviteIDs : Issue(i, r.now + InviteLife, r.list)
  /\ Return(w)
  /\ UNCHANGED startup

\* ChoreListDeleteInviteHandler: a member of the list is found, then the row goes.
BeginWithdraw(w, u, l, i) ==
  /\ <<l, u>> \in db.member
  /\ Begin(w, [op |-> "withdraw", next |-> "remove", user |-> u, name |-> NoName,
               list |-> l, invite |-> i, now |-> time])

\* DeleteInviteByChoreList: an invite for another list, or none, is left alone.
RemoveInvite(w) ==
  LET r == request[w]  inv == db.invite[r.invite] IN
  /\ At(w, "remove")
  /\ AutoCommit(IF inv # NoInvite /\ inv.list = r.list
                THEN InviteDeleted(db, r.invite) ELSE db)
  /\ Return(w)
  /\ UNCHANGED <<issued, startup>>

-----------------------------------------------------------------------------
(* Starting, dying, time *)

\* RunCfg without an invite to generate.
Start ==
  /\ startup = "boot"
  /\ startup' = "serving"
  /\ UNCHANGED <<db, txdb, writer, issued, time, request>>

\* Mutant: the system user is created without looking it up.
NeverFound(seen, u) == FALSE

\* GetUser
UserFound(seen, u) == u \in seen.user

\* GenerateInvite, first half: the system user is there, or is created now.
EnsureSystemUser ==
  /\ startup = "boot"
  /\ \/ UserFound(db, SystemUser) /\ AutoCommit(db)
     \/ /\ ~UserFound(db, SystemUser)
        /\ SystemUser \notin db.user  \* PRIMARY KEY (id)
        /\ AutoCommit(UserCreated(db, SystemUser))
  /\ startup' = "invite"
  /\ UNCHANGED <<issued, request>>

\* GenerateInvite, second half: an invite to no list.
GenerateInvite ==
  /\ startup = "invite"
  /\ \E i \in InviteIDs : Issue(i, time + BootInviteLife, NoList)
  /\ startup' = "serving"
  /\ UNCHANGED <<request>>

\* The process dies, or leaves RunCfg with an error.
Crash ==
  /\ writer' = NoWorker
  /\ txdb' = db
  /\ startup' = "boot"
  /\ request' = [w \in Workers |-> NoRequest]
  /\ UNCHANGED <<db, issued, time>>

Tick ==
  /\ time < MaxTime
  /\ time' = time + 1
  /\ UNCHANGED <<db, txdb, writer, issued, startup, request>>

-----------------------------------------------------------------------------
Accept(w) ==
  \/ InsertUser(w) \/ InsertPassword(w) \/ RedeemInvite(w) \/ InsertMember(w)

Serve(w) ==
  \/ Accept(w)
  \/ InsertList(w)
  \/ InsertInvite(w)
  \/ RemoveInvite(w)
  \/ Commit(w)
  \/ Fail(w)

Arrive(w) ==
  \/ \E u \in Users : BeginList(w, u)
  \/ \E i \in InviteIDs :
       \/ \E n \in Usernames \cup {NoName} : BeginAccept(w, NoUser, i, n)
       \/ \E u \in Users : BeginAccept(w, u, i, NoName)
  \/ \E u \in Users, l \in ChoreListIDs :
       \/ BeginInvite(w, u, l)
       \/ \E i \in InviteIDs : BeginWithdraw(w, u, l, i)

Next ==
  \/ \E w \in Workers : Arrive(w) \/ Serve(w)
  \/ \E u \in Users, l \in ChoreListIDs : LeaveList(u, l)
  \/ Start \/ EnsureSystemUser \/ GenerateInvite
  \/ Crash
  \/ Tick

Spec == Init /\ [][Next]_vars

\* A request that was taken up goes on: its goroutine is scheduled, and a
\* statement that finds the database busy waits for so long and then fails.  A start
\* that is cut off is tried again, and not cut off before its first INSERT for ever.
FairSpec == Spec /\ (\A w \in Workers : WF_vars(Serve(w))) /\ WF_vars(EnsureSystemUser)

-----------------------------------------------------------------------------
(* What holds *)

\* Every user but the system user can log in, under a name that nobody else has: no
\* failure between the two INSERTs of createUser, and no rollback of what follows
\* them, leaves half a user behind.
AccountsComplete ==
  /\ \A u \in Users : u \in db.user <=> db.username[u] # NoName
  /\ \A u, v \in db.user \cap Users : db.username[u] = db.username[v] => u = v

\* The write lock is never leaked: who holds it is still being served, and so can fail, if
\* nothing else.
LockInUse == \A w \in Workers : writer = w => ~Idle(w)

\* How many statements a request has to go, at most.
StatementsLeft(w) ==
  IF Idle(w) THEN 0
  ELSE CASE request[w].next = "user"               -> 5
         [] request[w].next = "password"           -> 4
         [] request[w].next \in {"redeem", "list"} -> 3
         [] request[w].next = "member"             -> 2
         [] OTHER                                  -> 1

\* No statement is tried again, and no other request undoes what a request has done: each
\* step of it leaves it fewer statements to go.
StatementsRunOut ==
  [][\A w \in Workers :
       ~Idle(w) => request'[w] = request[w] \/ StatementsLeft(w)' < StatementsLeft(w)]_vars

\* No transaction stays open: every path out of a handler ends it, so that nobody
\* waits for the write lock for ever.  The two properties before this one say why; that
\* the goroutines run is all that is added to them.
WriterReleased == \A w \in Workers : writer = w ~> writer # w

\* GenerateInvite gets past the system user whatever an earlier start left behind: a user
\* with an invite, a user without one because it was cut off in between, or nothing.
StartGoesOn == startup = "boot" ~> startup # "boot"

\* Request w looked at the clock before invite i ended.
CameInTime(w, i) ==
  /\ ~Idle(w)
  /\ request[w].op = "accept"
  /\ request[w].invite = i
  /\ request[w].now < db.invite[i].expiresAt

\* The invite has ended, and nobody who came for it before is still at it.
TooLate(i) ==
  /\ db.invite[i] # NoInvite
  /\ db.invite[i].expiresAt <= time
  /\ \A w \in Workers : ~CameInTime(w, i)

\* From then on it lets nobody in any more, it can be withdrawn at most: however long a
\* request takes between its look at the clock and its DELETE, and though the DELETE
\* compares with the time of the one and not of the other.
ExpiredForGood ==
  [][\A i \in InviteIDs : TooLate(i) =>
       TooLate(i)' \/ \E w \in Workers : RemoveInvite(w) /\ request[w].invite = i]_vars

-----------------------------------------------------------------------------
(* What the invites are for *)

Called == {p \in Users \X Usernames : db.username[p[1]] = p[2]}
Open   == {p \in InviteIDs \X (ChoreListIDs \cup {NoList}) :
             db.invite[p[1]] # NoInvite /\ db.invite[p[1]].list = p[2]}

Promise == INSTANCE Admission WITH
  Invites <- InviteIDs, Names <- Usernames, NoPlace <- NoList, Host <- SystemUser,
  people <- db.user, called <- Called, place <- db.choreList, member <- db.member,
  open <- Open

\* Every change of the committed tables admits one person with one invite, opens a
\* place together with its first member, issues or withdraws one invite, or takes a
\* member off a list: requests that race for one invite, that die between two
\* statements or that invite a member once more make no other change.
ImplementsAdmission == Promise!Spec

\* What that comes to: there are never more users, the system user aside, than invites
\* were issued, not even counting those that are still good: none lets two people in.
NobodyUninvited == Promise!NobodyUninvited

\* And whoever turns up on a list that exists already has just used up an invite to it,
\* both with the same COMMIT.
EveryMemberInvited == Promise!EveryMemberInvited

=============================================================================
