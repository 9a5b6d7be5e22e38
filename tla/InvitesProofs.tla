--------------------------- MODULE InvitesProofs ---------------------------
(***************************************************************************)
(* Proofs that the users, lists and invites of Invites keep the promise of *)
(* Admission, for any number of requests in flight, whatever fails and     *)
(* whenever the process dies.                                              *)
(*                                                                         *)
(* A request carries what its statements have established so far (Stands). *)
(* What the others do leaves that alone: the committed tables belong to    *)
(* the writer until it commits, and nobody is ever deleted from table      *)
(* user.                                                                   *)
(***************************************************************************)
EXTENDS Invites, TLAPS

\* The tables after the two INSERTs of createUser, or without them for a user who is
\* logged in.
Admitted(d, r) ==
  IF r.name = NoName THEN d
  ELSE PasswordAuthCreated(UserCreated(d, r.user), r.user, r.name)

\* The tables as InviteAccept leaves them.
Joined(d, r) ==
  IF r.list = NoList THEN InviteDeleted(Admitted(d, r), r.invite)
  ELSE MemberAdded(InviteDeleted(Admitted(d, r), r.invite), r.list, r.user)

\* The user is one of d, or can be.
MayAdmit(d, r) ==
  /\ r.user \in Users
  /\ IF r.name = NoName THEN r.user \in d.user
     ELSE r.user \notin d.user /\ NameFree(d, r.name)

\* The invite is there, for the list that the handler knows, and the request came in time.
HasInvite(d, r) == Good(d.invite[r.invite], r.now) /\ d.invite[r.invite].list = r.list

AcceptStands(w) ==
  LET r == request[w] IN
  /\ r.op = "accept"
  /\ r.invite \in InviteIDs
  /\ \/ r.next = "user" /\ writer # w
     \/ /\ r.next = "password" /\ writer = w
        /\ r.name # NoName
        /\ r.user \in Users \ db.user
        /\ txdb = UserCreated(db, r.user)
     \/ /\ r.next = "redeem"
        /\ MayAdmit(db, r)
        /\ IF r.name = NoName THEN writer # w
           ELSE writer = w /\ txdb = Admitted(db, r)
     \/ /\ r.next = "member" /\ writer = w
        /\ MayAdmit(db, r) /\ HasInvite(db, r)
        /\ r.list # NoList
        /\ txdb = InviteDeleted(Admitted(db, r), r.invite)
     \/ /\ r.next = "commit" /\ writer = w
        /\ MayAdmit(db, r) /\ HasInvite(db, r)
        /\ <<r.list, r.user>> \notin db.member
        /\ txdb = Joined(db, r)

FoundStands(w) ==
  LET r == request[w] IN
  /\ r.op = "found"
  /\ r.user \in Users \cap db.user
  /\ \/ r.next = "list" /\ writer # w
     \/ /\ r.next = "member" /\ writer = w
        /\ r.list \in ChoreListIDs \ db.choreList
        /\ txdb = ChoreListCreated(db, r.list)
     \/ /\ r.next = "commit" /\ writer = w
        /\ r.list \in ChoreListIDs \ db.choreList
        /\ txdb = MemberAdded(ChoreListCreated(db, r.list), r.list, r.user)

\* The requests of one statement, which have no transaction.
SingleStands(w) ==
  /\ \/ request[w].op = "invite" /\ request[w].next = "insert"
     \/ request[w].op = "withdraw" /\ request[w].next = "remove"
  /\ request[w].invite \in InviteIDs \/ request[w].op = "invite"
  /\ writer # w

\* What the statements of a worker have established.
Stands(w) ==
  \/ Idle(w) /\ writer # w
  \/ ~Idle(w) /\ (AcceptStands(w) \/ FoundStands(w) \/ SingleStands(w))

\* Members belong to lists and users that exist.
MembersExist == db.member \subseteq db.choreList \X db.user

\* A stored invite was issued once, for a list that exists or for none.
InvitesExist ==
  \A i \in InviteIDs : db.invite[i] # NoInvite =>
    i \in issued /\ db.invite[i].list \in db.choreList \cup {NoList}

IInv ==
  /\ TypeOK
  /\ AccountsComplete
  /\ MembersExist
  /\ InvitesExist
  /\ writer = NoWorker => txdb = db
  /\ \A w \in Workers : Stands(w)

-----------------------------------------------------------------------------
(* What the statements write *)

LEMMA UserCreatedIs ==
  ASSUME NEW d \in Database, NEW u \in People
  PROVE  /\ UserCreated(d, u) \in Database
         /\ UserCreated(d, u).user = d.user \cup {u}
         /\ UserCreated(d, u).username = d.username
         /\ UserCreated(d, u).choreList = d.choreList
         /\ UserCreated(d, u).member = d.member
         /\ UserCreated(d, u).invite = d.invite
BY DEF UserCreated, Database

LEMMA PasswordAuthCreatedIs ==
  ASSUME NEW d \in Database, NEW u \in Users, NEW n \in Usernames
  PROVE  /\ PasswordAuthCreated(d, u, n) \in Database
         /\ PasswordAuthCreated(d, u, n).user = d.user
         /\ PasswordAuthCreated(d, u, n).username = [d.username EXCEPT ![u] = n]
         /\ PasswordAuthCreated(d, u, n).choreList = d.choreList
         /\ PasswordAuthCreated(d, u, n).member = d.member
         /\ PasswordAuthCreated(d, u, n).invite = d.invite
BY DEF PasswordAuthCreated, Database

LEMMA InviteDeletedIs ==
  ASSUME NEW d \in Database, NEW i \in InviteIDs
  PROVE  /\ InviteDeleted(d, i) \in Database
         /\ InviteDeleted(d, i).user = d.user
         /\ InviteDeleted(d, i).username = d.username
         /\ InviteDeleted(d, i).choreList = d.choreList
         /\ InviteDeleted(d, i).member = d.member
         /\ InviteDeleted(d, i).invite = [d.invite EXCEPT ![i] = NoInvite]
BY DEF InviteDeleted, Database

LEMMA MemberAddedIs ==
  ASSUME NEW d \in Database, NEW l \in ChoreListIDs, NEW u \in Users
  PROVE  /\ MemberAdded(d, l, u) \in Database
         /\ MemberAdded(d, l, u).user = d.user
         /\ MemberAdded(d, l, u).username = d.username
         /\ MemberAdded(d, l, u).choreList = d.choreList
         /\ MemberAdded(d, l, u).member = d.member \cup {<<l, u>>}
         /\ MemberAdded(d, l, u).invite = d.invite
BY DEF MemberAdded, Database

LEMMA MemberRemovedIs ==
  ASSUME NEW d \in Database, NEW l \in ChoreListIDs, NEW u \in Users
  PROVE  /\ MemberRemoved(d, l, u) \in Database
         /\ MemberRemoved(d, l, u).user = d.user
         /\ MemberRemoved(d, l, u).username = d.username
         /\ MemberRemoved(d, l, u).choreList = d.choreList
         /\ MemberRemoved(d, l, u).member = d.member \ {<<l, u>>}
         /\ MemberRemoved(d, l, u).invite = d.invite
BY DEF MemberRemoved, Database

LEMMA ChoreListCreatedIs ==
  ASSUME NEW d \in Database, NEW l \in ChoreListIDs
  PROVE  /\ ChoreListCreated(d, l) \in Database
         /\ ChoreListCreated(d, l).user = d.user
         /\ ChoreListCreated(d, l).username = d.username
         /\ ChoreListCreated(d, l).choreList = d.choreList \cup {l}
         /\ ChoreListCreated(d, l).member = d.member
         /\ ChoreListCreated(d, l).invite = d.invite
BY DEF ChoreListCreated, Database

LEMMA AdmittedIs ==
  ASSUME NEW d \in Database, NEW r \in Request, MayAdmit(d, r)
  PROVE  /\ Admitted(d, r) \in Database
         /\ Admitted(d, r).user = d.user \cup {r.user}
         /\ Admitted(d, r).username =
              IF r.name = NoName THEN d.username ELSE [d.username EXCEPT ![r.user] = r.name]
         /\ Admitted(d, r).choreList = d.choreList
         /\ Admitted(d, r).member = d.member
         /\ Admitted(d, r).invite = d.invite
<1>1. r.user \in Users /\ r.user \in People
  BY DEF MayAdmit, People
<1>2. CASE r.name = NoName
  BY <1>2 DEF Admitted, MayAdmit
<1>3. CASE r.name # NoName
  <2>1. r.name \in Usernames
    BY <1>3 DEF Request
  <2>2. UserCreated(d, r.user) \in Database
    BY <1>1, UserCreatedIs
  <2> QED BY <1>1, <1>3, <2>1, <2>2, UserCreatedIs, PasswordAuthCreatedIs DEF Admitted
<1> QED BY <1>2, <1>3

LEMMA JoinedIs ==
  ASSUME NEW d \in Database, NEW r \in Request, MayAdmit(d, r), r.invite \in InviteIDs
  PROVE  /\ Joined(d, r) \in Database
         /\ Joined(d, r).user = d.user \cup {r.user}
         /\ Joined(d, r).username =
              IF r.name = NoName THEN d.username ELSE [d.username EXCEPT ![r.user] = r.name]
         /\ Joined(d, r).choreList = d.choreList
         /\ Joined(d, r).member =
              IF r.list = NoList THEN d.member ELSE d.member \cup {<<r.list, r.user>>}
         /\ Joined(d, r).invite = [d.invite EXCEPT ![r.invite] = NoInvite]
<1>1. r.user \in Users
  BY DEF MayAdmit
<1>2. r.list # NoList => r.list \in ChoreListIDs
  BY DEF Request
<1>3. Admitted(d, r) \in Database
  BY AdmittedIs
<1>4. InviteDeleted(Admitted(d, r), r.invite) \in Database
  BY <1>3, InviteDeletedIs
<1> DEFINE f == Admitted(d, r)
           e == InviteDeleted(f, r.invite)
<1>5. /\ e \in Database /\ e.user = d.user \cup {r.user}
      /\ e.username = IF r.name = NoName THEN d.username ELSE [d.username EXCEPT ![r.user] = r.name]
      /\ e.choreList = d.choreList /\ e.member = d.member
      /\ e.invite = [d.invite EXCEPT ![r.invite] = NoInvite]
  <2>1. /\ f \in Database /\ f.user = d.user \cup {r.user}
        /\ f.username =
             IF r.name = NoName THEN d.username ELSE [d.username EXCEPT ![r.user] = r.name]
        /\ f.choreList = d.choreList /\ f.member = d.member /\ f.invite = d.invite
    BY AdmittedIs
  <2> HIDE DEF f
  <2> QED BY <2>1, InviteDeletedIs
<1>6. Joined(d, r) = IF r.list = NoList THEN e ELSE MemberAdded(e, r.list, r.user)
  BY DEF Joined
<1> HIDE DEF e
<1>7. CASE r.list = NoList
  BY <1>5, <1>6, <1>7
<1>8. CASE r.list # NoList
  BY <1>1, <1>2, <1>5, <1>6, <1>8, MemberAddedIs
<1> QED BY <1>7, <1>8

-----------------------------------------------------------------------------
(* One worker writes, the others wait *)

\* Nothing a request has established is undone by the others.
LEMMA OthersStand ==
  ASSUME NEW v \in Workers, Stands(v), request'[v] = request[v],
         db.user \subseteq db'.user,
         writer = v => db' = db /\ txdb' = txdb /\ writer' = v,
         writer # v => writer' # v
  PROVE  Stands(v)'
<1>1. CASE Idle(v)
  BY <1>1 DEF Stands, Idle
<1>2. CASE ~Idle(v) /\ AcceptStands(v)
  <2>1. AcceptStands(v)'
    BY <1>2 DEF AcceptStands, MayAdmit, HasInvite, Admitted, NameFree
  <2> QED BY <1>2, <2>1 DEF Stands, Idle
<1>3. CASE ~Idle(v) /\ FoundStands(v)
  <2>1. FoundStands(v)'
    BY <1>3 DEF FoundStands
  <2> QED BY <1>3, <2>1 DEF Stands, Idle
<1>4. CASE ~Idle(v) /\ SingleStands(v)
  <2>1. SingleStands(v)'
    BY <1>4 DEF SingleStands
  <2> QED BY <1>4, <2>1 DEF Stands, Idle
<1> QED BY <1>1, <1>2, <1>3, <1>4 DEF Stands

\* A request in flight, and what its worker sees.
LEMMA InFlight ==
  ASSUME IInv, NEW w \in Workers, ~Idle(w)
  PROVE  /\ request[w] \in Request
         /\ SeenBy(w) \in Database
         /\ AcceptStands(w) \/ FoundStands(w) \/ SingleStands(w)
BY DEF IInv, TypeOK, Idle, Stands, SeenBy

\* The statement of a transaction.
LEMMA Written ==
  ASSUME IInv, NEW w \in Workers, MayWrite(w), NEW new \in Database, NEW r \in Request,
         Write(w, new, r),
         AcceptStands(w)' \/ FoundStands(w)'
  PROVE  IInv'
<1>1. /\ writer' = w /\ txdb' = new /\ db' = db /\ issued' = issued
      /\ time' = time /\ startup' = startup
      /\ request' = [request EXCEPT ![w] = r]
  BY DEF Write
<1>2. request'[w] = r /\ \A v \in Workers \ {w} : request'[v] = request[v]
  BY <1>1 DEF IInv, TypeOK
<1>3. TypeOK'
  BY <1>1 DEF IInv, TypeOK
<1>4. AccountsComplete' /\ MembersExist' /\ InvitesExist'
  BY <1>1 DEF IInv, AccountsComplete, MembersExist, InvitesExist
<1>5. Stands(w)'
  BY <1>2, InvitesAssumption DEF Stands, Idle
<1>6. ASSUME NEW v \in Workers \ {w} PROVE Stands(v)'
  <2>1. writer # v /\ writer' # v
    BY <1>1, InvitesAssumption DEF MayWrite
  <2>2. Stands(v) /\ request'[v] = request[v] /\ db.user \subseteq db'.user
    BY <1>1, <1>2 DEF IInv
  <2> QED BY <2>1, <2>2, OthersStand
<1>7. writer' # NoWorker
  BY <1>1, InvitesAssumption
<1> QED BY <1>3, <1>4, <1>5, <1>6, <1>7 DEF IInv

LEMMA InsertUserWrites ==
  ASSUME IInv, NEW w \in Workers, InsertUser(w)
  PROVE  IInv'
<1> DEFINE r == request[w]
<1>1. /\ ~Idle(w) /\ r.next = "user" /\ MayWrite(w) /\ r.name # NoName
      /\ r \in Request /\ SeenBy(w) \in Database
  BY InFlight DEF InsertUser, At
<1>2. r.op = "accept" /\ r.invite \in InviteIDs /\ writer # w
  BY <1>1, InFlight DEF AcceptStands, FoundStands, SingleStands
<1>3. SeenBy(w) = db
  BY <1>2 DEF SeenBy
<1>4. PICK u \in Users \ db.user :
        Write(w, UserCreated(db, u), [r EXCEPT !.user = u, !.next = "password"])
  BY <1>3 DEF InsertUser
<1> DEFINE s == [r EXCEPT !.user = u, !.next = "password"]
<1>5. /\ s \in Request /\ s.op = "accept" /\ s.invite = r.invite /\ s.next = "password"
      /\ s.name = r.name /\ s.user = u
  BY <1>1, <1>2 DEF Request, Statements
<1>6. UserCreated(db, u) \in Database
  BY UserCreatedIs DEF IInv, TypeOK, People
<1>7. request'[w] = s /\ writer' = w /\ db' = db /\ txdb' = UserCreated(db, u)
  BY <1>4 DEF Write, IInv, TypeOK
<1>8. AcceptStands(w)'
  BY <1>1, <1>2, <1>5, <1>7 DEF AcceptStands
<1> QED BY <1>1, <1>4, <1>5, <1>6, <1>8, Written

LEMMA InsertPasswordWrites ==
  ASSUME IInv, NEW w \in Workers, InsertPassword(w)
  PROVE  IInv'
<1> DEFINE r == request[w]
<1>1. /\ ~Idle(w) /\ r.next = "password" /\ MayWrite(w)
      /\ r \in Request /\ SeenBy(w) \in Database
  BY InFlight DEF InsertPassword, At
<1>2. /\ r.op = "accept" /\ r.invite \in InviteIDs /\ writer = w /\ r.name # NoName
      /\ r.user \in Users \ db.user /\ txdb = UserCreated(db, r.user)
  BY <1>1, InFlight DEF AcceptStands, FoundStands, SingleStands
<1>3. SeenBy(w) = UserCreated(db, r.user)
  BY <1>2 DEF SeenBy
<1> DEFINE s == [r EXCEPT !.next = "redeem"]
<1>4. /\ s \in Request /\ s.op = "accept" /\ s.invite = r.invite /\ s.next = "redeem"
      /\ s.name = r.name /\ s.user = r.user
  BY <1>1, <1>2 DEF Request, Statements
<1>5. /\ NameFree(SeenBy(w), r.name)
      /\ Write(w, Admitted(db, r), s)
  BY <1>2, <1>3 DEF InsertPassword, Admitted
<1>6. /\ request'[w] = s /\ writer' = w /\ db' = db /\ txdb' = Admitted(db, r)
  BY <1>5 DEF Write, IInv, TypeOK
<1>7. NameFree(db, r.name)
  <2>1. UserCreated(db, r.user).username = db.username
    BY <1>2, UserCreatedIs DEF IInv, TypeOK, People
  <2> QED BY <1>3, <1>5, <2>1 DEF NameFree
<1>8. MayAdmit(db, r) /\ MayAdmit(db, s)
  BY <1>2, <1>4, <1>7 DEF MayAdmit
<1>9. Admitted(db, s) = Admitted(db, r)
  BY <1>4 DEF Admitted
<1>10. Admitted(db, r) \in Database
  BY <1>1, <1>8, AdmittedIs DEF IInv, TypeOK
<1>11. AcceptStands(w)'
  BY <1>2, <1>4, <1>6, <1>8, <1>9 DEF AcceptStands, MayAdmit
<1> QED BY <1>1, <1>4, <1>5, <1>10, <1>11, Written

LEMMA RedeemInviteWrites ==
  ASSUME IInv, NEW w \in Workers, RedeemInvite(w)
  PROVE  IInv'
<1> DEFINE r == request[w]
           d == Admitted(db, r)
           inv == db.invite[r.invite]
           s == [r EXCEPT !.list = inv.list, !.next = AfterRedeem(inv.list)]
<1>1. /\ ~Idle(w) /\ r.next = "redeem" /\ MayWrite(w)
      /\ r \in Request /\ db \in Database
  BY InFlight DEF RedeemInvite, At, IInv, TypeOK
<1>2. /\ r.op = "accept" /\ r.invite \in InviteIDs /\ MayAdmit(db, r)
      /\ IF r.name = NoName THEN writer # w ELSE writer = w /\ txdb = d
  BY <1>1, InFlight DEF AcceptStands, FoundStands, SingleStands
<1>3. SeenBy(w) = d
  BY <1>2 DEF SeenBy, Admitted
<1>4. d \in Database /\ d.invite = db.invite
  BY <1>1, <1>2, AdmittedIs
<1>5. Good(inv, r.now) /\ inv # NoInvite /\ Write(w, InviteDeleted(d, r.invite), s)
  BY <1>3, <1>4 DEF RedeemInvite, Good
<1>6. inv.list \in ChoreListIDs \cup {NoList}
  BY <1>1, <1>2, <1>5 DEF Database, Invitation
<1>7. AfterRedeem(inv.list) = IF inv.list = NoList THEN "commit" ELSE "member"
  BY DEF AfterRedeem
<1>8. /\ s \in Request /\ s.op = "accept" /\ s.invite = r.invite
      /\ s.name = r.name /\ s.user = r.user /\ s.list = inv.list /\ s.now = r.now
      /\ s.next = IF inv.list = NoList THEN "commit" ELSE "member"
  BY <1>1, <1>2, <1>6, <1>7 DEF Request, Statements
<1>9. /\ request'[w] = s /\ writer' = w /\ db' = db /\ txdb' = InviteDeleted(d, r.invite)
  BY <1>5 DEF Write, IInv, TypeOK
<1>10. InviteDeleted(d, r.invite) \in Database
  BY <1>2, <1>4, InviteDeletedIs
<1>11. Admitted(db, s) = d /\ MayAdmit(db, s) /\ HasInvite(db, s)
  BY <1>2, <1>5, <1>8 DEF Admitted, MayAdmit, HasInvite
<1>12. ASSUME inv.list = NoList PROVE AcceptStands(w)'
  <2>1. <<s.list, s.user>> \notin db.member
    BY <1>1, <1>8, <1>12, InvitesAssumption DEF Database
  <2>2. Joined(db, s) = InviteDeleted(d, r.invite)
    BY <1>8, <1>11, <1>12 DEF Joined
  <2> HIDE DEF s, d, inv, r
  <2> QED BY <1>2, <1>8, <1>9, <1>11, <1>12, <2>1, <2>2 DEF AcceptStands
<1>13. ASSUME inv.list # NoList PROVE AcceptStands(w)'
  <2> HIDE DEF s, d, inv, r
  <2> QED BY <1>2, <1>8, <1>9, <1>11, <1>13 DEF AcceptStands
<1> QED BY <1>1, <1>5, <1>8, <1>10, <1>12, <1>13, Written

LEMMA InsertMemberWrites ==
  ASSUME IInv, NEW w \in Workers, InsertMember(w)
  PROVE  IInv'
<1> DEFINE r == request[w]
           s == [r EXCEPT !.next = "commit"]
<1>1. /\ ~Idle(w) /\ r.next = "member" /\ MayWrite(w)
      /\ r \in Request /\ db \in Database /\ txdb \in Database
  BY InFlight DEF InsertMember, At, IInv, TypeOK
<1>2. writer = w /\ r.user \in Users /\ r.list \in ChoreListIDs
  BY <1>1, InFlight DEF AcceptStands, FoundStands, SingleStands, MayAdmit, Request
<1>3. SeenBy(w) = txdb
  BY <1>2 DEF SeenBy
<1>4. <<r.list, r.user>> \notin txdb.member /\ Write(w, MemberAdded(txdb, r.list, r.user), s)
  BY <1>3 DEF InsertMember
<1>5. /\ s \in Request /\ s.op = r.op /\ s.invite = r.invite /\ s.name = r.name
      /\ s.user = r.user /\ s.list = r.list /\ s.now = r.now /\ s.next = "commit"
  BY <1>1 DEF Request, Statements
<1>6. MemberAdded(txdb, r.list, r.user) \in Database
  BY <1>1, <1>2, MemberAddedIs
<1>7. /\ request'[w] = s /\ writer' = w /\ db' = db
      /\ txdb' = MemberAdded(txdb, r.list, r.user)
  BY <1>4 DEF Write, IInv, TypeOK
<1>8. ASSUME r.op = "accept" PROVE AcceptStands(w)'
  <2>1. /\ r.invite \in InviteIDs /\ MayAdmit(db, r) /\ HasInvite(db, r) /\ r.list # NoList
        /\ txdb = InviteDeleted(Admitted(db, r), r.invite)
    BY <1>1, <1>8, InFlight DEF AcceptStands, FoundStands, SingleStands
  <2>2. Admitted(db, r) \in Database /\ Admitted(db, r).member = db.member
    BY <1>1, <2>1, AdmittedIs
  <2>3. txdb.member = db.member
    BY <2>1, <2>2, InviteDeletedIs
  <2>4. Admitted(db, s) = Admitted(db, r) /\ MayAdmit(db, s) /\ HasInvite(db, s)
    BY <1>5, <2>1 DEF Admitted, MayAdmit, HasInvite
  <2>5. Joined(db, s) = MemberAdded(txdb, r.list, r.user)
    BY <1>5, <2>1, <2>4 DEF Joined
  <2> HIDE DEF s, r
  <2> QED BY <1>4, <1>5, <1>7, <1>8, <2>1, <2>3, <2>4, <2>5 DEF AcceptStands
<1>9. ASSUME r.op # "accept" PROVE FoundStands(w)'
  <2>1. /\ r.op = "found" /\ r.user \in Users \cap db.user
        /\ r.list \in ChoreListIDs \ db.choreList /\ txdb = ChoreListCreated(db, r.list)
    BY <1>1, <1>9, InFlight DEF AcceptStands, FoundStands, SingleStands
  <2> HIDE DEF s, r
  <2> QED BY <1>5, <1>7, <2>1 DEF FoundStands
<1> QED BY <1>1, <1>4, <1>5, <1>6, <1>8, <1>9, Written

LEMMA InsertListWrites ==
  ASSUME IInv, NEW w \in Workers, InsertList(w)
  PROVE  IInv'
<1> DEFINE r == request[w]
<1>1. /\ ~Idle(w) /\ r.next = "list" /\ MayWrite(w)
      /\ r \in Request /\ db \in Database
  BY InFlight DEF InsertList, At, IInv, TypeOK
<1>2. r.op = "found" /\ r.user \in Users \cap db.user /\ writer # w
  BY <1>1, InFlight DEF AcceptStands, FoundStands, SingleStands
<1>3. SeenBy(w) = db
  BY <1>2 DEF SeenBy
<1>4. PICK l \in ChoreListIDs \ db.choreList :
        Write(w, ChoreListCreated(db, l), [r EXCEPT !.list = l, !.next = "member"])
  BY <1>3 DEF InsertList
<1> DEFINE s == [r EXCEPT !.list = l, !.next = "member"]
<1>5. /\ s \in Request /\ s.op = "found" /\ s.user = r.user /\ s.list = l /\ s.next = "member"
  BY <1>1, <1>2 DEF Request, Statements
<1>6. ChoreListCreated(db, l) \in Database
  BY <1>1, ChoreListCreatedIs
<1>7. request'[w] = s /\ writer' = w /\ db' = db /\ txdb' = ChoreListCreated(db, l)
  BY <1>4 DEF Write, IInv, TypeOK
<1>8. FoundStands(w)'
  BY <1>2, <1>5, <1>7 DEF FoundStands
<1> QED BY <1>1, <1>4, <1>5, <1>6, <1>8, Written

-----------------------------------------------------------------------------
(* COMMIT, and what commits by itself *)

\* The draft of a complete request.
LEMMA Committed ==
  ASSUME IInv, NEW w \in Workers, Commit(w)
  PROVE  /\ db \in Database /\ request[w] \in Request
         /\ writer = w /\ db' = txdb
         /\ \/ /\ request[w].op = "accept"
               /\ request[w].invite \in InviteIDs
               /\ MayAdmit(db, request[w]) /\ HasInvite(db, request[w])
               /\ <<request[w].list, request[w].user>> \notin db.member
               /\ txdb = Joined(db, request[w])
            \/ /\ request[w].op = "found"
               /\ request[w].user \in Users \cap db.user
               /\ request[w].list \in ChoreListIDs \ db.choreList
               /\ txdb = MemberAdded(ChoreListCreated(db, request[w].list),
                                     request[w].list, request[w].user)
<1>1. ~Idle(w) /\ request[w].next = "commit" /\ writer = w /\ db' = txdb
  BY DEF Commit, At
<1>2. request[w] \in Request /\ db \in Database
  BY <1>1, InFlight DEF IInv, TypeOK
<1> QED BY <1>1, <1>2, InFlight DEF AcceptStands, FoundStands, SingleStands

LEMMA ListFounded ==
  ASSUME NEW d \in Database, NEW l \in ChoreListIDs, NEW u \in Users
  PROVE  LET e == MemberAdded(ChoreListCreated(d, l), l, u) IN
         /\ e \in Database /\ e.user = d.user /\ e.username = d.username
         /\ e.choreList = d.choreList \cup {l}
         /\ e.member = d.member \cup {<<l, u>>} /\ e.invite = d.invite
BY ChoreListCreatedIs, MemberAddedIs

\* The tables that somebody joined are in order.
LEMMA AcceptedInOrder ==
  ASSUME IInv, NEW r \in Request, r.invite \in InviteIDs, MayAdmit(db, r), HasInvite(db, r),
         db' = Joined(db, r), issued' = issued
  PROVE  /\ AccountsComplete' /\ MembersExist' /\ InvitesExist'
         /\ db.user \subseteq db'.user
<1>1. /\ db'.user = db.user \cup {r.user}
      /\ db'.username =
           IF r.name = NoName THEN db.username ELSE [db.username EXCEPT ![r.user] = r.name]
      /\ db'.choreList = db.choreList
      /\ db'.member = IF r.list = NoList THEN db.member ELSE db.member \cup {<<r.list, r.user>>}
      /\ db'.invite = [db.invite EXCEPT ![r.invite] = NoInvite]
  BY JoinedIs DEF IInv, TypeOK
<1>2. db \in Database /\ r.user \in Users
  BY DEF IInv, TypeOK, MayAdmit
<1>3. r.name \in Usernames \cup {NoName}
  BY DEF Request
<1>4. /\ db.username \in [Users -> Usernames \cup {NoName}]
      /\ db.invite \in [InviteIDs -> Invitation \cup {NoInvite}]
  BY <1>2 DEF Database
<1>5. AccountsComplete'
  <2>1. CASE r.name = NoName
    <3>1. db'.user = db.user /\ db'.username = db.username
      BY <1>1, <2>1 DEF MayAdmit
    <3> QED BY <3>1 DEF IInv, AccountsComplete
  <2>2. CASE r.name # NoName
    <3>1. r.user \notin db.user /\ \A u \in Users : db.username[u] # r.name
      BY <2>2 DEF MayAdmit, NameFree
    <3>2. \A u \in Users : db'.username[u] = IF u = r.user THEN r.name ELSE db.username[u]
      BY <1>1, <1>4, <2>2
    <3>3. AccountsComplete
      BY DEF IInv
    <3> QED BY <1>1, <1>2, <2>2, <3>1, <3>2, <3>3 DEF AccountsComplete
  <2> QED BY <2>1, <2>2
<1>6. MembersExist'
  <2>1. r.list # NoList => r.list \in db.choreList
    BY DEF IInv, InvitesExist, HasInvite, Good
  <2> QED BY <1>1, <2>1 DEF IInv, MembersExist
<1>7. InvitesExist'
  BY <1>1, <1>4 DEF IInv, InvitesExist
<1> QED BY <1>1, <1>5, <1>6, <1>7

LEMMA FoundedInOrder ==
  ASSUME IInv, NEW l \in ChoreListIDs, NEW u \in Users \cap db.user,
         db' = MemberAdded(ChoreListCreated(db, l), l, u), issued' = issued
  PROVE  /\ AccountsComplete' /\ MembersExist' /\ InvitesExist'
         /\ db.user \subseteq db'.user
<1>1. /\ db'.user = db.user /\ db'.username = db.username
      /\ db'.choreList = db.choreList \cup {l}
      /\ db'.member = db.member \cup {<<l, u>>} /\ db'.invite = db.invite
  BY ListFounded DEF IInv, TypeOK
<1> QED BY <1>1 DEF IInv, AccountsComplete, MembersExist, InvitesExist

LEMMA CommitKeeps ==
  ASSUME IInv, NEW w \in Workers, Commit(w)
  PROVE  IInv'
<1>1. /\ writer' = NoWorker /\ txdb' = txdb /\ issued' = issued /\ time' = time
      /\ startup' = startup /\ request' = [request EXCEPT ![w] = NoRequest]
  BY DEF Commit, Return
<1>2. /\ request'[w] = NoRequest
      /\ \A v \in Workers \ {w} : request'[v] = request[v]
  BY <1>1 DEF IInv, TypeOK
<1>3. AccountsComplete' /\ MembersExist' /\ InvitesExist' /\ db.user \subseteq db'.user
  <2>1. CASE request[w].op = "accept"
    BY <1>1, <2>1, Committed, AcceptedInOrder
  <2>2. CASE request[w].op # "accept"
    BY <1>1, <2>2, Committed, FoundedInOrder
  <2> QED BY <2>1, <2>2
<1>4. db' = txdb /\ writer = w
  BY Committed
<1>5. TypeOK'
  BY <1>1, <1>4 DEF IInv, TypeOK
<1>6. ASSUME NEW v \in Workers PROVE Stands(v)'
  <2>1. writer' # v
    BY <1>1, InvitesAssumption
  <2>2. CASE v = w
    BY <1>2, <2>1, <2>2 DEF Stands, Idle
  <2>3. CASE v # w
    BY <1>2, <1>3, <1>4, <2>1, <2>3, OthersStand DEF IInv
  <2> QED BY <2>2, <2>3
<1> QED BY <1>1, <1>3, <1>4, <1>5, <1>6 DEF IInv

\* A statement outside a transaction leaves the requests alone, or ends its own.
LEMMA Autocommitted ==
  ASSUME IInv, NEW new \in Database, AutoCommit(new),
         issued' \subseteq InviteIDs, startup' \in {"boot", "invite", "serving"},
         \/ request' = request
         \/ \E w \in Workers : Return(w),
         AccountsComplete', MembersExist', InvitesExist', db.user \subseteq new.user
  PROVE  IInv'
<1>1. writer = NoWorker /\ writer' = NoWorker /\ db' = new /\ txdb' = new /\ time' = time
  BY DEF AutoCommit
<1>2. /\ request' \in [Workers -> Request \cup {NoRequest}]
      /\ \A v \in Workers : request'[v] = request[v] \/ request'[v] = NoRequest
  BY DEF Return, IInv, TypeOK
<1>3. TypeOK'
  BY <1>1, <1>2 DEF IInv, TypeOK
<1>4. ASSUME NEW v \in Workers PROVE Stands(v)'
  <2>1. writer' # v /\ writer # v
    BY <1>1, InvitesAssumption
  <2>2. CASE request'[v] = NoRequest
    BY <2>1, <2>2 DEF Stands, Idle
  <2>3. CASE request'[v] = request[v]
    BY <1>1, <2>1, <2>3, OthersStand DEF IInv
  <2> QED BY <1>2, <2>2, <2>3
<1> QED BY <1>1, <1>3, <1>4 DEF IInv

LEMMA IssueKeeps ==
  ASSUME IInv, NEW i \in InviteIDs, NEW e \in ExpiryTime, NEW l \in db.choreList \cup {NoList},
         Issue(i, e, l), startup' \in {"boot", "invite", "serving"},
         request' = request \/ \E w \in Workers : Return(w)
  PROVE  IInv'
<1> DEFINE new == [db EXCEPT !.invite[i] = [expiresAt |-> e, list |-> l]]
<1>1. /\ i \notin issued /\ issued' = issued \cup {i} /\ AutoCommit(new)
  BY DEF Issue
<1>2. db \in Database /\ l \in ChoreListIDs \cup {NoList}
  BY DEF IInv, TypeOK, Database
<1>3. [expiresAt |-> e, list |-> l] \in Invitation
  BY <1>2 DEF Invitation
<1>4. /\ new \in Database /\ new.user = db.user /\ new.username = db.username
      /\ new.choreList = db.choreList /\ new.member = db.member
      /\ new.invite = [db.invite EXCEPT ![i] = [expiresAt |-> e, list |-> l]]
  BY <1>2, <1>3 DEF Database
<1>5. db' = new
  BY <1>1 DEF AutoCommit
<1> HIDE DEF new
<1>6. AccountsComplete' /\ MembersExist'
  BY <1>4, <1>5 DEF IInv, AccountsComplete, MembersExist
<1>7. InvitesExist'
  <2>1. db.invite \in [InviteIDs -> Invitation \cup {NoInvite}]
    BY <1>2 DEF Database
  <2> QED BY <1>1, <1>4, <1>5, <2>1 DEF IInv, InvitesExist
<1>8. issued' \subseteq InviteIDs
  BY <1>1 DEF IInv, TypeOK
<1> QED BY <1>1, <1>4, <1>6, <1>7, <1>8, Autocommitted

LEMMA InsertInviteKeeps ==
  ASSUME IInv, NEW w \in Workers, InsertInvite(w)
  PROVE  IInv'
<1>1. /\ ~Idle(w) /\ request[w].list \in db.choreList /\ Return(w) /\ startup' = startup
  BY DEF InsertInvite, At
<1>2. PICK i \in InviteIDs : Issue(i, request[w].now + InviteLife, request[w].list)
  BY DEF InsertInvite
<1>3. request[w].now \in 1 .. MaxTime
  BY <1>1, InFlight DEF Request, Time
<1>4. request[w].now + InviteLife \in ExpiryTime
  BY <1>3, InvitesAssumption DEF ExpiryTime
<1>5. startup' \in {"boot", "invite", "serving"}
  BY <1>1 DEF IInv, TypeOK
<1> QED BY <1>1, <1>2, <1>4, <1>5, IssueKeeps

LEMMA GenerateInviteKeeps ==
  ASSUME IInv, GenerateInvite
  PROVE  IInv'
<1>1. PICK i \in InviteIDs : Issue(i, time + BootInviteLife, NoList)
  BY DEF GenerateInvite
<1>2. time + BootInviteLife \in ExpiryTime
  BY InvitesAssumption DEF ExpiryTime, Time, IInv, TypeOK
<1>3. startup' = "serving" /\ request' = request
  BY DEF GenerateInvite
<1> QED BY <1>1, <1>2, <1>3, IssueKeeps

LEMMA RemoveInviteKeeps ==
  ASSUME IInv, NEW w \in Workers, RemoveInvite(w)
  PROVE  IInv'
<1> DEFINE r == request[w]
           new == IF db.invite[r.invite] # NoInvite /\ db.invite[r.invite].list = r.list
                  THEN InviteDeleted(db, r.invite) ELSE db
<1>1. ~Idle(w) /\ r.next = "remove" /\ AutoCommit(new) /\ Return(w)
      /\ issued' = issued /\ startup' = startup
  BY DEF RemoveInvite, At
<1>2. r.invite \in InviteIDs /\ db \in Database
  BY <1>1, InFlight DEF AcceptStands, FoundStands, SingleStands, IInv, TypeOK
<1>3. /\ new \in Database /\ new.user = db.user /\ new.username = db.username
      /\ new.choreList = db.choreList /\ new.member = db.member
      /\ \/ new.invite = db.invite
         \/ new.invite = [db.invite EXCEPT ![r.invite] = NoInvite]
  BY <1>2, InviteDeletedIs
<1>4. db' = new
  BY <1>1 DEF AutoCommit
<1> HIDE DEF new
<1>5. AccountsComplete' /\ MembersExist'
  BY <1>3, <1>4 DEF IInv, AccountsComplete, MembersExist
<1>6. InvitesExist'
  <2>1. db.invite \in [InviteIDs -> Invitation \cup {NoInvite}]
    BY <1>2 DEF Database
  <2> QED BY <1>1, <1>2, <1>3, <1>4, <2>1 DEF IInv, InvitesExist
<1>7. issued' \subseteq InviteIDs /\ startup' \in {"boot", "invite", "serving"}
  BY <1>1 DEF IInv, TypeOK
<1> QED BY <1>1, <1>3, <1>5, <1>6, <1>7, Autocommitted

LEMMA LeaveListKeeps ==
  ASSUME IInv, NEW u \in Users, NEW l \in ChoreListIDs, LeaveList(u, l)
  PROVE  IInv'
<1>1. /\ AutoCommit(MemberRemoved(db, l, u)) /\ db' = MemberRemoved(db, l, u)
      /\ issued' = issued /\ startup' = startup /\ request' = request
  BY DEF LeaveList, AutoCommit
<1>2. /\ db' \in Database /\ db'.user = db.user /\ db'.username = db.username
      /\ db'.choreList = db.choreList /\ db'.member = db.member \ {<<l, u>>}
      /\ db'.invite = db.invite
  BY <1>1, MemberRemovedIs DEF IInv, TypeOK
<1>3. AccountsComplete' /\ MembersExist' /\ InvitesExist'
  BY <1>1, <1>2 DEF IInv, AccountsComplete, MembersExist, InvitesExist
<1>4. issued' \subseteq InviteIDs /\ startup' \in {"boot", "invite", "serving"}
  BY <1>1 DEF IInv, TypeOK
<1> QED BY <1>1, <1>2, <1>3, <1>4, Autocommitted

LEMMA EnsureSystemUserKeeps ==
  ASSUME IInv, EnsureSystemUser
  PROVE  IInv'
<1>1. /\ AutoCommit(IF SystemUser \in db.user THEN db ELSE UserCreated(db, SystemUser))
      /\ db' = IF SystemUser \in db.user THEN db ELSE UserCreated(db, SystemUser)
      /\ issued' = issued /\ startup' = "invite" /\ request' = request
  BY DEF EnsureSystemUser, UserFound, AutoCommit
<1>2. /\ db' \in Database /\ db'.user = db.user \cup {SystemUser}
      /\ db'.username = db.username /\ db'.choreList = db.choreList
      /\ db'.member = db.member /\ db'.invite = db.invite
  BY <1>1, UserCreatedIs DEF IInv, TypeOK, People
<1>3. AccountsComplete' /\ MembersExist' /\ InvitesExist'
  BY <1>1, <1>2, InvitesAssumption
     DEF IInv, AccountsComplete, MembersExist, InvitesExist
<1>4. issued' \subseteq InviteIDs /\ startup' \in {"boot", "invite", "serving"}
  BY <1>1 DEF IInv, TypeOK
<1> QED BY <1>1, <1>2, <1>3, <1>4, Autocommitted

LEMMA BeginKeeps ==
  ASSUME IInv, NEW w \in Workers, NEW r \in Request, Begin(w, r),
         r.user \in db.user \/ r.next = "user",
         \/ /\ r.op = "accept" /\ r.invite \in InviteIDs /\ r.name \in Usernames \cup {NoName}
            /\ \/ r.next = "user"
               \/ r.next = "redeem" /\ r.user \in Users /\ r.name = NoName
         \/ r.op = "found" /\ r.next = "list" /\ r.user \in Users
         \/ r.op = "invite" /\ r.next = "insert"
         \/ r.op = "withdraw" /\ r.next = "remove" /\ r.invite \in InviteIDs
  PROVE  IInv'
<1>1. /\ Idle(w) /\ request' = [request EXCEPT ![w] = r]
      /\ UNCHANGED <<db, txdb, writer, issued, time, startup>>
  BY DEF Begin
<1>2. /\ request'[w] = r
      /\ \A v \in Workers \ {w} : request'[v] = request[v]
  BY <1>1 DEF IInv, TypeOK
<1>3. TypeOK' /\ AccountsComplete' /\ MembersExist' /\ InvitesExist'
  BY <1>1 DEF IInv, TypeOK, AccountsComplete, MembersExist, InvitesExist
<1>4. r # NoRequest /\ writer # w
  BY <1>1, InvitesAssumption DEF IInv, Stands
<1>5. AcceptStands(w)' \/ FoundStands(w)' \/ SingleStands(w)'
  BY <1>1, <1>2, <1>4 DEF AcceptStands, FoundStands, SingleStands, MayAdmit
<1>6. Stands(w)'
  BY <1>2, <1>4, <1>5 DEF Stands, Idle
<1>7. ASSUME NEW v \in Workers \ {w} PROVE Stands(v)'
  BY <1>1, <1>2, OthersStand DEF IInv
<1> QED BY <1>1, <1>3, <1>6, <1>7 DEF IInv

LEMMA ArriveKeeps ==
  ASSUME IInv, NEW w \in Workers, Arrive(w)
  PROVE  IInv'
<1>1. time \in Time /\ db.member \subseteq db.choreList \X db.user
  BY DEF IInv, TypeOK, MembersExist
<1>2. ASSUME NEW u \in Users, BeginList(w, u) PROVE IInv'
  BY <1>1, <1>2, BeginKeeps DEF BeginList, Request, Ops, Statements
<1>3. ASSUME NEW i \in InviteIDs, NEW n \in Usernames \cup {NoName},
             BeginAccept(w, NoUser, i, n)
      PROVE  IInv'
  BY <1>1, <1>3, BeginKeeps DEF BeginAccept, Request, Ops, Statements
<1>4. ASSUME NEW i \in InviteIDs, NEW u \in Users, BeginAccept(w, u, i, NoName)
      PROVE  IInv'
  <2>1. u # NoUser /\ u \in db.user
    BY <1>4, InvitesAssumption DEF BeginAccept, People
  <2> QED BY <1>1, <1>4, <2>1, BeginKeeps DEF BeginAccept, Request, Ops, Statements
<1>5. ASSUME NEW u \in Users, NEW l \in ChoreListIDs, BeginInvite(w, u, l) PROVE IInv'
  BY <1>1, <1>5, BeginKeeps DEF BeginInvite, Request, Ops, Statements
<1>6. ASSUME NEW u \in Users, NEW l \in ChoreListIDs, NEW i \in InviteIDs,
             BeginWithdraw(w, u, l, i)
      PROVE  IInv'
  <2>1. u \in db.user
    BY <1>1, <1>6 DEF BeginWithdraw
  <2> QED BY <1>1, <1>6, <2>1, BeginKeeps DEF BeginWithdraw, Request, Ops, Statements
<1> QED BY <1>2, <1>3, <1>4, <1>5, <1>6 DEF Arrive

LEMMA FailKeeps ==
  ASSUME IInv, NEW w \in Workers, Fail(w)
  PROVE  IInv'
<1>1. /\ writer' = (IF writer = w THEN NoWorker ELSE writer)
      /\ txdb' = (IF writer = w THEN db ELSE txdb)
      /\ request' = [request EXCEPT ![w] = NoRequest]
      /\ UNCHANGED <<db, issued, time, startup>>
  BY DEF Fail, Released, Return
<1>2. /\ request'[w] = NoRequest
      /\ \A v \in Workers \ {w} : request'[v] = request[v]
  BY <1>1 DEF IInv, TypeOK
<1>3. TypeOK' /\ AccountsComplete' /\ MembersExist' /\ InvitesExist'
  BY <1>1 DEF IInv, TypeOK, AccountsComplete, MembersExist, InvitesExist
<1>4. writer' = NoWorker => txdb' = db'
  BY <1>1 DEF IInv
<1>5. Stands(w)'
  BY <1>1, <1>2, InvitesAssumption DEF Stands, Idle
<1>6. ASSUME NEW v \in Workers \ {w} PROVE Stands(v)'
  BY <1>1, <1>2, OthersStand, InvitesAssumption DEF IInv
<1> QED BY <1>3, <1>4, <1>5, <1>6 DEF IInv

LEMMA CrashKeeps ==
  ASSUME IInv, Crash
  PROVE  IInv'
<1>1. /\ writer' = NoWorker /\ txdb' = db /\ startup' = "boot"
      /\ request' = [w \in Workers |-> NoRequest] /\ UNCHANGED <<db, issued, time>>
  BY DEF Crash
<1>2. TypeOK' /\ AccountsComplete' /\ MembersExist' /\ InvitesExist'
  BY <1>1 DEF IInv, TypeOK, AccountsComplete, MembersExist, InvitesExist
<1>3. ASSUME NEW v \in Workers PROVE Stands(v)'
  BY <1>1, InvitesAssumption DEF Stands, Idle
<1> QED BY <1>1, <1>2, <1>3 DEF IInv

\* Start, Tick and stuttering change nothing that the invariant is about.
LEMMA QuietKeeps ==
  ASSUME IInv, UNCHANGED <<db, txdb, writer, issued, request>>,
         time' \in Time, startup' \in {"boot", "invite", "serving"}
  PROVE  IInv'
<1>1. TypeOK' /\ AccountsComplete' /\ MembersExist' /\ InvitesExist'
  BY DEF IInv, TypeOK, AccountsComplete, MembersExist, InvitesExist
<1>2. ASSUME NEW v \in Workers PROVE Stands(v)'
  BY OthersStand DEF IInv
<1> QED BY <1>1, <1>2 DEF IInv

-----------------------------------------------------------------------------
(* The invariant *)

LEMMA InvariantInit == Init => IInv
<1> SUFFICES ASSUME Init PROVE IInv
  OBVIOUS
<1>1. /\ EmptyDatabase \in Database /\ EmptyDatabase.user = {}
      /\ EmptyDatabase.username = [u \in Users |-> NoName]
      /\ EmptyDatabase.choreList = {} /\ EmptyDatabase.member = {}
      /\ EmptyDatabase.invite = [i \in InviteIDs |-> NoInvite]
  BY DEF EmptyDatabase, Database
<1>2. TypeOK
  BY <1>1, InvitesAssumption DEF Init, TypeOK, Time
<1>3. AccountsComplete /\ MembersExist /\ InvitesExist
  BY <1>1 DEF Init, AccountsComplete, MembersExist, InvitesExist
<1>4. \A w \in Workers : Stands(w)
  BY InvitesAssumption DEF Init, Stands, Idle
<1> QED BY <1>2, <1>3, <1>4 DEF Init, IInv

LEMMA InvariantStep == IInv /\ [Next]_vars => IInv'
<1> SUFFICES ASSUME IInv, [Next]_vars PROVE IInv'
  OBVIOUS
<1>1. time \in Time /\ startup \in {"boot", "invite", "serving"}
  BY DEF IInv, TypeOK
<1>2. ASSUME NEW w \in Workers, Serve(w) PROVE IInv'
  BY <1>2, InsertUserWrites, InsertPasswordWrites, RedeemInviteWrites, InsertMemberWrites,
     InsertListWrites, InsertInviteKeeps, RemoveInviteKeeps, CommitKeeps, FailKeeps
     DEF Serve, Accept
<1>3. CASE Start
  BY <1>1, <1>3, QuietKeeps DEF Start
<1>4. CASE Tick
  <2>1. time' \in Time
    BY <1>1, <1>4, InvitesAssumption DEF Tick, Time
  <2> QED BY <1>1, <1>4, <2>1, QuietKeeps DEF Tick
<1>5. CASE UNCHANGED vars
  BY <1>1, <1>5, QuietKeeps DEF vars
<1> QED
  BY <1>2, <1>3, <1>4, <1>5, ArriveKeeps, LeaveListKeeps, EnsureSystemUserKeeps,
     GenerateInviteKeeps, CrashKeeps
     DEF Next

LEMMA InvariantHolds == Spec => []IInv
BY InvariantInit, InvariantStep, PTL DEF Spec

\* Every variable keeps its type: no statement stores a row outside the schema, the draft
\* of a transaction included.
THEOREM InviteTypes == Spec => []TypeOK
<1>1. IInv => TypeOK
  BY DEF IInv
<1> QED BY <1>1, InvariantHolds, PTL

\* Nobody is left with half an account, and no two users with one name, however the
\* statements of createUser and InviteAccept interleave, fail or are cut off.
THEOREM NoHalfAccounts == Spec => []AccountsComplete
<1>1. IInv => AccountsComplete
  BY DEF IInv
<1> QED BY <1>1, InvariantHolds, PTL

-----------------------------------------------------------------------------
(* Refinement *)

LEMMA StillCalled ==
  ASSUME db'.username = db.username
  PROVE  Called' = Called
BY DEF Called

LEMMA StillOpen ==
  ASSUME db'.invite = db.invite
  PROVE  Open' = Open
BY DEF Open

LEMMA NowCalled ==
  ASSUME NEW u \in Users, NEW n \in Usernames, db \in Database, db.username[u] = NoName,
         db'.username = [db.username EXCEPT ![u] = n]
  PROVE  Called' = Called \cup {<<u, n>>}
<1>1. \A v \in Users : db'.username[v] = IF v = u THEN n ELSE db.username[v]
  BY DEF Database
<1>2. \A v \in Users, m \in Usernames :
        db'.username[v] = m <=> (db.username[v] = m \/ (v = u /\ m = n))
  BY <1>1, InvitesAssumption
<1>3. \A p \in Users \X Usernames : p \in Called' <=> p \in Called \cup {<<u, n>>}
  BY <1>2 DEF Called
<1> QED BY <1>3 DEF Called

LEMMA NowClosed ==
  ASSUME NEW i \in InviteIDs, NEW l, db \in Database,
         db.invite[i] # NoInvite, db.invite[i].list = l,
         db'.invite = [db.invite EXCEPT ![i] = NoInvite]
  PROVE  <<i, l>> \in Open /\ Open' = Open \ {<<i, l>>}
<1>1. l \in ChoreListIDs \cup {NoList}
  BY DEF Database, Invitation
<1>2. \A j \in InviteIDs : db'.invite[j] = IF j = i THEN NoInvite ELSE db.invite[j]
  BY DEF Database
<1>3. \A p \in InviteIDs \X (ChoreListIDs \cup {NoList}) :
        p \in Open' <=> p \in Open \ {<<i, l>>}
  BY <1>2 DEF Open
<1> QED BY <1>1, <1>3 DEF Open

LEMMA NowOpen ==
  ASSUME NEW i \in InviteIDs, NEW l \in ChoreListIDs \cup {NoList}, NEW e \in ExpiryTime,
         db \in Database, db.invite[i] = NoInvite,
         db'.invite = [db.invite EXCEPT ![i] = [expiresAt |-> e, list |-> l]]
  PROVE  Open' = Open \cup {<<i, l>>}
<1> DEFINE row == [expiresAt |-> e, list |-> l]
<1>1. row # NoInvite /\ row.list = l
  BY InvitesAssumption DEF Invitation
<1>2. \A j \in InviteIDs : db'.invite[j] = IF j = i THEN row ELSE db.invite[j]
  BY DEF Database
<1> HIDE DEF row
<1>3. \A p \in InviteIDs \X (ChoreListIDs \cup {NoList}) :
        p \in Open' <=> p \in Open \cup {<<i, l>>}
  BY <1>1, <1>2 DEF Open
<1> QED BY <1>3 DEF Open

LEMMA CalledArePeople ==
  ASSUME IInv, NEW p, NEW n, <<p, n>> \in Called
  PROVE  p \in Users /\ n \in Usernames /\ db.username[p] = n
BY DEF Called

LEMMA AcceptAdmits ==
  ASSUME IInv, NEW r \in Request, r.invite \in InviteIDs, MayAdmit(db, r), HasInvite(db, r),
         <<r.list, r.user>> \notin db.member, db' = Joined(db, r), issued' = issued
  PROVE  Promise!Next
<1> DEFINE i == r.invite
           l == r.list
           p == r.user
           n == r.name
<1>1. /\ db'.user = db.user \cup {p}
      /\ db'.username = IF n = NoName THEN db.username ELSE [db.username EXCEPT ![p] = n]
      /\ db'.choreList = db.choreList
      /\ db'.member = IF l = NoList THEN db.member ELSE db.member \cup {<<l, p>>}
      /\ db'.invite = [db.invite EXCEPT ![i] = NoInvite]
  BY JoinedIs DEF IInv, TypeOK
<1>2. db \in Database /\ p \in Users
  BY DEF IInv, TypeOK, MayAdmit
<1>3. l \in db.choreList \cup {NoList}
  BY DEF IInv, InvitesExist, HasInvite, Good
<1>4. <<i, l>> \in Open /\ Open' = Open \ {<<i, l>>}
  BY <1>1, <1>2, NowClosed DEF HasInvite, Good
<1>5. Promise!Spend(i, l, p)
  BY <1>1, <1>4 DEF Promise!Spend
<1>6. CASE n = NoName
  <2>1. p \in db.user /\ db'.user = db.user /\ Called' = Called
    BY <1>1, <1>6, StillCalled DEF MayAdmit
  <2>2. Promise!Join(i, l, p)
    BY <1>5, <2>1 DEF Promise!Join
  <2> QED BY <1>3, <2>1, <2>2 DEF Promise!Next
<1>7. CASE n # NoName
  <2>1. n \in Usernames /\ p \notin db.user /\ NameFree(db, n)
    BY <1>7 DEF Request, MayAdmit
  <2>2. db.username[p] = NoName
    BY <1>2, <2>1 DEF IInv, AccountsComplete
  <2>3. Called' = Called \cup {<<p, n>>}
    BY <1>1, <1>2, <1>7, <2>1, <2>2, NowCalled
  <2>4. \A q \in db.user : <<q, n>> \notin Called
    BY <2>1, CalledArePeople DEF NameFree
  <2>5. Promise!Welcome(i, l, p, n)
    BY <1>1, <1>5, <2>1, <2>3, <2>4 DEF Promise!Welcome
  <2> QED BY <1>1, <1>3, <2>1, <2>5 DEF Promise!Next
<1> QED BY <1>6, <1>7

LEMMA FoundOpensPlace ==
  ASSUME IInv, NEW l \in ChoreListIDs \ db.choreList, NEW u \in Users \cap db.user,
         db' = MemberAdded(ChoreListCreated(db, l), l, u), issued' = issued
  PROVE  Promise!Next
<1>1. /\ db'.user = db.user /\ db'.username = db.username
      /\ db'.choreList = db.choreList \cup {l}
      /\ db'.member = db.member \cup {<<l, u>>} /\ db'.invite = db.invite
  BY ListFounded DEF IInv, TypeOK
<1>2. Called' = Called /\ Open' = Open
  BY <1>1, StillCalled, StillOpen
<1>3. Promise!OpenPlace(l, u)
  BY <1>1, <1>2 DEF Promise!OpenPlace
<1> QED BY <1>1, <1>3 DEF Promise!Next

LEMMA CommitAdmits ==
  ASSUME IInv, NEW w \in Workers, Commit(w)
  PROVE  Promise!Next
<1>1. issued' = issued
  BY DEF Commit
<1>2. CASE request[w].op = "accept"
  BY <1>1, <1>2, Committed, AcceptAdmits
<1>3. CASE request[w].op # "accept"
  BY <1>1, <1>3, Committed, FoundOpensPlace
<1> QED BY <1>2, <1>3

LEMMA LeaveListLeaves ==
  ASSUME IInv, NEW u \in Users, NEW l \in ChoreListIDs, LeaveList(u, l)
  PROVE  Promise!Next
<1>1. <<l, u>> \in db.member /\ db' = MemberRemoved(db, l, u) /\ issued' = issued
  BY DEF LeaveList, AutoCommit
<1>2. /\ db'.user = db.user /\ db'.username = db.username
      /\ db'.choreList = db.choreList /\ db'.member = db.member \ {<<l, u>>}
      /\ db'.invite = db.invite
  BY <1>1, MemberRemovedIs DEF IInv, TypeOK
<1>3. Called' = Called /\ Open' = Open
  BY <1>2, StillCalled, StillOpen
<1>4. Promise!Leave(l, u)
  BY <1>1, <1>2, <1>3 DEF Promise!Leave
<1>5. l \in db'.choreList /\ u \in db.user
  BY <1>1, <1>2 DEF IInv, MembersExist
<1> QED BY <1>4, <1>5 DEF Promise!Next

LEMMA IssueIssues ==
  ASSUME IInv, NEW i \in InviteIDs, NEW e \in ExpiryTime, NEW l \in db.choreList \cup {NoList},
         Issue(i, e, l)
  PROVE  Promise!Next
<1>1. /\ i \notin issued /\ issued' = issued \cup {i}
      /\ db' = [db EXCEPT !.invite[i] = [expiresAt |-> e, list |-> l]]
  BY DEF Issue, AutoCommit
<1>2. db \in Database /\ l \in ChoreListIDs \cup {NoList}
  BY DEF IInv, TypeOK, Database
<1>3. /\ db'.user = db.user /\ db'.username = db.username
      /\ db'.choreList = db.choreList /\ db'.member = db.member
      /\ db'.invite = [db.invite EXCEPT ![i] = [expiresAt |-> e, list |-> l]]
  BY <1>1, <1>2 DEF Database
<1>4. db.invite[i] = NoInvite
  BY <1>1 DEF IInv, InvitesExist
<1>5. Called' = Called /\ Open' = Open \cup {<<i, l>>}
  BY <1>2, <1>3, <1>4, StillCalled, NowOpen
<1>6. Promise!Issue(i, l)
  BY <1>1, <1>3, <1>5 DEF Promise!Issue
<1> QED BY <1>6 DEF Promise!Next

LEMMA InsertInviteIssues ==
  ASSUME IInv, NEW w \in Workers, InsertInvite(w)
  PROVE  Promise!Next
<1>1. /\ ~Idle(w) /\ request[w].list \in db.choreList
  BY DEF InsertInvite, At
<1>2. PICK i \in InviteIDs : Issue(i, request[w].now + InviteLife, request[w].list)
  BY DEF InsertInvite
<1>3. request[w].now \in 1 .. MaxTime
  BY <1>1, InFlight DEF Request, Time
<1>4. request[w].now + InviteLife \in ExpiryTime
  BY <1>3, InvitesAssumption DEF ExpiryTime
<1> QED BY <1>1, <1>2, <1>4, IssueIssues

LEMMA GenerateInviteIssues ==
  ASSUME IInv, GenerateInvite
  PROVE  Promise!Next
<1>1. PICK i \in InviteIDs : Issue(i, time + BootInviteLife, NoList)
  BY DEF GenerateInvite
<1>2. time + BootInviteLife \in ExpiryTime
  BY InvitesAssumption DEF ExpiryTime, Time, IInv, TypeOK
<1> QED BY <1>1, <1>2, IssueIssues

LEMMA RemoveInviteWithdraws ==
  ASSUME IInv, NEW w \in Workers, RemoveInvite(w)
  PROVE  [Promise!Next]_(Promise!admission)
<1> DEFINE r == request[w]
           i == r.invite
           l == r.list
<1>1. ~Idle(w) /\ r.next = "remove" /\ issued' = issued
      /\ db' = IF db.invite[i] # NoInvite /\ db.invite[i].list = l
               THEN InviteDeleted(db, i) ELSE db
  BY DEF RemoveInvite, AutoCommit, At
<1>2. i \in InviteIDs /\ db \in Database
  BY <1>1, InFlight DEF AcceptStands, FoundStands, SingleStands, IInv, TypeOK
<1>3. CASE db.invite[i] # NoInvite /\ db.invite[i].list = l
  <2>1. /\ db'.user = db.user /\ db'.username = db.username
        /\ db'.choreList = db.choreList /\ db'.member = db.member
        /\ db'.invite = [db.invite EXCEPT ![i] = NoInvite]
    BY <1>1, <1>2, <1>3, InviteDeletedIs
  <2>2. <<i, l>> \in Open /\ Open' = Open \ {<<i, l>>} /\ Called' = Called
    BY <1>2, <1>3, <2>1, NowClosed, StillCalled
  <2>3. l \in db.choreList \cup {NoList}
    BY <1>2, <1>3 DEF IInv, InvitesExist
  <2>4. Promise!Withdraw(i, l)
    BY <1>1, <2>1, <2>2 DEF Promise!Withdraw
  <2> QED BY <1>2, <2>3, <2>4 DEF Promise!Next
<1>4. CASE ~(db.invite[i] # NoInvite /\ db.invite[i].list = l)
  BY <1>1, <1>4, StillCalled, StillOpen DEF Promise!admission
<1> QED BY <1>3, <1>4

LEMMA EnsureSystemUserArrives ==
  ASSUME IInv, EnsureSystemUser
  PROVE  [Promise!Next]_(Promise!admission)
<1>1. /\ db' = IF SystemUser \in db.user THEN db ELSE UserCreated(db, SystemUser)
      /\ issued' = issued
  BY DEF EnsureSystemUser, UserFound, AutoCommit
<1>2. CASE SystemUser \in db.user
  BY <1>1, <1>2, StillCalled, StillOpen DEF Promise!admission
<1>3. CASE SystemUser \notin db.user
  <2>1. /\ db'.user = db.user \cup {SystemUser}
        /\ db'.username = db.username /\ db'.choreList = db.choreList
        /\ db'.member = db.member /\ db'.invite = db.invite
    BY <1>1, <1>3, UserCreatedIs DEF IInv, TypeOK, People
  <2>2. Promise!HostArrives
    BY <1>1, <1>3, <2>1, StillCalled, StillOpen DEF Promise!HostArrives
  <2> QED BY <2>2 DEF Promise!Next
<1> QED BY <1>2, <1>3

LEMMA TablesLeftAlone ==
  ASSUME UNCHANGED <<db, issued>>
  PROVE  UNCHANGED Promise!admission
BY StillCalled, StillOpen DEF Promise!admission

LEMMA AdmissionStep == IInv /\ [Next]_vars => [Promise!Next]_(Promise!admission)
<1> SUFFICES ASSUME IInv, [Next]_vars PROVE [Promise!Next]_(Promise!admission)
  OBVIOUS
<1>1. ASSUME NEW w \in Workers, Arrive(w) PROVE UNCHANGED <<db, issued>>
  BY <1>1 DEF Arrive, BeginList, BeginAccept, BeginInvite, BeginWithdraw, Begin
<1>2. ASSUME NEW w \in Workers, Accept(w) \/ InsertList(w) \/ Fail(w)
      PROVE  UNCHANGED <<db, issued>>
  BY <1>2 DEF Accept, InsertUser, InsertPassword, RedeemInvite, InsertMember, InsertList,
              Write, Fail
<1>3. ASSUME NEW w \in Workers, Serve(w) PROVE [Promise!Next]_(Promise!admission)
  BY <1>2, <1>3, CommitAdmits, InsertInviteIssues, RemoveInviteWithdraws, TablesLeftAlone
     DEF Serve
<1>4. ASSUME Start \/ Tick \/ Crash \/ UNCHANGED vars PROVE UNCHANGED <<db, issued>>
  BY <1>4 DEF Start, Tick, Crash, vars
<1> QED
  BY <1>1, <1>3, <1>4, LeaveListLeaves, EnsureSystemUserArrives, GenerateInviteIssues,
     TablesLeftAlone
     DEF Next

LEMMA AdmissionInit == Init => Promise!Init
<1> SUFFICES ASSUME Init PROVE Promise!Init
  OBVIOUS
<1>1. /\ db.user = {} /\ db.choreList = {} /\ db.member = {} /\ issued = {}
      /\ db.username = [u \in Users |-> NoName]
      /\ db.invite = [i \in InviteIDs |-> NoInvite]
  BY DEF Init, EmptyDatabase
<1>2. Called = {}
  BY <1>1, InvitesAssumption DEF Called
<1>3. Open = {}
  BY <1>1 DEF Open
<1> QED BY <1>1, <1>2, <1>3 DEF Promise!Init

\* The promise is kept: an invite is spent on one person, with all that the person gets
\* for it or nothing, whichever requests race for it and wherever they fail.
THEOREM PromiseKept == Spec => ImplementsAdmission
BY AdmissionInit, AdmissionStep, InvariantHolds, PTL DEF Spec, ImplementsAdmission, Promise!Spec

-----------------------------------------------------------------------------
(* Why nobody waits for the write lock for ever *)

\* Every way out of a handler gives up the lock: who holds it has a statement to run.
THEOREM LockNeverLeaked == Spec => []LockInUse
<1>1. IInv => LockInUse
  BY DEF IInv, Stands, LockInUse
<1> QED BY <1>1, InvariantHolds, PTL

\* From one statement to the next.
LEMMA NextShorter ==
  ASSUME request \in [Workers -> Request \cup {NoRequest}],
         NEW w \in Workers, ~Idle(w), NEW q, request' = [request EXCEPT ![w] = q],
         \/ request[w].next = "user" /\ q.next = "password"
         \/ request[w].next = "password" /\ q.next = "redeem"
         \/ request[w].next \in {"redeem", "list"} /\ q.next \in {"member", "commit"}
         \/ request[w].next = "member" /\ q.next = "commit"
  PROVE  /\ StatementsLeft(w)' < StatementsLeft(w)
         /\ \A v \in Workers \ {w} : request'[v] = request[v]
<1>1. request'[w] = q /\ \A v \in Workers \ {w} : request'[v] = request[v]
  OBVIOUS
<1>2. StatementsLeft(w) = CASE request[w].next = "user"               -> 5
                            [] request[w].next = "password"           -> 4
                            [] request[w].next \in {"redeem", "list"} -> 3
                            [] request[w].next = "member"             -> 2
                            [] OTHER                                  -> 1
  BY DEF StatementsLeft
<1>3. StatementsLeft(w)' \in {0, CASE q.next = "user"               -> 5
                                   [] q.next = "password"           -> 4
                                   [] q.next \in {"redeem", "list"} -> 3
                                   [] q.next = "member"             -> 2
                                   [] OTHER                         -> 1}
  BY <1>1 DEF StatementsLeft
<1> QED BY <1>1, <1>2, <1>3

\* The statements of a transaction, one after the other.
LEMMA WriteShortens ==
  ASSUME IInv, NEW w \in Workers, Accept(w) \/ InsertList(w)
  PROVE  /\ StatementsLeft(w)' < StatementsLeft(w)
         /\ \A v \in Workers \ {w} : request'[v] = request[v]
<1> DEFINE r == request[w]
<1>1. request \in [Workers -> Request \cup {NoRequest}]
  BY DEF IInv, TypeOK
<1>2. ~Idle(w) /\ r \in Request
  BY <1>1 DEF Accept, InsertUser, InsertPassword, RedeemInvite, InsertMember, InsertList, At, Idle
<1>3. CASE InsertUser(w)
  <2>1. PICK u \in Users : request' = [request EXCEPT ![w] =
                                         [r EXCEPT !.user = u, !.next = "password"]]
    BY <1>3 DEF InsertUser, Write
  <2>2. [r EXCEPT !.user = u, !.next = "password"].next = "password"
    BY <1>2 DEF Request
  <2>3. r.next = "user"
    BY <1>3 DEF InsertUser, At
  <2> QED BY <1>1, <1>2, <2>1, <2>2, <2>3, NextShorter
<1>4. CASE InsertPassword(w)
  <2>1. request' = [request EXCEPT ![w] = [r EXCEPT !.next = "redeem"]]
    BY <1>4 DEF InsertPassword, Write
  <2>2. [r EXCEPT !.next = "redeem"].next = "redeem"
    BY <1>2 DEF Request
  <2>3. r.next = "password"
    BY <1>4 DEF InsertPassword, At
  <2> QED BY <1>1, <1>2, <2>1, <2>2, <2>3, NextShorter
<1>5. CASE RedeemInvite(w)
  <2> DEFINE list == SeenBy(w).invite[r.invite].list
             q    == [r EXCEPT !.list = list, !.next = AfterRedeem(list)]
  <2>1. request' = [request EXCEPT ![w] = q]
    BY <1>5 DEF RedeemInvite, Write
  <2>2. q.next \in {"commit", "member"}
    BY <1>2 DEF Request, AfterRedeem
  <2>3. r.next = "redeem"
    BY <1>5 DEF RedeemInvite, At
  <2> HIDE DEF q
  <2> QED BY <1>1, <1>2, <2>1, <2>2, <2>3, NextShorter
<1>6. CASE InsertMember(w)
  <2>1. request' = [request EXCEPT ![w] = [r EXCEPT !.next = "commit"]]
    BY <1>6 DEF InsertMember, Write
  <2>2. [r EXCEPT !.next = "commit"].next = "commit"
    BY <1>2 DEF Request
  <2>3. r.next = "member"
    BY <1>6 DEF InsertMember, At
  <2> QED BY <1>1, <1>2, <2>1, <2>2, <2>3, NextShorter
<1>7. CASE InsertList(w)
  <2>1. PICK l \in ChoreListIDs : request' = [request EXCEPT ![w] =
                                                [r EXCEPT !.list = l, !.next = "member"]]
    BY <1>7 DEF InsertList, Write
  <2>2. [r EXCEPT !.list = l, !.next = "member"].next = "member"
    BY <1>2 DEF Request
  <2>3. r.next = "list"
    BY <1>7 DEF InsertList, At
  <2> QED BY <1>1, <1>2, <2>1, <2>2, <2>3, NextShorter
<1> QED BY <1>3, <1>4, <1>5, <1>6, <1>7 DEF Accept

\* The last statement, and a failure.
LEMMA ReturnShortens ==
  ASSUME IInv, NEW w \in Workers,
         \/ Commit(w) \/ Fail(w) \/ InsertInvite(w) \/ RemoveInvite(w)
  PROVE  /\ StatementsLeft(w)' < StatementsLeft(w)
         /\ \A v \in Workers \ {w} : request'[v] = request[v]
<1>1. Return(w) /\ ~Idle(w) /\ request \in [Workers -> Request \cup {NoRequest}]
  BY DEF Commit, Fail, InsertInvite, RemoveInvite, At, IInv, TypeOK
<1>2. Idle(w)' /\ \A v \in Workers \ {w} : request'[v] = request[v]
  BY <1>1 DEF Return, Idle
<1>3. StatementsLeft(w)' = 0
  BY <1>2 DEF StatementsLeft
<1>4. StatementsLeft(w) \in 1 .. 5
  BY <1>1 DEF StatementsLeft
<1> QED BY <1>2, <1>3, <1>4

\* A request has five statements to go at most, and fewer with each that it runs; whatever
\* the other requests do, the handlers that are started anew and a restart included, it is
\* not sent back.
THEOREM EveryRequestShortens == Spec => StatementsRunOut
<1> DEFINE Shorter == \A w \in Workers : ~Idle(w) =>
                        request'[w] = request[w] \/ StatementsLeft(w)' < StatementsLeft(w)
<1>1. ASSUME IInv, Next PROVE Shorter
  <2>1. ASSUME NEW w \in Workers, Arrive(w) PROVE Shorter
    <3>1. PICK r : Begin(w, r)
      BY <2>1 DEF Arrive, BeginList, BeginAccept, BeginInvite, BeginWithdraw
    <3>2. Idle(w) /\ \A v \in Workers \ {w} : request'[v] = request[v]
      BY <1>1, <3>1 DEF Begin, IInv, TypeOK
    <3> QED BY <3>2
  <2>2. ASSUME NEW w \in Workers, Serve(w) PROVE Shorter
    <3>1. /\ StatementsLeft(w)' < StatementsLeft(w)
          /\ \A v \in Workers \ {w} : request'[v] = request[v]
      BY <1>1, <2>2, WriteShortens, ReturnShortens DEF Serve
    <3> QED BY <3>1
  <2>3. CASE Crash
    <3>1. ASSUME NEW w \in Workers, ~Idle(w)
          PROVE  StatementsLeft(w)' < StatementsLeft(w)
      <4>1. StatementsLeft(w)' = 0
        BY <2>3 DEF Crash, StatementsLeft, Idle
      <4>2. StatementsLeft(w) \in 1 .. 5
        BY <3>1 DEF StatementsLeft
      <4> QED BY <4>1, <4>2
    <3> QED BY <3>1
  <2>4. ASSUME UNCHANGED request PROVE Shorter
    BY <2>4
  <2> HIDE DEF Shorter
  <2> QED
    BY <1>1, <2>1, <2>2, <2>3, <2>4
    DEF Next, LeaveList, Start, EnsureSystemUser, GenerateInvite, Tick
<1> QED BY <1>1, InvariantHolds, PTL DEF Spec, StatementsRunOut

-----------------------------------------------------------------------------
(* An invite that has ended *)

\* Time goes on, the others are as they were or gone, and nobody touches the row.
LEMMA StaysTooLate ==
  ASSUME NEW i \in InviteIDs, TooLate(i), db'.invite[i] = db.invite[i],
         time \in Int, time' \in Int, db.invite[i].expiresAt \in Int, time <= time',
         \A v \in Workers : CameInTime(v, i)' => CameInTime(v, i)
  PROVE  TooLate(i)'
<1>1. ASSUME NEW v \in Workers PROVE ~CameInTime(v, i)'
  BY DEF TooLate, CameInTime, Idle
<1> QED BY <1>1 DEF TooLate

\* A request that comes looks at the clock.
LEMMA CameNow ==
  ASSUME NEW w \in Workers, Arrive(w)
  PROVE  \E r : Begin(w, r) /\ r.now = time
<1>1. ASSUME NEW u \in Users, BeginList(w, u) PROVE \E r : Begin(w, r) /\ r.now = time
  BY <1>1 DEF BeginList
<1>2. ASSUME NEW u, NEW i, NEW n, BeginAccept(w, u, i, n)
      PROVE  \E r : Begin(w, r) /\ r.now = time
  BY <1>2 DEF BeginAccept
<1>3. ASSUME NEW u, NEW l, BeginInvite(w, u, l) PROVE \E r : Begin(w, r) /\ r.now = time
  BY <1>3 DEF BeginInvite
<1>4. ASSUME NEW u, NEW l, NEW i, BeginWithdraw(w, u, l, i)
      PROVE  \E r : Begin(w, r) /\ r.now = time
  BY <1>4 DEF BeginWithdraw
<1> QED BY <1>1, <1>2, <1>3, <1>4 DEF Arrive

\* The locals that say what a request came for, and when, stay as they are.
LEMMA SameErrand ==
  ASSUME IInv, NEW w \in Workers, Accept(w) \/ InsertList(w), NEW i \in InviteIDs
  PROVE  /\ db' = db /\ time' = time
         /\ \A v \in Workers : CameInTime(v, i)' => CameInTime(v, i)
<1>1. ~Idle(w) /\ request[w] \in Request /\ request \in [Workers -> Request \cup {NoRequest}]
  BY InFlight DEF Accept, InsertUser, InsertPassword, RedeemInvite, InsertMember, InsertList, At,
                  IInv, TypeOK
<1> DEFINE r == request[w]
           SameFor(q) == q.op = r.op /\ q.invite = r.invite /\ q.now = r.now
<1>2. PICK new, q : Write(w, new, q) /\ SameFor(q)
  <2>1. /\ \A n : SameFor([r EXCEPT !.next = n])
        /\ \A u, n : SameFor([r EXCEPT !.user = u, !.next = n])
        /\ \A l, n : SameFor([r EXCEPT !.list = l, !.next = n])
    BY <1>1 DEF Request
  <2> HIDE DEF SameFor
  <2>2. CASE InsertUser(w)
    BY <2>1, <2>2 DEF InsertUser
  <2>3. CASE InsertPassword(w) \/ InsertMember(w)
    BY <2>1, <2>3 DEF InsertPassword, InsertMember
  <2>4. CASE RedeemInvite(w)
    BY <2>1, <2>4 DEF RedeemInvite
  <2>5. CASE InsertList(w)
    BY <2>1, <2>5 DEF InsertList
  <2> QED BY <2>2, <2>3, <2>4, <2>5 DEF Accept
<1>3. db' = db /\ time' = time /\ request' = [request EXCEPT ![w] = q]
  BY <1>2 DEF Write
<1>4. request'[w] = q /\ \A v \in Workers \ {w} : request'[v] = request[v]
  BY <1>1, <1>3
<1>5. ASSUME NEW v \in Workers, CameInTime(v, i)' PROVE CameInTime(v, i)
  BY <1>1, <1>2, <1>3, <1>4, <1>5 DEF CameInTime, Idle
<1> QED BY <1>3, <1>5

\* A COMMIT takes no invite but one that its request came in time for.
LEMMA CommitInTime ==
  ASSUME IInv, NEW w \in Workers, Commit(w), NEW i \in InviteIDs, ~CameInTime(w, i)
  PROVE  db'.invite[i] = db.invite[i]
<1> DEFINE r == request[w]
<1>1. db \in Database /\ r \in Request /\ ~Idle(w) /\ db' = txdb
  BY Committed DEF Commit, At
<1>2. db.invite \in [InviteIDs -> Invitation \cup {NoInvite}]
  BY <1>1 DEF Database
<1>3. CASE r.op = "accept"
  <2>1. r.invite \in InviteIDs /\ MayAdmit(db, r) /\ HasInvite(db, r) /\ txdb = Joined(db, r)
    BY <1>3, Committed
  <2>2. txdb.invite = [db.invite EXCEPT ![r.invite] = NoInvite]
    BY <1>1, <2>1, JoinedIs
  <2>3. db.invite[r.invite].expiresAt \in Int /\ r.now \in Int
    BY <1>1, <1>2, <2>1, InvitesAssumption
       DEF HasInvite, Good, Invitation, ExpiryTime, Request, Time
  <2>4. i # r.invite
    BY <1>1, <1>3, <2>1, <2>3 DEF HasInvite, Good, CameInTime
  <2> QED BY <1>1, <1>2, <2>2, <2>4
<1>4. CASE r.op # "accept"
  <2>1. /\ r.user \in Users \cap db.user
        /\ r.list \in ChoreListIDs \ db.choreList
        /\ txdb = MemberAdded(ChoreListCreated(db, r.list), r.list, r.user)
    BY <1>4, Committed
  <2> QED BY <1>1, <2>1, ListFounded
<1> QED BY <1>3, <1>4

\* The other statements that write touch no invite that was stored before, and
\* RemoveInvite none but its own.
LEMMA InviteUntouched ==
  ASSUME IInv, NEW i \in InviteIDs, db.invite[i] # NoInvite,
         \/ \E u \in Users, l \in ChoreListIDs : LeaveList(u, l)
         \/ EnsureSystemUser
         \/ GenerateInvite
         \/ \E w \in Workers : InsertInvite(w)
         \/ \E w \in Workers : RemoveInvite(w) /\ request[w].invite # i
  PROVE  db'.invite[i] = db.invite[i] /\ time' = time
<1>1. db \in Database /\ db.invite \in [InviteIDs -> Invitation \cup {NoInvite}]
  BY DEF IInv, TypeOK, Database
<1>2. ASSUME NEW u \in Users, NEW l \in ChoreListIDs, LeaveList(u, l)
      PROVE  db'.invite[i] = db.invite[i] /\ time' = time
  BY <1>1, <1>2, MemberRemovedIs DEF LeaveList, AutoCommit
<1>3. CASE EnsureSystemUser
  BY <1>1, <1>3, UserCreatedIs DEF EnsureSystemUser, AutoCommit, People
<1>4. ASSUME NEW j \in InviteIDs, NEW e, NEW l, Issue(j, e, l)
      PROVE  db'.invite[i] = db.invite[i] /\ time' = time
  <2>1. i # j
    BY <1>4 DEF Issue, IInv, InvitesExist
  <2>2. db' = [db EXCEPT !.invite[j] = [expiresAt |-> e, list |-> l]] /\ time' = time
    BY <1>4 DEF Issue, AutoCommit
  <2> QED BY <1>1, <2>1, <2>2 DEF Database
<1>5. ASSUME NEW w \in Workers, RemoveInvite(w), request[w].invite # i
      PROVE  db'.invite[i] = db.invite[i] /\ time' = time
  <2>1. request[w].invite \in InviteIDs
    BY <1>5, InFlight DEF RemoveInvite, At, AcceptStands, FoundStands, SingleStands
  <2> QED BY <1>1, <1>5, <2>1, InviteDeletedIs DEF RemoveInvite, AutoCommit
<1> QED BY <1>2, <1>3, <1>4, <1>5 DEF GenerateInvite, InsertInvite

\* An invite lets nobody in once it has ended and those who came in time are through or
\* gone: the time that a handler has read counts for its own request only, and no failure,
\* restart or second request makes it count for another.
THEOREM EndedInvitesStayShut == Spec => ExpiredForGood
<1>1. ASSUME IInv, Next, NEW i \in InviteIDs, TooLate(i),
             ~\E w \in Workers : RemoveInvite(w) /\ request[w].invite = i
      PROVE  TooLate(i)'
  <2> DEFINE NobodyNew == \A v \in Workers : CameInTime(v, i)' => CameInTime(v, i)
  <2>1. /\ time \in Int /\ db.invite[i] # NoInvite /\ db.invite[i].expiresAt \in Int
        /\ request \in [Workers -> Request \cup {NoRequest}]
    BY <1>1, InvitesAssumption
       DEF IInv, TypeOK, Time, TooLate, Database, Invitation, ExpiryTime
  <2>2. ASSUME db'.invite[i] = db.invite[i], time' = time \/ time' = time + 1, NobodyNew
        PROVE  TooLate(i)'
    BY <1>1, <2>1, <2>2, StaysTooLate
  <2>3. ASSUME db'.invite[i] = db.invite[i],
               request' = request \/ \E w \in Workers : Return(w)
        PROVE  NobodyNew
    BY <2>1, <2>3 DEF Return, CameInTime, Idle
  <2>4. ASSUME NEW w \in Workers, Arrive(w) PROVE TooLate(i)'
    <3>1. PICK r : Begin(w, r) /\ r.now = time
      BY <2>4, CameNow
    <3>2. /\ db' = db /\ time' = time
          /\ request'[w] = r /\ \A v \in Workers \ {w} : request'[v] = request[v]
      BY <2>1, <3>1 DEF Begin
    <3>3. ~CameInTime(w, i)'
      BY <1>1, <2>1, <3>1, <3>2 DEF TooLate, CameInTime
    <3>4. NobodyNew
      BY <3>2, <3>3 DEF CameInTime, Idle
    <3> QED BY <2>2, <3>2, <3>4
  <2>5. ASSUME NEW w \in Workers, Accept(w) \/ InsertList(w) PROVE TooLate(i)'
    BY <1>1, <2>2, <2>5, SameErrand
  <2>6. ASSUME NEW w \in Workers, Commit(w) PROVE TooLate(i)'
    <3>1. db'.invite[i] = db.invite[i]
      BY <1>1, <2>6, CommitInTime DEF TooLate
    <3> QED BY <2>2, <2>3, <2>6, <3>1 DEF Commit
  <2>7. ASSUME \/ \E u \in Users, l \in ChoreListIDs : LeaveList(u, l)
               \/ EnsureSystemUser
               \/ GenerateInvite
               \/ \E w \in Workers : InsertInvite(w) \/ RemoveInvite(w)
        PROVE  TooLate(i)'
    <3>1. db'.invite[i] = db.invite[i] /\ time' = time
      BY <1>1, <2>1, <2>7, InviteUntouched
    <3>2. request' = request \/ \E w \in Workers : Return(w)
      BY <2>7 DEF LeaveList, EnsureSystemUser, GenerateInvite, InsertInvite, RemoveInvite
    <3> QED BY <2>2, <2>3, <3>1, <3>2
  <2>8. ASSUME Start \/ Tick \/ \E w \in Workers : Fail(w) PROVE TooLate(i)'
    <3>1. db' = db /\ (time' = time \/ time' = time + 1)
      BY <2>8 DEF Start, Tick, Fail
    <3>2. request' = request \/ \E w \in Workers : Return(w)
      BY <2>8 DEF Start, Tick, Fail
    <3> QED BY <2>2, <2>3, <3>1, <3>2
  <2>9. CASE Crash
    <3>1. db' = db /\ time' = time /\ \A v \in Workers : request'[v] = NoRequest
      BY <2>9 DEF Crash
    <3>2. NobodyNew
      BY <3>1 DEF CameInTime, Idle
    <3> QED BY <2>2, <3>1, <3>2
  <2> QED BY <1>1, <2>4, <2>5, <2>6, <2>7, <2>8, <2>9 DEF Next, Serve
<1>2. IInv /\ [Next]_vars =>
        [\A i \in InviteIDs : TooLate(i) =>
           TooLate(i)' \/ \E w \in Workers : RemoveInvite(w) /\ request[w].invite = i]_vars
  BY <1>1
<1> QED BY <1>2, InvariantHolds, PTL DEF Spec, ExpiredForGood

-----------------------------------------------------------------------------
(* What the promise comes to *)

\* Whatever is proved of the promise of Admission holds of the program that keeps it.
Proved == INSTANCE AdmissionProofs WITH
  Invites <- InviteIDs, Names <- Usernames, NoPlace <- NoList, Host <- SystemUser,
  people <- db.user, called <- Called, place <- db.choreList, member <- db.member,
  open <- Open

\* It is the same promise.
LEMMA SamePromise == Promise!Spec => Proved!Spec
<1>1. Promise!Init => Proved!Init
  BY DEF Promise!Init, Proved!Init
<1>2. ASSUME NEW i, NEW l
      PROVE  /\ Promise!Issue(i, l) => Proved!Issue(i, l)
             /\ Promise!Withdraw(i, l) => Proved!Withdraw(i, l)
  BY DEF Promise!Issue, Proved!Issue, Promise!Withdraw, Proved!Withdraw
<1>3. ASSUME NEW i, NEW l, NEW p
      PROVE  Promise!Spend(i, l, p) => Proved!Spend(i, l, p)
  BY DEF Promise!Spend, Proved!Spend
<1>4. ASSUME NEW i, NEW l, NEW p
      PROVE  /\ \A n : Promise!Welcome(i, l, p, n) => Proved!Welcome(i, l, p, n)
             /\ Promise!Join(i, l, p) => Proved!Join(i, l, p)
  BY <1>3 DEF Promise!Welcome, Proved!Welcome, Promise!Join, Proved!Join
<1>5. ASSUME NEW l, NEW p
      PROVE  /\ Promise!OpenPlace(l, p) => Proved!OpenPlace(l, p)
             /\ Promise!Leave(l, p) => Proved!Leave(l, p)
  BY DEF Promise!OpenPlace, Proved!OpenPlace, Promise!Leave, Proved!Leave
<1>6. Promise!HostArrives => Proved!HostArrives
  BY DEF Promise!HostArrives, Proved!HostArrives
<1>7. Promise!Next => Proved!Next
  BY <1>2, <1>4, <1>5, <1>6 DEF Promise!Next, Proved!Next
<1>8. [Promise!Next]_(Promise!admission) => [Proved!Next]_(Proved!admission)
  BY <1>7 DEF Promise!admission, Proved!admission
<1>9. QED
  BY <1>1, <1>8, PTL DEF Promise!Spec, Proved!Spec

\* There are never more users, the system user aside, than invites were issued: no two
\* requests get an account each for one invite, whatever they read, whoever commits first.
THEOREM AccountsAreInvited == Spec => []NobodyUninvited
<1>1. Proved!NobodyUninvited => NobodyUninvited
  BY DEF NobodyUninvited, Promise!NobodyUninvited, Proved!NobodyUninvited,
         Promise!Cardinality, Proved!Cardinality
<1>2. QED
  BY <1>1, PromiseKept, SamePromise, Proved!InvitesCoverPeople, PTL DEF ImplementsAdmission

\* Nobody turns up on a list that is there already but by an invite to it, used up by the
\* same COMMIT.
THEOREM MembersAreInvited == Spec => EveryMemberInvited
<1>1. [\A m \in db.member' \ db.member :
         m[1] \in db.choreList =>
           \E i \in InviteIDs : <<i, m[1]>> \in Open \ Open']_(Proved!admission) =>
      [\A m \in db.member' \ db.member :
         m[1] \in db.choreList =>
           \E i \in InviteIDs : <<i, m[1]>> \in Open \ Open']_(Promise!admission)
  BY DEF Promise!admission, Proved!admission
<1>2. QED
  BY <1>1, PromiseKept, SamePromise, Proved!InvitesCoverMembers, PTL
     DEF ImplementsAdmission, EveryMemberInvited, Promise!EveryMemberInvited,
         Proved!EveryMemberInvited

=============================================================================
