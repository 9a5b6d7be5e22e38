# Formal model of chore-tracker

chore-tracker is a web application for the chores of a household: a Go server
that renders HTML, a SQLite database behind it, and browsers that send forms.
This directory holds TLA+ modules translated from its source, TLC configurations
that check them on small instances, and proofs that TLAPS checks for every
instance. Paths below are relative to `src/`.

## The system

Every request runs in a goroutine of its own, started by `net/http`; there are no
locks in the program and no background tasks. What is shared is the database and
one map of sessions. Hence everything that can go wrong between two actors goes
wrong **between two SQL statements of one handler**, or across a restart.

| component | source | state | operations | modelled in |
|---|---|---|---|---|
| Chores: rules and dates | `internal/core/chore.go`, `service.go` | none (values) | `NextCompletion`, `Validate`, what each query writes | `Chore` |
| Chore service and handlers | `internal/core/chore.go`, `service.go`, `internal/cdb/query.sql.go` | tables `chore`, `chore_event`; requests in flight; transactions | add, complete, snooze, expedite, edit, delete | `ChoreLedger`, `ChoreService`, `ChoreTransactions` |
| Chore lists and members | `internal/core/chore_list.go` | tables `chore_list`, `chore_list_members` | new, leave (rename is left out) | `ChoreService`, `Invites` |
| Users and invites | `internal/core/invite.go`, `pkg/auth/invite.go`, `internal/core/run.go` | tables `user`, `password_auth`, `invitation` | accept, issue, withdraw, `GenerateInvite` | `Invites`, `Admission` |
| List page | `internal/core/chore_list.go`, `static/templates/chore_list.page.gohtml` | the page on a screen | query, stable sort, sections, choice of the button | `ListView` |
| Sessions | `pkg/auth/auth.go`, `inMemoryTokenStore.go`, `internal/core/auth.go` | sessions in memory, refresh tokens in the database, two cookies | login, refresh, renewal, logout, middleware | `Sessions`, `SessionPromises` |
| Charts and calendar export | `internal/core/chore_list.go`, `view.go`, `static/templates/calendar.goics` | none | the calendar is part of `ListView`, the chart is left out | `ListView` |
| Settings page | `internal/core/settings.go` | none | read-only page | not modelled |
| Views, templates, static files | `internal/core/view.go`, `pkg/httpu` | none | rendering, redirects | not modelled |
| Startup, configuration, migrations | `internal/core/run.go`, `cmd/main.go` | flags, schema | `GenerateInvite` and restarts are part of `Invites` | partly |

How they interact: the middleware of the sessions hands every handler a user; the
handlers look up rows **through the membership tables**, so that a chore is visible
to the members of its list; invites add members; the list page offers the buttons
whose forms the chore handlers serve.

### What is hard

- A chore handler looks the chore up in one statement and writes in another. Between
  the two the chore may be completed, snoozed, edited or deleted, its user may leave
  the list, midnight may pass. `Validate` copies what was looked up into what is
  written.
- `Complete` and `changeSnooze` commit in a `defer` that drops the error.
- `snoozed_for` is computed from itself and a signed distance between two dates.
- `repeats_left` uses -1 as "forever" and counts down towards it.
- `InviteAccept` runs up to four statements that must all count or none, while
  others run the same with the same invite or the same user name.
- `GenerateInvite` runs its statements without a transaction, at a start that may be
  cut off.
- The page of a list is made from two readings of the date, and then grows old.
- `changeSnooze` reads before it writes in one transaction, over a database whose
  locks cover the whole file: two of them can each hold what the other waits for.
- The sessions live in memory and the refresh tokens in the database: a restart keeps
  one and loses the other. A user has many tokens of each kind, and a sign-out must find
  them all.
- The tabs of a browser share their cookies, and the answers to their requests arrive in
  any order; each may set cookies, delete them, or be lost.
- Three handlers redirect a browser to one another according to two cookies, each of
  which can be missing, good, near its end, expired or revoked.
- The calendar and the page decide by comparisons of their own what is overdue.

`PROJECT.json` lists each hazard at its line with the properties that watch it.

## The modules

### Chore

The pure part: the row (`Row`), the form as `FromForm` decodes it (`Input`), due
dates (`NextCompletion`, `DurationToNextFrom`), the checks of `Validate` (`ValidNew`,
`ValidEdit`, `Resolve`) and what each query writes (`NewRow`, `CompletedRow`,
`UpdatedRow`, `SnoozedRow`). Dates and durations are numbers of days, as in the
`date` package; 0 is the zero date. Names and links are left out, except that a name
may be missing. Two things the code does that are easy to overlook are kept:
`Update` passes no `snoozed_for`, so an edit ends a snooze; and an edit is checked
against the type of the row, not of the form.

### ChoreService

State: the five tables a chore request touches (`choreList`, `member`, `chore`,
`event`, and `issued`, the history of identifiers drawn), the `day`, and for each
worker the `request` in flight and its last `reply`. `event[c][d]` counts the
completions of chore `c` dated `d`.

Each handler is two actions. `BeginX` is everything up to and including the look-up:
what it read is kept in `request[w]`. `XCommit` is the statement or transaction that
writes; it may run much later, on a database that has moved on. Other actions:
`Refuse` (bad form, invisible chore), `Abort` (a statement fails, all rolled back),
`CommitLost` (the deferred `COMMIT` fails and nobody notices), `Crash`, `CreateList`,
`LeaveList`, `JoinList`, `Tick` (midnight). For snooze and expedite the look-up of the
handler is part of no step: the transaction repeats it and uses nothing of the first. A
completion whose form names no day takes one step more, `DateCompletion`: `Complete` reads
the date when the handler has already looked the chore up.

A transaction is one step here; `ChoreTransactions` shows that it may be.

### ChoreTransactions

The transactions of `Complete` and `changeSnooze`, statement by statement, over the locks
of SQLite: `InsertEvent`, `UpdateCompleted`; `LookUp`, `UpdateSnoozed`; `StartCommit` and
`Commit`. `tx[w]` is where the transaction of a worker stands, with the lock it holds and
the row it has read; `draft` is what the one writer has made of the tables. The locks are
those of a database with a rollback journal, which is SQLite's default and which nothing
in `src/` changes, and with a cache for each connection: SHARED for a reader, RESERVED for
the one writer, PENDING while a commit waits for the readers to leave. (The `Dockerfile`
asks for `cache=shared`; the driver of `go.mod` runs every connection as a WebAssembly
instance of its own, which cannot share one.) A statement that meets a lock waits; a
reader that wants to write and finds a writer is told `SQLITE_BUSY` at once (`MustGiveUp`,
`GiveUp`). `RollBack` is every other failure, the busy timeout among them. Statements
outside transactions commit by themselves (`AutoCommit`), in one step that takes no lock for
longer: one of them that has to wait is not seen to wait. The statements that may have to
wait name their guard (`CanUpdateCompleted`, `CanUpdateSnoozed`, `CanStartCommit`,
`CanCommit`), so that `NobodyStuck` can speak of who could go on.

`ImplementsService` is the specification of `ChoreService`, of which this module is an
extension: `LookUp`, the statements and `StartCommit` stutter, `Commit` is the commit there.

### ChoreLedger

What the service promises, with no requests and no rows: a chore is created once,
completed on days, edited, removed once and never seen again; what is left counts
down; the last completion is 0, the chore's own date, or a day on which something was
completed. `ChoreService` implements it under the mapping `Ledger` (status from
`chore` and `issued`, `last` and `left` from the row): the property `ImplementsLedger`.

### Invites and Admission

`Invites` models the handlers about users, lists and invites statement by statement. `db`
is what is committed, `txdb` what the one writer sees, `writer` who it is. A request's
`next` is the statement it runs next: `InsertUser`, `InsertPassword`, `RedeemInvite`
(`DELETE ... RETURNING`), `InsertMember`, `Commit`; `InsertList` for a new list;
`InsertInvite` and `RemoveInvite` outside transactions. `Fail` may happen before any of
them and runs the deferred rollback. `EnsureSystemUser` and `GenerateInvite` are the two
halves of a start that is to generate an invite; `Crash` may fall between them. Time
passes with `Tick`; an invite that expires between the handler's look at the clock and the
`DELETE` is still accepted, as in the code. Password and token contents are left out.

`Admission` is the promise: an invite is issued once and then spent on one person,
together with all the person gets for it, or withdrawn; nobody comes in without one
except the host (the system user); a name belongs to one person; a list has its
opener for a member from its first moment. `ImplementsAdmission` says that every commit
of `Invites` is one such step. What the promise comes to is stated of the promise itself
(`NobodyUninvited`, `EveryMemberInvited`) and holds of `Invites` through the mapping.

### Sessions and SessionPromises

`Sessions` has the two stores (`sessions` with its index `userSessions`, `tokens`), the
`jar` of cookies of each browser, and in `tab[t]` the request of a tab: which step its
handler is at, for which user, the cookie it carried and the cookies that its answer will
set. `Middleware` looks the session up and decides on a page, a renewal or a redirect;
`RefreshAccepted` and `RefreshRefused` are the two outcomes of `RefreshHandler`; `Refused`
and `Authenticated` those of the provider; `StoreSession` and `StoreToken` are
`generateStoreAndSetSessionCookie` with each store; `DeleteSessions` and `DeleteTokens`
the two halves of a sign-out. `Deliver` puts the cookies of an answer into the jar,
`Follow` goes where a redirect points. Trouble, at most `MaxTrouble` times: `Lost`
answers, failing statements (`RefreshFailed`, `StoreTokenFails`, `DeleteTokensFails`),
tokens that age (`SessionAges`, `TokenAges`) and `Restart`.

Kept because the code does it, and worth knowing: a renewal leaves the old token in its
store; a refused refresh deletes both cookies; the login page of a browser without a session
does not try to refresh; a sign-out without a good session deletes the cookies and nothing
else; nobody looks at the error of the second half of a sign-out.

Simplified: a token is a member of the set that a browser may draw from, and a new one is
one that nobody holds any more, so that a handful stands for random strings that never
repeat. The hop from `/sessions/refresh` to `/sessions//refresh` and the one from `/` to
`/chore-lists/` are part of the redirects that lead to them. Left out: that no random
bytes can be had, and the forms of the chore and list handlers: their requests pass through
the same middleware, but keep their method over its redirect and the one back. The in-memory
store cannot fail.

`SessionPromises` observes `Sessions` with three history variables: `remembered`, whom a
browser was told to remember; `signedOut`, who signed out and did not give the password
again; and `alone`, which sign-ins and sign-outs met no other request on their way. The
promises are about those, because the code leaves the rest to chance: a refresh that was
accepted just before a sign-out stores its session just after it, and a refusal that is on
its way when the user signs in elsewhere takes the new cookies with it.

### ListView

The page of a list. `Read` is `ChoreListPage` reading the date, `Render` is the query, the
stable sort by due date (`ByDue`: the chore with so many `InFront`), the single pass that
deals the sorted chores out to the six headings (`Sections`, with the loop index of the
code in `Taken` and `Ends`), and the button of each chore (`SnoozeOffered`), for which the
template reads the date again. `Export` is the calendar: an entry for each chore that is
left, those overdue moved to today (`NextCompletionOf`); the checks of its key and its list
come before it and only refuse. `date.Max`, the limit of the last
heading, is `Latest`: a day later than any chore is due, which `LatestAssumption` spells
out. The page then stays while `AddChore`, `CompleteChore`, `SnoozeChore` and `NextDay` go
on. Each button of one page really reads the date for itself; the model takes these
readings as one.

## The runs

| run | instance | checks |
|---|---|---|
| `chore_race` | 2 workers, 1 user, 1 chore, 3 days, 3 forms | `TypeOK`, `ShapeOK`, `NoOrphanEvents`, `LastCompletionRecorded`, `SnoozedIsSoon`, `RepeatsAccountedFor`, `SnoozeDirection`, `ImplementsLedger` |
| `household` | 1 worker, 2 users, 2 chores, 1 day, 4 forms | `ImplementsLedger`, `CompletionSurvivesEdit` |
| `lost_commit` | 1 worker, 1 chore | violates `AcknowledgedCompletionStored` |
| `twice_done` | 2 workers, 1 oneshot chore | violates `OneshotNeverForever` |
| `stale_edit` | 2 workers, 1 chore | violates `CompletionSurvivesEdit` |
| `invite_race` | 2 workers, 2 users, 2 names, 3 invites, 1 list, 2 moments | `TypeOK`, `AccountsComplete`, `NobodyUninvited`, `EveryMemberInvited`, `ExpiredForGood`, `ImplementsAdmission` |
| `invite_lock` | the same with 2 invites and 1 name | `LockInUse`, `StatementsRunOut`, `WriterReleased`, `StartGoesOn` |
| `list_page` | up to 3 chores of 3 kinds, 2 days, a week of 3 and a month of 5 days | `TypeOK`, `RightSection`, `InDueOrder`, `OfferStands`, `CalendarAgrees` |
| `chore_transactions` | 2 workers, 1 user, 1 chore, 2 days | `TypeOKT`, `ImplementsService`, `NobodyStuck`, `StatementsRunOut`, `LocksReleased` |
| `sessions_one_tab` | 1 browser, 1 tab, 2 users, 4 troubles | `TypeOKP`, `RememberedStaysIn`, `SignedOutMeansOut`, `EveryNavigationLands` |
| `sessions_two_browsers` | 2 browsers with a tab each, 1 user, 1 trouble | `RememberedStaysIn`, `SignedOutMeansOut` |
| `sessions_two_tabs` | 1 browser with 2 tabs, 1 user, 1 trouble | `RememberedStaysIn`, `SignedOutMeansOut`, `EveryStepNearer`, `SetBackOnlyBy` |

Why these bounds are enough to be of interest: two workers is what every race in this code
needs, since each is one handler's stale read against another's write; one chore is enough
because a chore handler writes one row, and `household` has two chores because an
identifier used twice needs a chore that was deleted. Three days give a yesterday, a today
and a tomorrow for a snooze that crosses midnight. `MaxRepeats = 2` gives a count that
runs out, and lets a completion run it below zero. `MaxEvents` bounds the completions of
one chore on one day. Three invites are one for each user and the one of `GenerateInvite`;
a time of two moments lets an invite of the boot expire. In `list_page` every one of the
six headings is reached. Four troubles are a renewal, an expiry of each kind and a restart
in one history; with two tabs or two browsers the interleaving is what matters, and one
trouble at each of its points. `Draws` is no bound on histories: one tab holds at most two
tokens of a kind at a time and two tabs at most three, so a draw never fails. `MaxDate`,
`MaxEvents`, `MaxRepeats`, `MaxTime`, `MaxChores`, `MaxTrouble`, `Draws` and `Latest` are
bounds of the model and not of the program. Users, workers, identifiers and invites are
interchangeable, so `chore_race`, `household` and `invite_race` use symmetry, which is
sound for the safety they check; the runs with a liveness property and the others do
without. No run switches deadlock checking off.

### What the passing runs show

- **ShapeOK**: edits checked against a stale row never give a chore the wrong shape,
  because the type of a row never changes.
- **NoOrphanEvents**: a completion that loses the race against a delete leaves nothing,
  thanks to the foreign key alone (the `UPDATE` would not notice).
- **LastCompletionRecorded**: even a stale edit writes back a day on which the chore was
  completed, never an invented one.
- **SnoozedIsSoon**, **SnoozeDirection**: the signed arithmetic of `changeSnooze` never
  adds up, whatever was committed since the handler read the date.
- **RepeatsAccountedFor**: the count of a chore that is to be done once agrees with its
  events: none left means that it was completed, and -1 that it was completed twice. No
  edit, however late, and no single completion makes it repeat for ever.
- **CompletionSurvivesEdit** (`household`): with one request at a time, an edit never undoes
  a completion; `stale_edit` shows what a second one does.
- **ImplementsLedger**, **ImplementsAdmission**: all of it, step by step.
- **AccountsComplete**: no half account and no name twice, though two INSERTs and a
  `DELETE ... RETURNING` have to succeed for one account.
- **NobodyUninvited**: there are never more people, the host aside, than invites were issued
  and are no longer open, whoever races for the last of them.
- **EveryMemberInvited**: whoever turns up on a list that was there has used up an invite to
  that list, in the same commit.
- **ExpiredForGood**: an invite that has ended lets in only those who came for it in time,
  however long a request takes from its look at the clock to its `DELETE`, which compares
  with the time of the one and not of the other. `Admission` has no clock and cannot say so.
- **StartGoesOn**: `GenerateInvite` gets past the system user, whatever a start that was cut
  off has left behind.
- **WriterReleased**: every error path ends its transaction, because whoever holds the write
  lock is being served (**LockInUse**) and each of its steps leaves it fewer statements to go
  (**StatementsRunOut**).
- **RightSection**, **InDueOrder**: the one-pass loop over a sorted list loses no chore.
- **OfferStands**: a button does what it offers on the day it was rendered, and a snooze
  button on every later day, if the chore was not changed.
- **CalendarAgrees**: the two notions of "overdue" are one.
- **ImplementsService**, **TypeOKT**: statement by statement, the transactions do what
  `ChoreService` does in a step, because the look-up of `changeSnooze` goes through the
  transaction (`txc`) and not past it: a reader keeps the writers from committing.
- **LocksReleased**: two postponements that have both read do not wait for each other, even
  if no timeout ever came to their help, because among those who hold a lock there is always
  one whose next statement has nothing in its way (**NobodyStuck**), and none runs a
  statement twice (**StatementsRunOut**).
- **RememberedStaysIn**: whoever ticked the box stays in, whatever tabs do at the same time,
  because an old refresh token stays good when a new one is made.
- **SignedOutMeansOut**: the index by user misses no session and the query no token, those
  that answers on their way were lost with included.
- **EveryNavigationLands**: no combination of stale cookies is a redirect loop, because a
  refused refresh deletes both and the login page asks for neither.
- **EveryStepNearer**, **SetBackOnlyBy**: why it is so. `StepsToPage` is how many steps a tab
  may be from its page, and every step of its request brings it nearer, whatever the other
  tabs do; only time, a failure, a restart, a sign-out, or an answer to another tab of the
  same browser takes it further away.

### What the violated runs show

- `lost_commit`: `Complete` drops the error of its deferred `COMMIT`
  (`service.go:191`), so the browser is told that a completion was stored when it was not.
- `twice_done`: a second completion of a oneshot turns `repeats_left` from 0 to -1, which
  means forever; the finished chore is back on the page for good.
- `stale_edit`: an edit that read the chore before a completion writes the old last
  completion back after it; the chore is due again although its event is on record.

A counterexample shows one way in which a claim fails; that there is no other is proved, as
the claim under the hypothesis that names the way (`ChoreServiceProofs`):

| claim | holds if | theorem |
|---|---|---|
| `AcknowledgedCompletionStored` | no deferred `COMMIT` fails (`CommitsSucceed`) | `OnlyALostCommitLies` |
| `OneshotNeverForever` | nobody completes a chore that has nothing left (`OnlyListedCompleted`) | `OnlyACompletionTooManyRepeats` |
| `CompletionSurvivesEdit` | no completion commits while an edit of the same chore is under way (`EditsNotOvertaken`) | `OnlyAnOvertakenEditUndoes` |
| `CompletionSurvivesEdit` | one request is served at a time (`OneAtATime`) | `CompletionSurvivesOneAtATime` |

The hypotheses are about the steps of a behaviour, not about constants, and behaviours that
satisfy them exist: `household` checks one of the claims over a whole instance where the last
of them is met, since it has one worker.

### Fairness

The safety properties assume none: any step may never come. `invite_lock` assumes weak
fairness of `Serve(w)` for each worker, that is, a request that was taken up goes on: its
goroutine is scheduled, and a statement that finds the database locked waits for SQLite's
busy timeout at most and then fails, which is a step of `Serve(w)` too; and of `EnsureSystemUser`, that is, a start that is cut
off is tried again, and not cut off before its first `INSERT` for ever.
`chore_transactions` assumes less, weak fairness of `Proceed(w)`: the next statement is
run once no lock is in its way; no failure, no timeout and no restart is assumed to
happen, so that locks are not released by one. `sessions_one_tab` assumes weak fairness of
each tab's `Step`: handlers run, answers arrive unless they are lost, and a browser
follows redirects; what a user opens, sends or signs out of is up to the user, and a tab
that has landed need not move. Nothing is assumed of restarts, midnight, age or success.

## The proofs

Every safety property that a passing run checks, the refinements included, is proved for
all values of the constants: any number of users, workers, chores, lists, invites,
browsers, tabs and tokens, any forms and bounds.

### The chore service

`ChoreServiceProofs` proves, for any users, workers, chores, lists, forms and days:

| theorem | statement |
|---|---|
| `InvariantHolds` | `Spec => []IInv` |
| `TypeCorrect`, `ShapeCorrect`, `NoOrphans`, `LastCompletionOnRecord`, `SnoozedDueSoon` | `Spec => []TypeOK`, `[]ShapeOK`, `[]NoOrphanEvents`, `[]LastCompletionRecorded`, `[]SnoozedIsSoon` |
| `RepeatsOnRecordAlways` | `Spec => []RepeatsAccountedFor` |
| `SnoozeDirectionHolds` | `Spec => SnoozeDirection` |
| `LedgerImplemented` | `Spec => ImplementsLedger` |

and the four conditional theorems of the violated runs, above.

`ChoreProofs` holds the lemmas about the operators of `Chore`; `SnoozeLands` is one of
interest by itself: what `changeSnooze` writes makes a chore due exactly `snoozeFor` days
after the day it was given.

The invariants are not inductive by themselves: an `UpdateCommit` writes what a
`BeginUpdate` read long ago. `IInv` adds what requests in flight carry (`RequestsOK`): an
add carries a valid form, a postponement a day that has come, and an edit a type, a shape
and a last completion that fit the row *however much it has changed since*. That last part
(`EditOK`) is the heart: it is stable because no statement changes the type of a row, and
because events only disappear together with their chore, whose identifier (`IssuedOK`) is
never drawn again. The proof splits the tables into chores (`ChoreOK`) and the workers
into requests (`RequestOK`); a step restores the chore it writes and the request it
serves, and two lemmas (`OtherChore`, `OtherRequest`) carry all the others over. The
refinement maps each commit to one entry of the ledger and every other step to a stutter.

`RepeatsAccountedFor` needs of `EditOK` that an edit under way will set the repeats of a
chore that is done once to 1, so that no old count is ever written back; and it counts
events (`CompletedTwice`), which a chore only gains as long as it is stored. The theorem
about edits has an invariant of its own, `FreshEdits`: while no completion overtakes it, an
edit under way still carries the last completion that is in the row.

### Its transactions

`ChoreTransactionsProofs` proves `TransactionTypes` (`[]TypeOKT`), `ServiceImplemented`
(`ImplementsService`) and `LedgerKept`: with `LedgerImplemented`, the statements implement
the ledger. The invariant `TInv` (theorem `TransactionsIsolated`) takes `IInv` along and
adds `OneWriter` and, for each transaction, what its statements have established (`TxOK`):
the row that a postponement has seen is the row that is there, and the draft is what its
commit in `ChoreService` would write. The first is what the SHARED lock buys: no other
worker commits while it is held. Without it a draft would be built on a row gone stale.

`NoDeadlock` and `NoStatementTwice` prove `NobodyStuck` and `StatementsRunOut`, in two
lemmas. Whoever holds a lock can go on, unless it is a commit that waits for readers
(`OnlyCommitWaits`): a reader that would write either gets the writer's place or is sent
away. And the readers that a commit waits for are not committing themselves, since there is
one writer, so that they can go on (`ReadersGo`).

### Users and invites

`InvitesProofs` proves `InviteTypes`, `NoHalfAccounts`, `PromiseKept`, `LockNeverLeaked`
(`LockInUse`), `EveryRequestShortens` (`StatementsRunOut`) and `EndedInvitesStayShut`
(`ExpiredForGood`).
`AccountsComplete` says nothing of a transaction in the middle, so it cannot be inductive;
`IInv` adds for each worker (`Stands`) that `txdb` is `db` with exactly the rows that the
statements so far have added, by the `next` of its request, and that what it found before
is still so: its name is free, its user new, its invite there and good when the request
came. The others cannot undo that
because the committed tables belong to the writer until it commits (`OthersStand`), and
because nobody is ever deleted from table `user`. `MembersExist` and `InvitesExist` say
the same of the rows that others refer to. For `EndedInvitesStayShut` that last part is what
matters (`HasInvite`): a commit that takes an invite away found it good at the time that its
request had read, so the request is one of those that came in time (`CommitInTime`), and
what a request has read it does not read again (`CameNow`).

`AdmissionProofs` proves of the promise alone, for any number of people and invites, that
`InvitesCoverPeople` and `InvitesCoverMembers`. The count needs its sets to be finite and an
open invite to be one that was issued (`Counted`): only then does issuing one add to both
sides. `InvitesProofs` then takes the results over without a proof about requests: it
instantiates `AdmissionProofs` under the same mapping (`SamePromise`), so that
`AccountsAreInvited` and `MembersAreInvited` follow from `PromiseKept`.

### Sessions

`SessionsProofs` proves `SessionTypes`, `SignedOutIsOut` and `RememberedIsIn` in three
layers. `Shapes` says what a tab can carry at each step, that a browser only ever has
tokens drawn for it, and that a session is listed under its user. `OutInv` adds to
`SignedOutMeansOut` that no request is about to store anything for a user who signed out,
and that a sign-out which is alone has, between its two halves, emptied the first store
for good. `InInv` adds to `RememberedStaysIn` what a sign-in that is alone carries at each
step (`SignInAlone`): the other tabs of its browser are at rest, and the token it will
bring is good. `OutInv` and `InInv` both rest on `Shapes` and do not need each other.

All of these are stated of `SpecP`, the program with the history variables. `Shapes` is about
the program alone: it is an invariant of `Spec` (`ShapesHold`), and the promises take it over
because each of their steps is one of the program (`Observes`).

`NavigationProofs` proves of the program (`Spec`) what stands behind `EveryNavigationLands`: `NavigationCountsDown`
(`EveryStepNearer`), `SetBackByFew` (`SetBackOnlyBy`) and `SeventeenStepsAtMost`, that the
count is a number from 0 to 17 and 0 exactly for a tab at rest. `Shapes` is all they need,
including that a sign-out has both cookies to delete: what a handler will do depends on the
path, on the cookie that came with the request and on the one that the answer will leave.

### The list page

`ListViewProofs` proves `PageTypes`, `EveryChoreInItsSection`, `PageInDueOrder`,
`OfferHolds` and `CalendarHolds`, for a list of any length and limits in ascending order.
No induction is needed over the list: `Least` gives a least element of any nonempty set of
numbers, and with it the inner loop stops. `Sorted` shows that `ByDue` lists every chore
once, because the number of chores in front tells two chores apart and never reaches the
number of all (`Ranks`). `SectionEnd` is the loop invariant: after section `i` exactly the
chores that fit `i` are in front of the index (`Dealt`), which needs the list to be sorted
by the key that the limits compare. The invariant of the page keeps that every chore is
due before `Latest` (`DueInTime`), or the last heading would lose it.

### From which assumptions

The named assumptions of the modules, which say that bounds are numbers, that forms and
rows are well typed and that markers such as "no row", "no request" or "no token" are not
values; and `LatestAssumption`, above. TLC evaluates all of them on every run.

Only model-checked: liveness (`WriterReleased`, `StartGoesOn`, `LocksReleased`,
`EveryNavigationLands`),
which is out of the prover's reach, as is `ENABLED` and with it weak fairness. What
the three that release or land say beyond fairness is proved: a measure that every step of the request lowers,
and that nobody else raises (or only by `SetBackOnlyBy`), and for the locks that somebody can
always go on. That a measure that keeps falling reaches 0 is the induction left to TLC.

## Assumptions of the models

- SQLite serialises writers, isolates a transaction until it commits and rolls back one
  that does not; its locks are those described under `ChoreTransactions`.
- Foreign keys are enforced on every connection. The migration sets the pragma once
  (`static/migrations/0001_initial.sql:2`), which by itself reaches one connection of the
  pool; the rest rests on the driver, which to our knowledge enables them on every connection
  it opens. A mutant of the model (`AnyChore`) shows what they keep from happening.
- `NewId` and `sid.NewString` never draw the same twice.
- One server process owns the database.
- A date is monotone: `date.Today()` never goes back.
- Renaming a list, links, names of chores, passwords and layout are left out: no other
  step depends on them.

## Not modelled

- **Charts**: a count of events by day from one query, nothing depends on it.
- **Settings, views, templates, static files**: they show what other handlers
  read; the part of a template that decides something (`chore_list.page.gohtml`, the choice
  of the button; `calendar.goics`) is in `ListView`.
- **Migrations and configuration**: run once, before any request, in one goroutine.
- **Renaming a list**: one `UPDATE` of a column that no step reads.

## Plan

Done, in the order in which it was built: `Chore`, `ChoreService`, `ChoreLedger` and their
proofs; `Invites` and `Admission`; `ListView`; `Sessions` and `SessionPromises`;
`ChoreTransactions`; the proofs of all of them; the safety behind each liveness property and
its proof (`NavigationProofs` among them); the consequences of the promise
(`AdmissionProofs`); and the conditions under which the violated claims hold.

What is left:

1. Composition: the members of `ChoreService` as those that `Invites` seats. `ChoreService` lets
   anybody be added to a list at any time (`JoinList`), which allows all that `Invites` does, so
   its properties hold in the composition; what would be new is that a request acts for a user
   whom `Invites` admitted and whom `Sessions` let in.
2. The window that `alone` leaves out in `SessionPromises`: how long a user can stay in after a
   sign-out that a refresh overlapped (as long as the session that it stored is used,
   since the middleware renews it).
3. Proofs: that the history variables of `SessionPromises` never hold up a step, so that every
   behaviour of `Sessions` has one of theirs; a bound on how often a tab can be set back by
   another tab of its browser; more of what the ledger comes to, in the way of
   `AdmissionProofs`.
