--------------------------- MODULE NavigationProofs ---------------------------
(***************************************************************************)
(* Proofs that no navigation goes round in circles, for any number of      *)
(* browsers, tabs, users and tokens: StepsToPage counts down with every    *)
(* step of a tab's request, is 0 when the tab is at rest and never above   *)
(* 17, and grows for the reasons SetBackOnlyBy lists and for no other.     *)
(* They rest on Shapes, the invariant of SessionsProofs.                   *)
(***************************************************************************)
EXTENDS SessionsProofs

-----------------------------------------------------------------------------
(* Counting steps *)

\* What the handler of a path needs, at most and at least.
LEMMA StepsForBounds ==
  ASSUME NEW path, NEW good \in BOOLEAN
  PROVE  /\ StepsFor(path, good) \in 0 .. 14
         /\ path \in {"page", "login", "logout", "refresh"} => StepsFor(path, good) \in 2 .. 14
         /\ StepsFor("page", good) \in 3 .. 11
         /\ StepsFor("refresh", good) = 8
BY DEF StepsFor

\* The count is a small number, and 0 for a tab at rest only.
LEMMA StepsLeftBounds ==
  ASSUME NEW b \in Browsers, NEW r, TabOK(r, b),
         NEW known \in BOOLEAN, NEW checked \in BOOLEAN
  PROVE  /\ StepsLeft(r, known, checked) \in 0 .. 17
         /\ StepsLeft(r, known, checked) = 0 <=> r.next = "rest"
<1>1. /\ r.next \in {"rest", "send", "land", "redirect"} \cup Steps
      /\ r.next = "verify" => r.path \in {"page", "login", "logout", "refresh"}
  BY DEF TabOK, ShapeOK, Tab, Answers
<1>2. /\ StepsFor(r.path, known) \in 0 .. 14
      /\ StepsFor("page", known) \in 3 .. 11
      /\ r.next = "verify" => StepsFor(r.path, checked) \in 2 .. 14
  BY <1>1, StepsForBounds
<1>3. QED
  BY <1>1, <1>2 DEF StepsLeft, Steps

LEMMA KnownOrNot ==
  ASSUME NEW store, NEW x
  PROVE  Valid(store, x) \in BOOLEAN /\ ~Valid(store, NoToken)
BY DEF Valid

-----------------------------------------------------------------------------
(* Every step counts down *)

LEMMA PageLeft ==
  ASSUME NEW path, NEW set, NEW known, NEW checked
  PROVE  StepsLeft(Page(path, set), known, checked) = 1
BY DEF StepsLeft, Page, At

LEMMA RedirectLeft ==
  ASSUME NEW path, NEW set, NEW known, NEW checked
  PROVE  StepsLeft(Redirect(path, set), known, checked) = 2 + StepsFor(path, known)
BY DEF StepsLeft, Redirect, At

\* The count before a step and after it, by what they are made of.
LEMMA CountsUnfold ==
  ASSUME NEW t \in Tabs
  PROVE  /\ StepsToPage(t) = StepsLeft(tab[t], WillBeKnown(t), Valid(sessions, tab[t].carried))
         /\ StepsToPage(t)' =
              StepsLeft(tab'[t], WillBeKnown(t)', Valid(sessions', tab'[t].carried))
         /\ WillBeKnown(t) \in BOOLEAN
         /\ WillBeKnown(t)' \in BOOLEAN
         /\ tab'[t].set["session"] = NoToken => ~WillBeKnown(t)'
BY SessionsAssumption DEF StepsToPage, WillBeKnown, Valid

\* The middleware answers, sends on, lets the request through or renews the session.
LEMMA MiddlewareNearer ==
  ASSUME Shapes, NEW t \in Tabs, Middleware(t)
  PROVE  StepsToPage(t)' < StepsToPage(t)
<1> DEFINE r     == tab[t]
           x     == r.carried
           known == [r EXCEPT !.user = sessions[x].user, !.carried = NoToken]
<1>1. /\ TabOK(r, BrowserOf[t])
      /\ tab \in [Tabs -> Tab]
      /\ r.next = "verify"
      /\ r.path \in {"page", "login", "logout"}
  BY ShapesFacts DEF Middleware, TabOK, ShapeOK, Shapes, TypeOK
<1>2. StepsToPage(t) = StepsFor(r.path, Valid(sessions, x))
  BY <1>1, CountsUnfold DEF StepsLeft
<1>3. CASE ~Valid(sessions, x)
  <2>1. tab'[t] = Unauthorized(r)
    BY <1>1, <1>3 DEF Middleware, OnlyTab
  <2>2. CASE r.path = "page"
    BY <1>2, <1>3, <2>1, <2>2, CountsUnfold, RedirectLeft DEF Unauthorized, StepsFor
  <2>3. CASE r.path = "login"
    BY <1>2, <1>3, <2>1, <2>3, CountsUnfold, PageLeft DEF Unauthorized, StepsFor
  <2>4. CASE r.path = "logout"
    <3>1. tab'[t] = Redirect("login", Deleted)
      BY <2>1, <2>4 DEF Unauthorized
    <3>2. tab'[t].set["session"] = NoToken
      BY <3>1 DEF Redirect, At, Deleted, Cookies
    <3>3. StepsToPage(t)' = 4
      BY <3>1, <3>2, CountsUnfold, RedirectLeft DEF StepsFor
    <3>4. QED
      BY <1>2, <2>4, <3>3 DEF StepsFor
  <2>5. QED
    BY <1>1, <2>2, <2>3, <2>4
<1>4. CASE Valid(sessions, x) /\ sessions[x].age = "closing"
  <2>1. tab'[t] = [known EXCEPT !.next = "session"]
    BY <1>1, <1>4 DEF Middleware, OnlyTab
  <2>2. tab'[t].next = "session" /\ tab'[t].path = r.path
    BY <1>1, <2>1 DEF TabOK, Tab
  <2>3. StepsToPage(t)' = IF r.path = "page" THEN 2
                          ELSE IF r.path \in {"login", "signin"} THEN 6 ELSE 7
    BY <2>2, CountsUnfold DEF StepsLeft
  <2>4. QED
    BY <1>1, <1>2, <1>4, <2>3 DEF StepsFor
<1>5. CASE Valid(sessions, x) /\ sessions[x].age # "closing"
  <2>1. tab'[t] = Authorized(known)
    BY <1>1, <1>5 DEF Middleware, OnlyTab
  <2>2. known.path = r.path /\ known.next = "verify"
    BY <1>1 DEF TabOK, Tab
  <2>3. StepsToPage(t)' < StepsFor(r.path, TRUE)
    <3> HIDE DEF known
    <3>1. CASE r.path = "page"
      BY <2>1, <2>2, <3>1, CountsUnfold, PageLeft DEF Authorized, StepsFor
    <3>2. CASE r.path = "login"
      <4>1. StepsToPage(t)' = 2 + StepsFor("page", WillBeKnown(t)')
        BY <2>1, <2>2, <3>2, CountsUnfold, RedirectLeft DEF Authorized
      <4>2. QED
        BY <3>2, <4>1, CountsUnfold DEF StepsFor
    <3>3. CASE r.path = "logout"
      <4>1. tab'[t] = [known EXCEPT !.next = "unsession", !.set = Deleted]
        BY <2>1, <2>2, <3>3 DEF Authorized
      <4>2. tab'[t].next = "unsession"
        BY <1>1, <4>1 DEF known, TabOK, Tab
      <4>3. QED
        BY <3>3, <4>2, CountsUnfold DEF StepsLeft, StepsFor
    <3>4. QED
      BY <1>1, <3>1, <3>2, <3>3
  <2>4. QED
    BY <1>2, <1>5, <2>3
<1>6. QED
  BY <1>3, <1>4, <1>5

\* A refusal, of the refresh token or of the password, leads to the login page.
LEMMA RefusalNearer ==
  ASSUME Shapes, NEW t \in Tabs, RefreshRefused(t) \/ Refused(t)
  PROVE  StepsToPage(t)' < StepsToPage(t)
<1>1. tab \in [Tabs -> Tab]
  BY DEF Shapes, TypeOK
<1>2. CASE RefreshRefused(t)
  <2>1. /\ tab'[t] = Redirect("login", Deleted)
        /\ tab[t].next = "verify"
        /\ tab[t].path = "refresh"
    BY <1>1, <1>2 DEF RefreshRefused, OnlyTab
  <2>2. tab'[t].set["session"] = NoToken
    BY <2>1 DEF Redirect, At, Deleted, Cookies
  <2>3. StepsToPage(t)' = 4 /\ StepsToPage(t) = 8
    BY <2>1, <2>2, CountsUnfold, RedirectLeft DEF StepsFor, StepsLeft
  <2>4. QED
    BY <2>3
<1>3. CASE Refused(t)
  <2>1. tab'[t] = Redirect("login", Unmentioned) /\ tab[t].next = "authenticate"
    BY <1>1, <1>3 DEF Refused, OnlyTab
  <2>2. StepsToPage(t)' = 2 + StepsFor("login", WillBeKnown(t)')
    BY <2>1, CountsUnfold, RedirectLeft
  <2>3. StepsToPage(t) = 17
    BY <2>1, CountsUnfold DEF StepsLeft
  <2>4. QED
    BY <2>2, <2>3, CountsUnfold DEF StepsFor
<1>4. QED
  BY <1>2, <1>3

LEMMA AcceptanceNearer ==
  ASSUME Shapes, NEW t \in Tabs, RefreshAccepted(t) \/ Authenticated(t)
  PROVE  StepsToPage(t)' < StepsToPage(t)
<1>1. CASE RefreshAccepted(t)
  <2>1. /\ tab[t].next = "verify" /\ tab[t].path = "refresh"
        /\ tab'[t].next = "session" /\ tab'[t].path = "refresh"
    BY <1>1, RefreshAcceptedMoves
  <2>2. QED
    BY <2>1, CountsUnfold DEF StepsLeft, StepsFor
<1>2. CASE Authenticated(t)
  <2>1. /\ tab[t].next = "authenticate"
        /\ tab'[t].next \in {"token", "session"} /\ tab'[t].path = "signin"
    BY <1>2, AuthenticatedMoves
  <2>2. QED
    BY <2>1, CountsUnfold DEF StepsLeft
<1>3. QED
  BY <1>1, <1>2

\* The session a handler has stored is good, and travels with its answer.
LEMMA StoredIsKnown ==
  ASSUME Shapes, NEW t \in Tabs, StoreSession(t),
         NEW q, q = [tab[t] EXCEPT !.set["session"] = NewToken(BrowserOf[t], "session")]
  PROVE  /\ TabOK(q, BrowserOf[t])
         /\ q.path = tab[t].path
         /\ q.long = tab[t].long
         /\ tab'[t] = SessionStored(q)
         /\ tab'[t].set = q.set => WillBeKnown(t)'
<1> DEFINE b0 == BrowserOf[t]
           x  == NewToken(b0, "session")
<1>1. /\ TabOK(tab[t], b0)
      /\ b0 \in Browsers
      /\ tab[t].next = "session"
      /\ tab[t].user \in Users
      /\ "session" \in Cookies
      /\ tab \in [Tabs -> Tab]
      /\ sessions \in [Tokens -> Session \cup {NoEntry}]
  BY ShapesFacts DEF StoreSession, TabOK, ShapeOK, Cookies, Shapes, TypeOK
<1>2. x \in Own(b0) /\ x \in Tokens /\ x # Keep /\ x # NoToken
  BY <1>1, NewTokenIsNew, OwnTokens DEF StoreSession
<1>3. /\ tab'[t] = SessionStored(q)
      /\ sessions' = [sessions EXCEPT ![x] = Fresh(tab[t].user)]
  BY <1>1 DEF StoreSession
<1>4. /\ TabOK(q, b0)
      /\ q.path = tab[t].path
      /\ q.long = tab[t].long
      /\ q.set = [tab[t].set EXCEPT !["session"] = x]
  <2> DEFINE p == [tab[t] EXCEPT !.set["session"] = x]
  <2>1. q = p
    OBVIOUS
  <2>2. /\ TabOK(p, b0)
        /\ p.path = tab[t].path
        /\ p.long = tab[t].long
        /\ p.set = [tab[t].set EXCEPT !["session"] = x]
    <3> HIDE DEF x
    <3>1. QED
      BY <1>1, <1>2, SetCookieShape
  <2> HIDE DEF p
  <2>3. QED
    BY <2>1, <2>2
<1>5. q.set["session"] = x
  <2>1. tab[t].set \in [Cookies -> Own(b0) \cup {NoToken, Keep}]
    BY <1>1, SetShape
  <2> HIDE DEF x
  <2>2. QED
    BY <1>1, <1>4, <2>1
<1>6. Valid(sessions', x)
  <2>1. Fresh(tab[t].user) \in Session /\ Fresh(tab[t].user).age = "fresh"
    BY <1>1 DEF Fresh, Session, Ages
  <2>2. sessions'[x] = Fresh(tab[t].user)
    BY <1>1, <1>2, <1>3
  <2> HIDE DEF x
  <2>3. QED
    BY <1>2, <2>1, <2>2, SessionsAssumption DEF Valid
<1>7. tab'[t].set = q.set => WillBeKnown(t)'
  <2> HIDE DEF x
  <2>1. QED
    BY <1>2, <1>5, <1>6 DEF WillBeKnown
<1>8. QED
  BY <1>3, <1>4, <1>7

LEMMA StoreSessionNearer ==
  ASSUME Shapes, NEW t \in Tabs, StoreSession(t)
  PROVE  StepsToPage(t)' < StepsToPage(t)
<1> DEFINE q == [tab[t] EXCEPT !.set["session"] = NewToken(BrowserOf[t], "session")]
<1>1. /\ TabOK(q, BrowserOf[t])
      /\ q.path = tab[t].path
      /\ q.long = tab[t].long
      /\ tab'[t] = SessionStored(q)
      /\ tab'[t].set = q.set => WillBeKnown(t)'
  BY StoredIsKnown
<1>2. /\ tab[t].next = "session"
      /\ tab[t].path \in {"page", "login", "logout", "refresh", "signin"}
  BY ShapesFacts DEF StoreSession, TabOK, ShapeOK
<1>3. StepsToPage(t) = IF tab[t].path = "page" THEN 2
                       ELSE IF tab[t].path \in {"login", "signin"} THEN 6 ELSE 7
  BY <1>2, CountsUnfold DEF StepsLeft
<1> HIDE DEF q
<1>4. CASE tab'[t] = Redirect("page", q.set) /\ tab[t].path # "page"
  <2>1. tab'[t].set = q.set
    BY <1>4 DEF Redirect, At
  <2>2. StepsToPage(t)' = 5
    BY <1>1, <1>4, <2>1, CountsUnfold, RedirectLeft DEF StepsFor
  <2>3. QED
    BY <1>3, <1>4, <2>2
<1>5. CASE tab[t].path = "refresh" /\ tab[t].long
  <2>1. tab'[t] = [q EXCEPT !.next = "token"]
    BY <1>1, <1>5 DEF SessionStored
  <2>2. tab'[t].next = "token" /\ tab'[t].path = "refresh" /\ tab'[t].set = q.set
    BY <1>1, <1>5, <2>1 DEF TabOK, Tab
  <2>3. StepsToPage(t)' = 6
    BY <1>1, <2>2, CountsUnfold DEF StepsLeft, StepsFor
  <2>4. QED
    BY <1>3, <1>5, <2>3
<1>6. CASE tab[t].path = "refresh" /\ ~tab[t].long
  BY <1>1, <1>4, <1>6 DEF SessionStored
<1>7. CASE tab[t].path = "signin"
  BY <1>1, <1>4, <1>7 DEF SessionStored
<1>8. CASE tab[t].path = "login"
  BY <1>1, <1>4, <1>8 DEF SessionStored, Authorized
<1>9. CASE tab[t].path = "page"
  <2>1. tab'[t] = Page("page", q.set)
    BY <1>1, <1>9 DEF SessionStored, Authorized
  <2>2. QED
    BY <1>3, <1>9, <2>1, CountsUnfold, PageLeft
<1>10. CASE tab[t].path = "logout"
  <2>1. tab'[t] = [q EXCEPT !.next = "unsession", !.set = Deleted]
    BY <1>1, <1>10 DEF SessionStored, Authorized
  <2>2. tab'[t].next = "unsession"
    BY <1>1, <2>1 DEF TabOK, Tab
  <2>3. QED
    BY <1>3, <1>10, <2>2, CountsUnfold DEF StepsLeft
<1>11. QED
  BY <1>2, <1>5, <1>6, <1>7, <1>8, <1>9, <1>10

\* The refresh token has no say in whether the next request has a session.
LEMMA StoreTokenNearer ==
  ASSUME Shapes, NEW t \in Tabs, StoreToken(t)
  PROVE  StepsToPage(t)' < StepsToPage(t)
<1> DEFINE x == NewToken(BrowserOf[t], "refresh")
           q == [tab[t] EXCEPT !.set["refresh"] = x]
<1>1. /\ TabOK(tab[t], BrowserOf[t])
      /\ BrowserOf[t] \in Browsers
      /\ tab \in [Tabs -> Tab]
      /\ tab[t].next = "token"
      /\ tab'[t] = TokenStored(q)
      /\ UNCHANGED <<sessions, jar>>
      /\ "refresh" \in Cookies
      /\ "session" \in Cookies
  BY ShapesFacts DEF StoreToken, Shapes, TypeOK, Cookies
<1>2. x \in Own(BrowserOf[t])
  BY <1>1, NewTokenIsNew DEF StoreToken
<1>3. /\ TabOK(q, BrowserOf[t])
      /\ q.path = tab[t].path
      /\ q.set = [tab[t].set EXCEPT !["refresh"] = x]
  <2> HIDE DEF x
  <2>1. QED
    BY <1>1, <1>2, SetCookieShape
<1>4. q.set["session"] = tab[t].set["session"]
  <2>1. tab[t].set \in [Cookies -> Own(BrowserOf[t]) \cup {NoToken, Keep}]
    BY <1>1, SetShape
  <2> HIDE DEF x
  <2>2. QED
    BY <1>1, <1>3, <2>1
<1> HIDE DEF q
<1>5. CASE tab[t].path = "signin"
  <2>1. tab'[t] = [q EXCEPT !.next = "session"]
    BY <1>1, <1>3, <1>5 DEF TokenStored
  <2>2. tab'[t].next = "session" /\ tab'[t].path = "signin"
    BY <1>3, <1>5, <2>1 DEF TabOK, Tab
  <2>3. QED
    BY <1>1, <1>5, <2>2, CountsUnfold DEF StepsLeft
<1>6. CASE tab[t].path # "signin"
  <2>1. tab'[t] = Redirect("page", q.set)
    BY <1>1, <1>3, <1>6 DEF TokenStored
  <2>2. tab'[t].set = q.set
    BY <2>1 DEF Redirect, At
  <2>3. WillBeKnown(t)' = WillBeKnown(t)
    BY <1>1, <1>4, <2>2 DEF WillBeKnown, Valid
  <2>4. StepsToPage(t)' = 2 + StepsFor("page", WillBeKnown(t))
    BY <2>1, <2>3, CountsUnfold, RedirectLeft
  <2>5. StepsToPage(t) = 3 + StepsFor("page", WillBeKnown(t))
    BY <1>1, <1>6, CountsUnfold DEF StepsLeft
  <2>6. QED
    BY <2>4, <2>5, CountsUnfold, StepsForBounds
<1>7. QED
  BY <1>5, <1>6

\* A sign-out has the browser forget its cookies: it ends at the login page for good.
LEMMA DeletionNearer ==
  ASSUME Shapes, NEW t \in Tabs, DeleteSessions(t) \/ DeleteTokens(t)
  PROVE  StepsToPage(t)' < StepsToPage(t)
<1>1. CASE DeleteSessions(t)
  <2>1. tab[t].next = "unsession" /\ tab'[t].next = "untoken"
    BY <1>1, DeleteSessionsMoves
  <2>2. QED
    BY <2>1, CountsUnfold DEF StepsLeft
<1>2. CASE DeleteTokens(t)
  <2>1. /\ tab'[t] = Redirect("login", tab[t].set)
        /\ tab[t].next = "untoken"
    BY <1>2 DEF DeleteTokens, Shapes, TypeOK
  <2>2. tab[t].set = Deleted
    BY <2>1, ShapesFacts DEF TabOK, ShapeOK
  <2>3. tab'[t].set["session"] = NoToken
    BY <2>1, <2>2 DEF Redirect, At, Deleted, Cookies
  <2>4. StepsToPage(t)' = 4
    BY <2>1, <2>3, CountsUnfold, RedirectLeft DEF StepsFor
  <2>5. StepsToPage(t) = 5
    BY <2>1, CountsUnfold DEF StepsLeft
  <2>6. QED
    BY <2>4, <2>5
<1>3. QED
  BY <1>1, <1>2

\* What the answer said of the session is what the jar says once it has arrived.
LEMMA DeliverNearer ==
  ASSUME Shapes, NEW t \in Tabs, Deliver(t)
  PROVE  StepsToPage(t)' < StepsToPage(t)
<1>1. /\ tab \in [Tabs -> Tab]
      /\ tab[t].next \in {"land", "redirect"}
      /\ tab'[t] = IF tab[t].next = "land" THEN At(tab[t].path)
                                           ELSE [At(tab[t].path) EXCEPT !.next = "send"]
      /\ UNCHANGED sessions
      /\ "session" \in Cookies
  BY DEF Deliver, Answers, Shapes, TypeOK, Cookies
<1>2. CASE tab[t].next = "land"
  <2>1. tab'[t].next = "rest"
    BY <1>1, <1>2 DEF At
  <2>2. QED
    BY <1>2, <2>1, CountsUnfold DEF StepsLeft
<1>3. CASE tab[t].next = "redirect"
  <2>1. tab'[t].next = "send" /\ tab'[t].path = tab[t].path /\ tab'[t].set["session"] = Keep
    BY <1>1, <1>3 DEF At, Unmentioned
  <2>2. jar'[BrowserOf[t]]["session"] =
          IF tab[t].set["session"] = Keep THEN jar[BrowserOf[t]]["session"]
                                          ELSE tab[t].set["session"]
    BY <1>1, DeliverMoves
  <2>3. WillBeKnown(t)' = WillBeKnown(t)
    BY <1>1, <2>1, <2>2 DEF WillBeKnown, Valid
  <2>4. /\ StepsToPage(t)' = 1 + StepsFor(tab[t].path, WillBeKnown(t))
        /\ StepsToPage(t) = 2 + StepsFor(tab[t].path, WillBeKnown(t))
    BY <1>3, <2>1, <2>3, CountsUnfold DEF StepsLeft
  <2>5. QED
    BY <2>4, CountsUnfold, StepsForBounds
<1>4. QED
  BY <1>1, <1>2, <1>3

\* The request goes out with the cookies the browser has by then.
LEMMA FollowNearer ==
  ASSUME Shapes, NEW t \in Tabs, Follow(t)
  PROVE  StepsToPage(t)' < StepsToPage(t)
<1>1. /\ tab \in [Tabs -> Tab]
      /\ tab[t].next = "send"
      /\ tab'[t] = RequestOf(BrowserOf[t], tab[t].path)
  BY DEF Follow, OnlyTab, Shapes, TypeOK
<1>2. /\ tab[t].path \in {"page", "login", "refresh"}
      /\ tab[t].set["session"] = Keep
      /\ UNCHANGED <<sessions, jar>>
  BY <1>1, ShapesFacts DEF TabOK, ShapeOK, Unmentioned, Cookies, Follow, OnlyTab
<1>3. /\ tab'[t].next = "verify"
      /\ tab'[t].path = tab[t].path
      /\ tab[t].path # "refresh" => tab'[t].carried = jar[BrowserOf[t]]["session"]
  BY <1>1, <1>2 DEF RequestOf, At, Cookie
<1>4. StepsToPage(t) = 1 + StepsFor(tab[t].path, WillBeKnown(t))
  BY <1>1, CountsUnfold DEF StepsLeft
<1>5. StepsToPage(t)' = StepsFor(tab[t].path, Valid(sessions', tab'[t].carried))
  BY <1>3, CountsUnfold DEF StepsLeft
<1>6. CASE tab[t].path = "refresh"
  BY <1>4, <1>5, <1>6 DEF StepsFor
<1>7. CASE tab[t].path # "refresh"
  <2>1. Valid(sessions', tab'[t].carried) = WillBeKnown(t)
    BY <1>2, <1>3, <1>7 DEF WillBeKnown, Valid
  <2>2. QED
    BY <1>4, <1>5, <2>1, CountsUnfold, StepsForBounds
<1>8. QED
  BY <1>6, <1>7

LEMMA StepNearer ==
  ASSUME Shapes, NEW t \in Tabs, Step(t)
  PROVE  StepsToPage(t)' < StepsToPage(t)
BY MiddlewareNearer, RefusalNearer, AcceptanceNearer, StoreSessionNearer, StoreTokenNearer,
   DeletionNearer, DeliverNearer, FollowNearer DEF Step

\* No navigation goes round in circles: every step of a tab's request, whichever handler it
\* is sent to, brings it nearer to its page.
THEOREM NavigationCountsDown == Spec => EveryStepNearer
<1>1. Shapes => [\A t \in Tabs : Step(t) => StepsToPage(t)' < StepsToPage(t)]_vars
  BY StepNearer
<1>2. QED
  BY <1>1, ShapesHold, PTL DEF EveryStepNearer

-----------------------------------------------------------------------------
(* What sets a tab back *)

\* A tab that does not move, and whose cookies are as good as before, is as far as before.
LEMMA AsFarAsBefore ==
  ASSUME Shapes, NEW t \in Tabs, tab'[t] = tab[t],
         jar'[BrowserOf[t]]["session"] = jar[BrowserOf[t]]["session"],
         \A x : x \in Held("session") \/ x = NoToken => Valid(sessions', x) = Valid(sessions, x),
         jar[BrowserOf[t]]["session"] \in Held("session"),
         tab[t].set["session"] \in Held("session"),
         \/ tab[t].carried \in Held("session")
         \/ tab[t].next # "verify"
         \/ tab[t].path = "refresh"
  PROVE  StepsToPage(t)' = StepsToPage(t)
<1>1. WillBeKnown(t)' = WillBeKnown(t)
  BY DEF WillBeKnown
<1>2. CASE tab[t].next = "verify" /\ tab[t].path = "refresh"
  BY <1>2, CountsUnfold DEF StepsLeft, StepsFor
<1>3. CASE tab[t].next # "verify"
  <2>1. tab[t].next \in {"rest", "send", "land", "redirect"} \cup Steps
    BY ShapesFacts DEF TabOK, Tab, Answers
  <2>2. QED
    BY <1>1, <1>3, <2>1, CountsUnfold DEF StepsLeft, Steps
<1>4. CASE tab[t].carried \in Held("session")
  <2>1. Valid(sessions', tab'[t].carried) = Valid(sessions, tab[t].carried)
    BY <1>4
  <2>2. StepsToPage(t)' =
          StepsLeft(tab[t], WillBeKnown(t), Valid(sessions, tab[t].carried))
    BY <1>1, <2>1, CountsUnfold, Zenon
  <2>3. QED
    BY <2>2, CountsUnfold
<1>5. QED
  BY <1>2, <1>3, <1>4

\* What a tab goes by is held by somebody.
LEMMA GoesByHeld ==
  ASSUME Shapes, NEW t \in Tabs
  PROVE  /\ jar[BrowserOf[t]]["session"] \in Held("session")
         /\ tab[t].set["session"] \in Held("session")
         /\ \/ tab[t].carried \in Held("session")
            \/ tab[t].next # "verify"
            \/ tab[t].path = "refresh"
<1>1. BrowserOf[t] \in Browsers
  BY ShapesFacts
<1>2. QED
  BY <1>1 DEF Held, Cookie

\* Another tab stores a session: nobody had the token before.
LEMMA StoreSessionElsewhere ==
  ASSUME Shapes, NEW t \in Tabs, NEW s \in Tabs \ {t}, StoreSession(s)
  PROVE  StepsToPage(t)' = StepsToPage(t)
<1> DEFINE x == NewToken(BrowserOf[s], "session")
<1>1. /\ Moves(s)
      /\ x \in Own(BrowserOf[s]) /\ x \notin Held("session")
      /\ x # NoToken
      /\ sessions' = [sessions EXCEPT ![x] = Fresh(tab[s].user)]
      /\ UNCHANGED jar
  <2>1. BrowserOf[s] \in Browsers /\ "session" \in Cookies
    BY ShapesFacts DEF Cookies
  <2>2. Moves(s)
    BY StoreSessionMoves
  <2>3. /\ Unheld(BrowserOf[s], "session") # {}
        /\ sessions' = [sessions EXCEPT ![x] = Fresh(tab[s].user)]
        /\ UNCHANGED jar
    BY DEF StoreSession
  <2>4. x \in Own(BrowserOf[s]) /\ x \notin Held("session")
    BY <2>1, <2>3, NewTokenIsNew
  <2>5. QED
    BY <2>1, <2>2, <2>3, <2>4, OwnTokens
<1> HIDE DEF x
<1>2. \A y : y \in Held("session") \/ y = NoToken => Valid(sessions', y) = Valid(sessions, y)
  <2>1. SUFFICES ASSUME NEW y, y \in Held("session") \/ y = NoToken
                 PROVE  Valid(sessions', y) = Valid(sessions, y)
    OBVIOUS
  <2>2. y # x
    BY <1>1, <2>1
  <2>3. CASE y \in Tokens
    BY <1>1, <2>2, <2>3 DEF Valid, Shapes, TypeOK
  <2>4. CASE y \notin Tokens
    BY <1>1, <2>4 DEF Valid, Shapes, TypeOK
  <2>5. QED
    BY <2>3, <2>4
<1>3. tab'[t] = tab[t]
  BY <1>1 DEF Moves
<1>4. QED
  BY <1>1, <1>2, <1>3, GoesByHeld, AsFarAsBefore

\* The others' requests that leave the sessions and this browser's jar alone.
LEMMA NoMatter ==
  ASSUME Shapes, NEW t \in Tabs, tab'[t] = tab[t], UNCHANGED sessions,
         jar'[BrowserOf[t]] = jar[BrowserOf[t]]
  PROVE  StepsToPage(t)' = StepsToPage(t)
<1>1. \A x : x \in Held("session") \/ x = NoToken => Valid(sessions', x) = Valid(sessions, x)
  OBVIOUS
<1>2. QED
  BY <1>1, GoesByHeld, AsFarAsBefore

LEMMA ElsewhereNoMatter ==
  ASSUME Shapes, NEW t \in Tabs, NEW s \in Tabs \ {t},
         \/ \E path \in Paths : Open(s, path)
         \/ \E u \in Users, rememberMe \in BOOLEAN : SignIn(s, u, rememberMe)
         \/ SignOut(s)
         \/ Step(s),
         ~DeleteSessions(s),
         Deliver(s) => BrowserOf[s] # BrowserOf[t]
  PROVE  StepsToPage(t)' = StepsToPage(t)
<1>1. CASE \/ \E path \in Paths : Open(s, path)
           \/ \E u \in Users, rememberMe \in BOOLEAN : SignIn(s, u, rememberMe)
           \/ SignOut(s) \/ Follow(s) \/ Middleware(s) \/ RefreshRefused(s)
           \/ RefreshAccepted(s) \/ Refused(s) \/ Authenticated(s)
           \/ StoreToken(s) \/ DeleteTokens(s)
  <2>1. UNCHANGED <<sessions, jar>>
    BY <1>1 DEF Open, SignIn, SignOut, Follow, Middleware, RefreshRefused, RefreshAccepted,
                Refused, Authenticated, StoreToken, DeleteTokens, OnlyTab
  <2>2. Moves(s)
    BY <1>1, OpenMoves, SignInMoves, SignOutMoves, FollowMoves, MiddlewareMoves, AnswerMoves,
       RefreshAcceptedMoves, AuthenticatedMoves, StoreTokenMoves
  <2>3. QED
    BY <2>1, <2>2, NoMatter DEF Moves
<1>2. CASE StoreSession(s)
  BY <1>2, StoreSessionElsewhere
<1>3. CASE Deliver(s) /\ BrowserOf[s] # BrowserOf[t]
  <2>1. /\ Moves(s)
        /\ \A b \in Browsers \ {BrowserOf[s]} : jar'[b] = jar[b]
        /\ UNCHANGED sessions
    BY <1>3, DeliverMoves DEF Deliver
  <2>2. BrowserOf[t] \in Browsers
    BY ShapesFacts
  <2>3. QED
    BY <1>3, <2>1, <2>2, NoMatter DEF Moves
<1>4. QED
  BY <1>1, <1>2, <1>3 DEF Step

LEMMA BoundOfCount ==
  ASSUME Shapes, NEW t \in Tabs
  PROVE  /\ StepsToPage(t) \in 0 .. 17
         /\ StepsToPage(t) = 0 <=> tab[t].next = "rest"
BY ShapesFacts, StepsLeftBounds, CountsUnfold, KnownOrNot

\* A step of the program after which t is further from its page than before.
LEMMA SetBack ==
  ASSUME Shapes, Shapes', Next, NEW t \in Tabs, StepsToPage(t)' > StepsToPage(t)
  PROVE  \/ tab[t].next = "rest"
         \/ trouble' # trouble
         \/ \E s \in Tabs \ {t} :
              DeleteSessions(s) \/ (Deliver(s) /\ BrowserOf[s] = BrowserOf[t])
<1> DEFINE Explained == \/ tab[t].next = "rest"
                        \/ trouble' # trouble
                        \/ \E s \in Tabs \ {t} :
                             DeleteSessions(s) \/ (Deliver(s) /\ BrowserOf[s] = BrowserOf[t])
<1>1. StepsToPage(t) \in Nat /\ StepsToPage(t)' \in Nat
  <2>1. StepsToPage(t)' \in 0 .. 17
    BY ShapesFacts, StepsLeftBounds, CountsUnfold, KnownOrNot DEF Shapes, TabOK, TypeOK
  <2>2. QED
    BY <2>1, BoundOfCount
<1>2. trouble \in Nat
  BY SessionsAssumption DEF Shapes, TypeOK
<1>3. CASE \/ \E s \in Tabs : Lost(s) \/ RefreshFailed(s) \/ StoreTokenFails(s)
                                     \/ DeleteTokensFails(s)
           \/ \E x \in Tokens : SessionAges(x) \/ TokenAges(x)
           \/ Restart
  <2>1. Trouble
    BY <1>3 DEF Lost, RefreshFailed, StoreTokenFails, DeleteTokensFails, SessionAges, TokenAges,
                Restart
  <2>2. QED
    BY <1>2, <2>1 DEF Trouble
<1>4. ASSUME NEW s \in Tabs,
             \/ \E path \in Paths : Open(s, path)
             \/ \E u \in Users, rememberMe \in BOOLEAN : SignIn(s, u, rememberMe)
             \/ SignOut(s)
             \/ Step(s)
      PROVE  Explained
  <2>1. CASE s = t /\ Step(s)
    <3>1. StepsToPage(t)' < StepsToPage(t)
      BY <2>1, StepNearer
    <3>2. QED
      BY <1>1, <3>1
  <2>2. CASE s = t /\ ~Step(s)
    <3>1. At("login").next = "rest" /\ At("page").next = "rest"
      BY DEF At
    <3>2. tab[s].next = "rest"
      BY <1>4, <2>2, <3>1 DEF Open, SignIn, SignOut
    <3>3. QED
      BY <2>2, <3>2
  <2>3. CASE s # t
    <3>1. SUFFICES ASSUME ~Explained
                   PROVE  FALSE
      OBVIOUS
    <3>2. ~DeleteSessions(s) /\ (Deliver(s) => BrowserOf[s] # BrowserOf[t])
      BY <2>3, <3>1
    <3>3. StepsToPage(t)' = StepsToPage(t)
      BY <1>4, <2>3, <3>2, ElsewhereNoMatter
    <3>4. QED
      BY <1>1, <3>3
  <2>4. QED
    BY <2>1, <2>2, <2>3
<1>5. QED
  BY <1>3, <1>4 DEF Next

\* A request in flight is set back by time, failures and restarts, by a sign-out, and by the
\* answer to another tab of its browser, and by nothing else: not by any number of renewals,
\* sign-ins and navigations elsewhere.
THEOREM SetBackByFew == Spec => SetBackOnlyBy
<1>1. Shapes /\ Shapes' /\ [Next]_vars =>
        [\A t \in Tabs : StepsToPage(t)' > StepsToPage(t) =>
           \/ tab[t].next = "rest"
           \/ trouble' # trouble
           \/ \E s \in Tabs \ {t} :
                DeleteSessions(s) \/ (Deliver(s) /\ BrowserOf[s] = BrowserOf[t])]_vars
  BY SetBack
<1>2. QED
  BY <1>1, ShapesHold, PTL DEF SetBackOnlyBy, Spec

\* The count is a natural number, never above 17, and 0 exactly when the tab is at rest: a
\* navigation that nothing of the above sets back is over after 17 steps at most.
THEOREM SeventeenStepsAtMost ==
  Spec => [](\A t \in Tabs : /\ StepsToPage(t) \in 0 .. 17
                             /\ StepsToPage(t) = 0 <=> tab[t].next = "rest")
<1>1. Shapes => \A t \in Tabs : /\ StepsToPage(t) \in 0 .. 17
                                /\ StepsToPage(t) = 0 <=> tab[t].next = "rest"
  BY BoundOfCount
<1>2. QED
  BY <1>1, ShapesHold, PTL

=============================================================================
