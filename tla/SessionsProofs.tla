---------------------------- MODULE SessionsProofs ----------------------------
(***************************************************************************)
(* Proofs of the promises of SessionPromises, for any number of browsers,  *)
(* tabs, users and tokens.                                                 *)
(*                                                                         *)
(* Shapes says what a tab can carry at each of its steps and that every    *)
(* session is listed under its user.  On it rest two invariants that do    *)
(* not need each other: OutInv, which is about users that signed out, and  *)
(* InInv, which is about browsers that were told to remember a user.       *)
(***************************************************************************)
EXTENDS SessionPromises, TLAPS

\* The tokens a browser can have.
Own(b) == {b} \X Draws

\* What the record of a tab of browser b may look like.
ShapeOK(r, b) ==
  /\ r.carried \in Own(b) \cup {NoToken}
  /\ \A c \in Cookies : r.set[c] \in Own(b) \cup {NoToken, Keep}
  /\ r.next \in {"rest", "send", "authenticate", "verify"} => r.set = Unmentioned
  /\ r.next \in {"authenticate", "session", "token", "unsession", "untoken"} => r.user \in Users
  /\ r.next \in {"send", "redirect"} => r.path \in {"page", "login", "refresh"}
  /\ r.next = "authenticate" => r.path = "signin"
  /\ r.next = "verify" => r.path \in {"page", "login", "logout", "refresh"}
  /\ r.next = "session" => r.path \in {"page", "login", "logout", "refresh", "signin"}
  /\ r.next = "token" => r.path \in {"refresh", "signin"}
  /\ r.next \in {"unsession", "untoken"} => r.path = "logout" /\ r.set = Deleted

\* And it is a record of that kind.
TabOK(r, b) == r \in Tab /\ ShapeOK(r, b)

\* Types, shapes, and the listing by user that DeleteSessions relies on.
Shapes ==
  /\ TypeOK
  /\ \A x \in Tokens : sessions[x] # NoEntry => x \in userSessions[sessions[x].user]
  /\ \A b \in Browsers, c \in Cookies : jar[b][c] \in Own(b) \cup {NoToken}
  /\ \A t \in Tabs : ShapeOK(tab[t], BrowserOf[t])

\* The types of the history variables.
Recorded == alone \subseteq Tabs /\ signedOut \subseteq Users

LEMMA OwnTokens ==
  ASSUME NEW b \in Browsers
  PROVE  /\ Own(b) \subseteq Tokens
         /\ \A x \in Own(b) : x[1] = b
         /\ NoToken \notin Own(b)
         /\ Keep \notin Own(b)
BY SessionsAssumption DEF Own, Tokens

LEMMA NewTokenIsNew ==
  ASSUME NEW b \in Browsers, NEW c \in Cookies, Unheld(b, c) # {}
  PROVE  NewToken(b, c) \in Own(b) /\ NewToken(b, c) \notin Held(c)
<1>1. NewToken(b, c) \in Unheld(b, c)
  BY DEF NewToken
<1>2. QED
  BY <1>1 DEF Unheld, Own

LEMMA AtShape ==
  ASSUME NEW path \in Paths, NEW b \in Browsers
  PROVE  /\ TabOK(At(path), b)
         /\ At(path).next = "rest"
         /\ At(path).path = path
         /\ At(path).set = Unmentioned
BY DEF At, TabOK, ShapeOK, Tab, Unmentioned

LEMMA AtError ==
  /\ At("error").next = "rest"
  /\ At("error").path = "error"
  /\ At("error").set = Unmentioned
BY DEF At

LEMMA RequestShape ==
  ASSUME NEW b \in Browsers, NEW path \in {"page", "login", "logout", "refresh"},
         jar \in [Browsers -> [Cookies -> Tokens \cup {NoToken}]],
         \A c \in Cookies : jar[b][c] \in Own(b) \cup {NoToken}
  PROVE  /\ TabOK(RequestOf(b, path), b)
         /\ RequestOf(b, path).next = "verify"
         /\ RequestOf(b, path).path = path
         /\ RequestOf(b, path).set = Unmentioned
         /\ path = "refresh" => RequestOf(b, path).carried = jar[b]["refresh"]
BY OwnTokens DEF RequestOf, At, TabOK, ShapeOK, Tab, Unmentioned, Cookie, Steps, Paths, Cookies

LEMMA PageShape ==
  ASSUME NEW b \in Browsers, NEW path \in Paths, NEW set,
         set \in [Cookies -> Own(b) \cup {NoToken, Keep}]
  PROVE  /\ TabOK(Page(path, set), b)
         /\ Page(path, set).next = "land"
         /\ Page(path, set).path = path
         /\ Page(path, set).set = set
BY OwnTokens DEF Page, At, TabOK, ShapeOK, Tab, Answers

LEMMA RedirectShape ==
  ASSUME NEW b \in Browsers, NEW path \in {"page", "login", "refresh"}, NEW set,
         set \in [Cookies -> Own(b) \cup {NoToken, Keep}]
  PROVE  /\ TabOK(Redirect(path, set), b)
         /\ Redirect(path, set).next = "redirect"
         /\ Redirect(path, set).path = path
         /\ Redirect(path, set).set = set
BY OwnTokens DEF Redirect, At, TabOK, ShapeOK, Tab, Answers, Paths

LEMMA SetShape ==
  ASSUME NEW b \in Browsers, NEW r, TabOK(r, b)
  PROVE  /\ r.set \in [Cookies -> Own(b) \cup {NoToken, Keep}]
         /\ Unmentioned \in [Cookies -> Own(b) \cup {NoToken, Keep}]
         /\ Deleted \in [Cookies -> Own(b) \cup {NoToken, Keep}]
BY DEF TabOK, ShapeOK, Tab, Unmentioned, Deleted

\* What a handler does after the middleware found or renewed the session.
LEMMA AuthorizedShape ==
  ASSUME NEW b \in Browsers, NEW r, TabOK(r, b),
         r.path \in {"page", "login", "logout"}, r.path = "logout" => r.user \in Users
  PROVE  /\ TabOK(Authorized(r), b)
         /\ r.path # "logout" => /\ Authorized(r).next \in {"land", "redirect"}
                                 /\ Authorized(r).path = "page"
                                 /\ Authorized(r).set = r.set
         /\ r.path = "logout" => Authorized(r).next = "unsession"
<1>1. CASE r.path = "page"
  BY <1>1, SetShape, PageShape DEF Authorized, Paths
<1>2. CASE r.path = "login"
  BY <1>2, SetShape, RedirectShape DEF Authorized
<1>3. CASE r.path = "logout"
  <2>1. Authorized(r) = [r EXCEPT !.next = "unsession", !.set = Deleted]
    BY <1>3 DEF Authorized
  <2>2. Deleted \in [Cookies -> Tokens \cup {NoToken, Keep}] /\ r \in Tab
    BY DEF Deleted, TabOK
  <2>3. Authorized(r) \in Tab /\ Authorized(r).next = "unsession"
    BY <2>1, <2>2 DEF Tab, Steps
  <2>4. /\ Authorized(r).set = Deleted
        /\ Authorized(r).carried = r.carried
        /\ Authorized(r).user = r.user
        /\ Authorized(r).path = "logout"
    BY <1>3, <2>1 DEF TabOK, Tab
  <2>5. ShapeOK(Authorized(r), b)
    BY <1>3, <2>3, <2>4 DEF TabOK, ShapeOK, Deleted
  <2>6. QED
    BY <1>3, <2>3, <2>5 DEF TabOK
<1>4. QED
  BY <1>1, <1>2, <1>3

LEMMA UnauthorizedShape ==
  ASSUME NEW b \in Browsers, NEW r, TabOK(r, b), r.path \in {"page", "login", "logout"}
  PROVE  /\ TabOK(Unauthorized(r), b)
         /\ Unauthorized(r).next \in {"land", "redirect"}
         /\ Unauthorized(r).path \in {"refresh", "login"}
         /\ r.path # "logout" => Unauthorized(r).set = r.set
<1>1. CASE r.path = "page"
  BY <1>1, SetShape, RedirectShape DEF Unauthorized
<1>2. CASE r.path = "login"
  BY <1>2, SetShape, PageShape DEF Unauthorized, Paths
<1>3. CASE r.path = "logout"
  BY <1>3, SetShape, RedirectShape DEF Unauthorized
<1>4. QED
  BY <1>1, <1>2, <1>3

LEMMA SessionStoredShape ==
  ASSUME NEW b \in Browsers, NEW r, TabOK(r, b), r.next = "session"
  PROVE  /\ TabOK(SessionStored(r), b)
         /\ SessionStored(r).next \in {"token", "land", "redirect", "unsession"}
         /\ SessionStored(r).next = "token" =>
              /\ r.path = "refresh"
              /\ SessionStored(r).path = "refresh"
              /\ SessionStored(r).user = r.user
         /\ r.path # "logout" =>
              SessionStored(r).path \in {"page", "refresh"} /\ SessionStored(r).set = r.set
         /\ r.path = "signin" => SessionStored(r).next = "redirect"
<1>1. CASE r.path = "refresh" /\ r.long
  <2>1. SessionStored(r) = [r EXCEPT !.next = "token"]
    BY <1>1 DEF SessionStored
  <2>2. TabOK(SessionStored(r), b)
    BY <1>1, <2>1 DEF TabOK, ShapeOK, Tab, Steps
  <2>3. QED
    BY <1>1, <2>1, <2>2 DEF TabOK, Tab
<1>2. CASE r.path = "refresh" /\ ~r.long
  BY <1>2, SetShape, RedirectShape DEF SessionStored
<1>3. CASE r.path = "signin"
  BY <1>3, SetShape, RedirectShape DEF SessionStored
<1>4. CASE r.path \in {"page", "login", "logout"}
  <2>1. SessionStored(r) = Authorized(r)
    BY <1>4 DEF SessionStored
  <2>2. r.path = "logout" => r.user \in Users
    BY DEF TabOK, ShapeOK
  <2>3. /\ TabOK(Authorized(r), b)
        /\ r.path # "logout" => /\ Authorized(r).next \in {"land", "redirect"}
                                /\ Authorized(r).path = "page"
                                /\ Authorized(r).set = r.set
        /\ r.path = "logout" => Authorized(r).next = "unsession"
    BY <1>4, <2>2, AuthorizedShape
  <2>4. QED
    BY <1>4, <2>1, <2>3
<1>5. QED
  BY <1>1, <1>2, <1>3, <1>4 DEF TabOK, ShapeOK

LEMMA TokenStoredShape ==
  ASSUME NEW b \in Browsers, NEW r, TabOK(r, b), r.next = "token"
  PROVE  /\ TabOK(TokenStored(r), b)
         /\ TokenStored(r).set = r.set
         /\ r.path = "signin" => /\ TokenStored(r).next = "session"
                                 /\ TokenStored(r).path = "signin"
                                 /\ TokenStored(r).user = r.user
         /\ r.path # "signin" => /\ TokenStored(r).next = "redirect"
                                 /\ TokenStored(r).path = "page"
<1>1. CASE r.path = "signin"
  <2>1. TokenStored(r) = [r EXCEPT !.next = "session"]
    BY <1>1 DEF TokenStored
  <2>2. TabOK(TokenStored(r), b)
    BY <1>1, <2>1 DEF TabOK, ShapeOK, Tab, Steps
  <2>3. QED
    BY <1>1, <2>1, <2>2 DEF TabOK, Tab
<1>2. CASE r.path # "signin"
  BY <1>2, SetShape, RedirectShape DEF TokenStored
<1>3. QED
  BY <1>1, <1>2

-----------------------------------------------------------------------------
(* What each step makes of the tab it is a step of. *)

\* Only t's record changes, and stays in shape.
Moves(t) ==
  /\ tab' \in [Tabs -> Tab]
  /\ \A s \in Tabs : ShapeOK(tab'[s], BrowserOf[s])
  /\ \A s \in Tabs \ {t} : tab'[s] = tab[s]

LEMMA MovesTo ==
  ASSUME Shapes, NEW t \in Tabs, NEW r, TabOK(r, BrowserOf[t]), tab' = [tab EXCEPT ![t] = r]
  PROVE  Moves(t) /\ tab'[t] = r
<1>1. tab \in [Tabs -> Tab] /\ r \in Tab /\ ShapeOK(r, BrowserOf[t])
  BY DEF Shapes, TypeOK, TabOK
<1>2. tab'[t] = r /\ \A s \in Tabs \ {t} : tab'[s] = tab[s]
  BY <1>1
<1>3. \A s \in Tabs : ShapeOK(tab'[s], BrowserOf[s])
  BY <1>1, <1>2 DEF Shapes
<1>4. QED
  BY <1>1, <1>2, <1>3 DEF Moves

LEMMA ShapesFacts ==
  ASSUME Shapes, NEW t \in Tabs
  PROVE  /\ BrowserOf[t] \in Browsers
         /\ TabOK(tab[t], BrowserOf[t])
         /\ jar \in [Browsers -> [Cookies -> Tokens \cup {NoToken}]]
         /\ \A c \in Cookies : jar[BrowserOf[t]][c] \in Own(BrowserOf[t]) \cup {NoToken}
BY SessionsAssumption DEF Shapes, TypeOK, TabOK

LEMMA OpenMoves ==
  ASSUME Shapes, NEW t \in Tabs, NEW path \in Paths, Open(t, path)
  PROVE  /\ Moves(t)
         /\ tab'[t].next = "verify"
         /\ tab'[t].path \in {"page", "login"}
         /\ tab'[t].set = Unmentioned
<1> DEFINE r == RequestOf(BrowserOf[t], path)
<1>1. tab' = [tab EXCEPT ![t] = r] /\ path \in {"page", "login"}
  BY DEF Open, OnlyTab
<1>2. TabOK(r, BrowserOf[t]) /\ r.next = "verify" /\ r.path = path /\ r.set = Unmentioned
  BY <1>1, ShapesFacts, RequestShape
<1>3. Moves(t) /\ tab'[t] = r
  BY <1>1, <1>2, MovesTo
<1>4. QED
  BY <1>1, <1>2, <1>3

LEMMA SignOutMoves ==
  ASSUME Shapes, NEW t \in Tabs, SignOut(t)
  PROVE  /\ Moves(t)
         /\ tab'[t].next = "verify"
         /\ tab'[t].path = "logout"
         /\ tab'[t].set = Unmentioned
<1> DEFINE r == RequestOf(BrowserOf[t], "logout")
<1>1. tab' = [tab EXCEPT ![t] = r]
  BY DEF SignOut, OnlyTab
<1>2. TabOK(r, BrowserOf[t]) /\ r.next = "verify" /\ r.path = "logout" /\ r.set = Unmentioned
  BY ShapesFacts, RequestShape
<1>3. Moves(t) /\ tab'[t] = r
  BY <1>1, <1>2, MovesTo
<1>4. QED
  BY <1>2, <1>3

LEMMA FollowMoves ==
  ASSUME Shapes, NEW t \in Tabs, Follow(t)
  PROVE  /\ Moves(t)
         /\ tab[t].next = "send"
         /\ tab'[t].next = "verify"
         /\ tab'[t].path \in {"page", "login", "refresh"}
         /\ tab'[t].set = Unmentioned
         /\ tab'[t].path = "refresh" => tab'[t].carried = jar[BrowserOf[t]]["refresh"]
<1> DEFINE r == RequestOf(BrowserOf[t], tab[t].path)
<1>1. tab' = [tab EXCEPT ![t] = r] /\ tab[t].next = "send"
  BY DEF Follow, OnlyTab
<1>2. tab[t].path \in {"page", "login", "refresh"}
  BY <1>1, ShapesFacts DEF TabOK, ShapeOK
<1>3. /\ TabOK(r, BrowserOf[t])
      /\ r.next = "verify"
      /\ r.path = tab[t].path
      /\ r.set = Unmentioned
      /\ tab[t].path = "refresh" => r.carried = jar[BrowserOf[t]]["refresh"]
  BY <1>2, ShapesFacts, RequestShape
<1>4. Moves(t) /\ tab'[t] = r
  BY <1>1, <1>3, MovesTo
<1>5. QED
  BY <1>1, <1>2, <1>3, <1>4

LEMMA SignInMoves ==
  ASSUME Shapes, NEW t \in Tabs, NEW u \in Users, NEW rememberMe \in BOOLEAN,
         SignIn(t, u, rememberMe)
  PROVE  /\ Moves(t)
         /\ tab'[t].next = "authenticate"
         /\ tab'[t].path = "signin"
         /\ tab'[t].set = Unmentioned
<1> DEFINE r == [RequestOf(BrowserOf[t], "signin") EXCEPT !.user = u, !.long = rememberMe]
<1>1. tab' = [tab EXCEPT ![t] = r]
  BY DEF SignIn, OnlyTab
<1>2. /\ TabOK(r, BrowserOf[t])
      /\ r.next = "authenticate"
      /\ r.path = "signin"
      /\ r.set = Unmentioned
  BY DEF RequestOf, At, TabOK, ShapeOK, Tab, Steps, Paths, Unmentioned
<1>3. Moves(t) /\ tab'[t] = r
  BY <1>1, <1>2, MovesTo
<1>4. QED
  BY <1>2, <1>3

LEMMA DeliverMoves ==
  ASSUME Shapes, NEW t \in Tabs, Deliver(t)
  PROVE  /\ Moves(t)
         /\ tab[t].next \in {"land", "redirect"}
         /\ tab'[t].next \in {"rest", "send"}
         /\ tab'[t].next = "send" => tab'[t].path \in {"page", "login", "refresh"}
         /\ tab'[t].set = Unmentioned
         /\ jar' \in [Browsers -> [Cookies -> Tokens \cup {NoToken}]]
         /\ \A b \in Browsers \ {BrowserOf[t]} : jar'[b] = jar[b]
         /\ \A c \in Cookies : jar'[BrowserOf[t]][c] =
              IF tab[t].set[c] = Keep THEN jar[BrowserOf[t]][c] ELSE tab[t].set[c]
         /\ \A b \in Browsers, c \in Cookies : jar'[b][c] \in Own(b) \cup {NoToken}
<1> DEFINE b0 == BrowserOf[t]
<1>1. /\ tab' = [tab EXCEPT ![t] = IF tab[t].next = "land"
                                    THEN At(tab[t].path)
                                    ELSE [At(tab[t].path) EXCEPT !.next = "send"]]
      /\ jar' = [jar EXCEPT ![b0] =
                   [c \in Cookies |-> IF tab[t].set[c] = Keep THEN jar[b0][c] ELSE tab[t].set[c]]]
      /\ tab[t].next \in {"land", "redirect"}
  BY DEF Deliver, Answers
<1> DEFINE r == IF tab[t].next = "land" THEN At(tab[t].path)
                                        ELSE [At(tab[t].path) EXCEPT !.next = "send"]
<1>2. /\ tab[t].path \in Paths
      /\ tab[t].next = "redirect" => tab[t].path \in {"page", "login", "refresh"}
  BY ShapesFacts DEF TabOK, ShapeOK, Tab
<1>3. TabOK(r, b0) /\ r.set = Unmentioned /\ r.next \in {"rest", "send"}
  <2>1. CASE tab[t].next = "land"
    BY <1>2, <2>1, ShapesFacts, AtShape
  <2>2. CASE tab[t].next # "land"
    BY <1>1, <1>2, <2>2 DEF TabOK, ShapeOK, Tab, At, Unmentioned
  <2>3. QED
    BY <2>1, <2>2
<1>4. Moves(t) /\ tab'[t] = r
  BY <1>1, <1>3, MovesTo
<1>5. tab'[t].next = "send" => tab'[t].path \in {"page", "login", "refresh"}
  BY <1>4, <1>3 DEF TabOK, ShapeOK
<1>6. /\ b0 \in Browsers
      /\ \A c \in Cookies : tab[t].set[c] \in Own(b0) \cup {NoToken, Keep}
      /\ Own(b0) \subseteq Tokens
      /\ jar \in [Browsers -> [Cookies -> Tokens \cup {NoToken}]]
      /\ \A b \in Browsers, c \in Cookies : jar[b][c] \in Own(b) \cup {NoToken}
  BY ShapesFacts, OwnTokens DEF TabOK, ShapeOK, Shapes
<1>7. /\ \A b \in Browsers \ {b0} : jar'[b] = jar[b]
      /\ \A c \in Cookies : jar'[b0][c] =
              IF tab[t].set[c] = Keep THEN jar[b0][c] ELSE tab[t].set[c]
  BY <1>1, <1>6
<1>8. jar' \in [Browsers -> [Cookies -> Tokens \cup {NoToken}]]
  BY <1>1, <1>6
<1>9. \A b \in Browsers, c \in Cookies : jar'[b][c] \in Own(b) \cup {NoToken}
  BY <1>6, <1>7
<1>10. QED
  BY <1>1, <1>4, <1>3, <1>5, <1>7, <1>8, <1>9

\* The middleware finds a session and renews it, lets the request through, or answers.
LEMMA MiddlewareMoves ==
  ASSUME Shapes, NEW t \in Tabs, Middleware(t)
  PROVE  /\ Moves(t)
         /\ tab[t].next = "verify"
         /\ tab[t].path # "refresh"
         /\ \/ /\ tab'[t].next = "session"
               /\ tab'[t].path = tab[t].path
               /\ tab'[t].set = tab[t].set
               /\ \E x \in Tokens : sessions[x] # NoEntry /\ tab'[t].user = sessions[x].user
            \/ /\ tab'[t].next \in {"land", "redirect"}
               /\ tab'[t].path \in {"page", "login", "refresh"}
               /\ tab[t].path # "logout" => tab'[t].set = tab[t].set
            \/ tab[t].path = "logout" /\ tab'[t].next = "unsession"
<1> DEFINE b0    == BrowserOf[t]
           x     == tab[t].carried
           known == [tab[t] EXCEPT !.user = sessions[x].user, !.carried = NoToken]
<1>1. /\ TabOK(tab[t], b0)
      /\ b0 \in Browsers
      /\ tab[t].next = "verify"
      /\ tab[t].path # "refresh"
      /\ tab[t].path \in {"page", "login", "logout"}
  BY ShapesFacts DEF Middleware, TabOK, ShapeOK
<1>2. CASE ~Valid(sessions, x)
  <2>1. tab' = [tab EXCEPT ![t] = Unauthorized(tab[t])]
    BY <1>2 DEF Middleware, OnlyTab
  <2>2. /\ TabOK(Unauthorized(tab[t]), b0)
        /\ Unauthorized(tab[t]).next \in {"land", "redirect"}
        /\ Unauthorized(tab[t]).path \in {"page", "login", "refresh"}
        /\ tab[t].path # "logout" => Unauthorized(tab[t]).set = tab[t].set
    BY <1>1, UnauthorizedShape
  <2>3. Moves(t) /\ tab'[t] = Unauthorized(tab[t])
    BY <2>1, <2>2, MovesTo
  <2>4. QED
    BY <1>1, <2>2, <2>3
<1>3. CASE Valid(sessions, x)
  <2>1. /\ x \in Tokens
        /\ sessions[x] # NoEntry
        /\ sessions[x].user \in Users
    BY <1>1, <1>3, OwnTokens DEF TabOK, ShapeOK, Valid, Shapes, TypeOK, Session
  <2>2. /\ known \in Tab
        /\ known.next = "verify"
        /\ known.path = tab[t].path
        /\ known.user = sessions[x].user
        /\ known.carried = NoToken
        /\ known.set = tab[t].set
    BY <1>1, <2>1 DEF TabOK, Tab
  <2>3. TabOK(known, b0)
    BY <1>1, <2>2 DEF TabOK, ShapeOK
  <2>4. CASE sessions[x].age = "closing"
    <3> DEFINE r == [known EXCEPT !.next = "session"]
    <3>1. tab' = [tab EXCEPT ![t] = r]
      BY <1>3, <2>4 DEF Middleware, OnlyTab
    <3>2. /\ r \in Tab
          /\ r.next = "session"
          /\ r.path = tab[t].path
          /\ r.user = sessions[x].user
          /\ r.carried = NoToken
          /\ r.set = tab[t].set
      <4> HIDE DEF known
      <4>1. QED
        BY <2>2 DEF Tab, Steps
    <3>3. TabOK(r, b0)
      <4> HIDE DEF r
      <4>1. QED
        BY <1>1, <2>1, <3>2 DEF TabOK, ShapeOK
    <3>4. Moves(t) /\ tab'[t] = r
      BY <3>1, <3>3, MovesTo
    <3>5. QED
      BY <1>1, <2>1, <3>2, <3>4
  <2>5. CASE sessions[x].age # "closing"
    <3>1. tab' = [tab EXCEPT ![t] = Authorized(known)]
      BY <1>3, <2>5 DEF Middleware, OnlyTab
    <3>2. /\ TabOK(Authorized(known), b0)
          /\ tab[t].path # "logout" => /\ Authorized(known).next \in {"land", "redirect"}
                                       /\ Authorized(known).path = "page"
                                       /\ Authorized(known).set = tab[t].set
          /\ tab[t].path = "logout" => Authorized(known).next = "unsession"
      <4> HIDE DEF known
      <4>1. QED
        BY <1>1, <2>1, <2>2, <2>3, AuthorizedShape
    <3>3. Moves(t) /\ tab'[t] = Authorized(known)
      <4> HIDE DEF known
      <4>1. QED
        BY <3>1, <3>2, MovesTo
    <3>4. QED
      BY <1>1, <3>2, <3>3
  <2>6. QED
    BY <2>4, <2>5
<1>4. QED
  BY <1>2, <1>3

\* The answers that carry no token of their own making.
LEMMA AnswerMoves ==
  ASSUME Shapes, NEW t \in Tabs,
         \/ RefreshRefused(t) \/ RefreshFailed(t) \/ Refused(t)
         \/ StoreTokenFails(t) \/ DeleteTokens(t) \/ DeleteTokensFails(t)
  PROVE  /\ Moves(t)
         /\ tab'[t].next \in {"land", "redirect"}
         /\ tab'[t].path \in {"error", "page", "login"}
         /\ StoreTokenFails(t) /\ tab[t].path # "signin" => tab'[t].set = tab[t].set
<1> DEFINE b0 == BrowserOf[t]
<1>1. /\ TabOK(tab[t], b0)
      /\ b0 \in Browsers
      /\ tab[t].set \in [Cookies -> Own(b0) \cup {NoToken, Keep}]
      /\ Unmentioned \in [Cookies -> Own(b0) \cup {NoToken, Keep}]
      /\ Deleted \in [Cookies -> Own(b0) \cup {NoToken, Keep}]
  BY ShapesFacts, SetShape
<1>2. CASE RefreshRefused(t) \/ RefreshFailed(t)
  <2>1. tab' = [tab EXCEPT ![t] = Redirect("login", Deleted)] /\ tab[t].next = "verify"
    BY <1>2 DEF RefreshRefused, RefreshFailed, OnlyTab
  <2>2. TabOK(Redirect("login", Deleted), b0) /\ Redirect("login", Deleted).next = "redirect"
        /\ Redirect("login", Deleted).path = "login"
    BY <1>1, RedirectShape
  <2>3. QED
    BY <2>1, <2>2, MovesTo DEF StoreTokenFails
<1>3. CASE Refused(t)
  <2>1. tab' = [tab EXCEPT ![t] = Redirect("login", Unmentioned)] /\ tab[t].next = "authenticate"
    BY <1>3 DEF Refused, OnlyTab
  <2>2. TabOK(Redirect("login", Unmentioned), b0)
        /\ Redirect("login", Unmentioned).next = "redirect"
        /\ Redirect("login", Unmentioned).path = "login"
    BY <1>1, RedirectShape
  <2>3. QED
    BY <2>1, <2>2, MovesTo DEF StoreTokenFails
<1>4. CASE StoreTokenFails(t)
  <2>1. CASE tab[t].path = "signin"
    <3>1. tab' = [tab EXCEPT ![t] = Page("error", Unmentioned)]
      BY <1>4, <2>1 DEF StoreTokenFails
    <3>2. TabOK(Page("error", Unmentioned), b0) /\ Page("error", Unmentioned).next = "land"
          /\ Page("error", Unmentioned).path = "error"
      BY <1>1, PageShape DEF Paths
    <3>3. QED
      BY <2>1, <3>1, <3>2, MovesTo
  <2>2. CASE tab[t].path # "signin"
    <3> DEFINE r == Redirect("page", tab[t].set)
    <3>1. tab' = [tab EXCEPT ![t] = r]
      BY <1>4, <2>2 DEF StoreTokenFails
    <3>2. TabOK(r, b0) /\ r.next = "redirect" /\ r.path = "page" /\ r.set = tab[t].set
      BY <1>1, RedirectShape
    <3>3. QED
      BY <2>2, <3>1, <3>2, MovesTo
  <2>3. QED
    BY <2>1, <2>2
<1>5. CASE DeleteTokens(t) \/ DeleteTokensFails(t)
  <2> DEFINE r == Redirect("login", tab[t].set)
  <2>1. tab' = [tab EXCEPT ![t] = r] /\ tab[t].next = "untoken"
    BY <1>5 DEF DeleteTokens, DeleteTokensFails
  <2>2. TabOK(r, b0) /\ r.next = "redirect" /\ r.path = "login"
    BY <1>1, RedirectShape
  <2>3. QED
    BY <2>1, <2>2, MovesTo DEF StoreTokenFails
<1>6. QED
  BY <1>2, <1>3, <1>4, <1>5

LEMMA LostMoves ==
  ASSUME Shapes, NEW t \in Tabs, Lost(t)
  PROVE  Moves(t) /\ tab'[t] = At("error")
<1>1. tab' = [tab EXCEPT ![t] = At("error")] /\ TabOK(At("error"), BrowserOf[t])
  BY ShapesFacts, AtShape DEF Lost, Paths
<1>2. QED
  BY <1>1, MovesTo

LEMMA RefreshAcceptedMoves ==
  ASSUME Shapes, NEW t \in Tabs, RefreshAccepted(t)
  PROVE  /\ Moves(t)
         /\ tab[t].next = "verify"
         /\ tab[t].path = "refresh"
         /\ tab[t].carried \in Tokens
         /\ tokens[tab[t].carried] # NoEntry
         /\ tab'[t].next = "session"
         /\ tab'[t].path = "refresh"
         /\ tab'[t].set = tab[t].set
         /\ tab'[t].user = tokens[tab[t].carried].user
<1> DEFINE b0 == BrowserOf[t]
           x  == tab[t].carried
           r  == [tab[t] EXCEPT !.next = "session",
                                !.user = tokens[x].user,
                                !.carried = NoToken,
                                !.long = tokens[x].age = "closing"]
<1>1. /\ tab' = [tab EXCEPT ![t] = r]
      /\ tab[t].next = "verify"
      /\ tab[t].path = "refresh"
      /\ Valid(tokens, x)
  BY DEF RefreshAccepted, OnlyTab
<1>2. TabOK(tab[t], b0) /\ b0 \in Browsers
  BY ShapesFacts
<1>3. /\ x \in Tokens
      /\ tokens[x] # NoEntry
      /\ tokens[x].user \in Users
  BY <1>1, <1>2, OwnTokens DEF TabOK, ShapeOK, Valid, Shapes, TypeOK, Session
<1>4. (tokens[x].age = "closing") \in BOOLEAN
  OBVIOUS
<1>5. /\ r \in Tab
      /\ r.next = "session"
      /\ r.path = "refresh"
      /\ r.user = tokens[x].user
      /\ r.carried = NoToken
      /\ r.set = tab[t].set
  BY <1>1, <1>2, <1>3, <1>4 DEF TabOK, Tab, Steps
<1>6. TabOK(r, b0)
  <2> HIDE DEF r
  <2>1. QED
    BY <1>2, <1>3, <1>5 DEF TabOK, ShapeOK
<1>7. Moves(t) /\ tab'[t] = r
  BY <1>1, <1>6, MovesTo
<1>8. QED
  BY <1>1, <1>3, <1>5, <1>7

\* A sign-in that is not to be remembered has the browser forget its refresh token.
NotRemembered(r, only) == [r EXCEPT !.next = "session", !.set = only]

LEMMA NotRememberedShape ==
  ASSUME NEW b \in Browsers, NEW r, TabOK(r, b), r.path = "signin", r.user \in Users,
         NEW only, only \in [Cookies -> {NoToken, Keep}]
  PROVE  /\ TabOK(NotRemembered(r, only), b)
         /\ NotRemembered(r, only).next = "session"
         /\ NotRemembered(r, only).path = r.path
         /\ NotRemembered(r, only).user = r.user
         /\ NotRemembered(r, only).set = only
<1> DEFINE q == NotRemembered(r, only)
<1>1. r \in Tab /\ r.carried \in Own(b) \cup {NoToken}
  BY DEF TabOK, ShapeOK
<1>2. /\ q \in Tab
      /\ q.next = "session"
      /\ q.path = r.path
      /\ q.user = r.user
      /\ q.carried = r.carried
      /\ q.set = only
  BY <1>1 DEF Tab, Steps, NotRemembered
<1>3. TabOK(q, b)
  <2> HIDE DEF q
  <2>1. QED
    BY <1>1, <1>2 DEF TabOK, ShapeOK
<1>4. QED
  BY <1>2, <1>3

LEMMA AuthenticatedMoves ==
  ASSUME Shapes, NEW t \in Tabs, Authenticated(t)
  PROVE  /\ Moves(t)
         /\ tab[t].next = "authenticate"
         /\ tab[t].path = "signin"
         /\ tab'[t].next \in {"token", "session"}
         /\ tab'[t].path = "signin"
         /\ tab'[t].user = tab[t].user
         /\ tab'[t].set["refresh"] \in {Keep, NoToken}
<1> DEFINE b0 == BrowserOf[t]
<1>1. /\ TabOK(tab[t], b0)
      /\ tab[t].next = "authenticate"
      /\ tab[t].path = "signin"
      /\ tab[t].user \in Users
      /\ tab[t].set = Unmentioned
      /\ tab[t].carried \in Own(b0) \cup {NoToken}
      /\ tab[t] \in Tab
      /\ tab[t].set["refresh"] = Keep
  BY ShapesFacts DEF Authenticated, TabOK, ShapeOK, Unmentioned, Cookies
<1>2. CASE tab[t].long
  <2> DEFINE r == [tab[t] EXCEPT !.next = "token"]
  <2>1. tab' = [tab EXCEPT ![t] = r]
    BY <1>2 DEF Authenticated, OnlyTab
  <2>2. /\ TabOK(r, b0)
        /\ r.next = "token"
        /\ r.path = "signin"
        /\ r.user = tab[t].user
        /\ r.set = tab[t].set
    BY <1>1 DEF TabOK, ShapeOK, Tab, Steps
  <2>3. QED
    BY <1>1, <2>1, <2>2, MovesTo
<1>3. CASE ~tab[t].long
  <2> DEFINE only == [tab[t].set EXCEPT !["refresh"] = NoToken]
             r    == NotRemembered(tab[t], only)
  <2>1. tab' = [tab EXCEPT ![t] = r]
    BY <1>3 DEF Authenticated, OnlyTab, NotRemembered
  <2>2. only \in [Cookies -> {NoToken, Keep}] /\ only["refresh"] = NoToken
    BY <1>1 DEF Unmentioned, Cookies
  <2>3. /\ TabOK(r, b0)
        /\ r.next = "session"
        /\ r.path = "signin"
        /\ r.user = tab[t].user
        /\ r.set = only
    <3>1. b0 \in Browsers
      BY ShapesFacts
    <3> HIDE DEF only
    <3>2. QED
      BY <1>1, <2>2, <3>1, NotRememberedShape
  <2>4. Moves(t) /\ tab'[t] = r
    <3> HIDE DEF r
    <3>1. QED
      BY <2>1, <2>3, MovesTo
  <2>5. QED
    <3> HIDE DEF r, only
    <3>1. QED
      BY <1>1, <2>2, <2>3, <2>4
<1>4. QED
  BY <1>2, <1>3

LEMMA DeleteSessionsMoves ==
  ASSUME Shapes, NEW t \in Tabs, DeleteSessions(t)
  PROVE  /\ Moves(t)
         /\ tab[t].next = "unsession"
         /\ tab[t].path = "logout"
         /\ tab'[t].next = "untoken"
         /\ tab'[t].path = "logout"
         /\ tab'[t].user = tab[t].user
<1> DEFINE r == [tab[t] EXCEPT !.next = "untoken"]
<1>1. tab' = [tab EXCEPT ![t] = r] /\ tab[t].next = "unsession"
  BY DEF DeleteSessions
<1>2. TabOK(tab[t], BrowserOf[t]) /\ tab[t].path = "logout"
  BY <1>1, ShapesFacts DEF TabOK, ShapeOK
<1>3. TabOK(r, BrowserOf[t]) /\ r.next = "untoken" /\ r.path = "logout" /\ r.user = tab[t].user
  BY <1>1, <1>2 DEF TabOK, ShapeOK, Tab, Steps
<1>4. QED
  BY <1>1, <1>2, <1>3, MovesTo

\* A cookie set on the answer of t.
LEMMA SetCookieShape ==
  ASSUME NEW b \in Browsers, NEW r, TabOK(r, b), r.next \in {"session", "token"},
         NEW c \in Cookies, NEW x \in Own(b)
  PROVE  /\ TabOK([r EXCEPT !.set[c] = x], b)
         /\ [r EXCEPT !.set[c] = x].next = r.next
         /\ [r EXCEPT !.set[c] = x].path = r.path
         /\ [r EXCEPT !.set[c] = x].user = r.user
         /\ [r EXCEPT !.set[c] = x].long = r.long
         /\ [r EXCEPT !.set[c] = x].set = [r.set EXCEPT ![c] = x]
<1> DEFINE q == [r EXCEPT !.set[c] = x]
<1>1. r \in Tab /\ x \in Tokens /\ ShapeOK(r, b)
  BY OwnTokens DEF TabOK
<1>2. /\ q.next = r.next
      /\ q.path = r.path
      /\ q.user = r.user
      /\ q.long = r.long
      /\ q.carried = r.carried
      /\ q.set = [r.set EXCEPT ![c] = x]
      /\ q = [next |-> q.next, path |-> q.path, user |-> q.user, long |-> q.long,
              carried |-> q.carried, set |-> q.set]
  BY <1>1 DEF Tab
<1>3. /\ q.set \in [Cookies -> Tokens \cup {NoToken, Keep}]
      /\ \A d \in Cookies : q.set[d] \in Own(b) \cup {NoToken, Keep}
  <2> HIDE DEF q
  <2>1. r.set \in [Cookies -> Tokens \cup {NoToken, Keep}]
    BY <1>1 DEF Tab
  <2>2. QED
    BY <1>1, <1>2, <2>1 DEF ShapeOK
<1>4. q \in Tab
  <2> HIDE DEF q
  <2>1. QED
    BY <1>1, <1>2, <1>3 DEF Tab
<1>5. TabOK(q, b)
  <2> HIDE DEF q
  <2>1. QED
    BY <1>1, <1>2, <1>3, <1>4 DEF TabOK, ShapeOK
<1>6. QED
  BY <1>2, <1>5

LEMMA StoreSessionMoves ==
  ASSUME Shapes, NEW t \in Tabs, StoreSession(t)
  PROVE  /\ Moves(t)
         /\ tab[t].next = "session"
         /\ tab[t].user \in Users
         /\ NewToken(BrowserOf[t], "session") \in Tokens
         /\ tab'[t].next \in {"token", "land", "redirect", "unsession"}
         /\ tab'[t].next = "token" => /\ tab[t].path = "refresh"
                                     /\ tab'[t].path = "refresh"
                                     /\ tab'[t].user = tab[t].user
         /\ tab[t].path # "logout" => /\ tab'[t].path \in {"page", "refresh"}
                                      /\ tab'[t].set["refresh"] = tab[t].set["refresh"]
         /\ tab[t].path = "signin" => tab'[t].next = "redirect"
<1> DEFINE b0 == BrowserOf[t]
           x  == NewToken(b0, "session")
           q  == [tab[t] EXCEPT !.set["session"] = x]
<1>1. /\ TabOK(tab[t], b0)
      /\ b0 \in Browsers
      /\ tab[t].next = "session"
      /\ tab[t].user \in Users
      /\ "session" \in Cookies
      /\ "refresh" \in Cookies
  BY ShapesFacts DEF StoreSession, TabOK, ShapeOK, Cookies
<1>2. x \in Own(b0) /\ x \in Tokens
  BY <1>1, NewTokenIsNew, OwnTokens DEF StoreSession
<1>3. tab' = [tab EXCEPT ![t] = SessionStored(q)]
  BY DEF StoreSession
<1>4. /\ TabOK(q, b0)
      /\ q.next = "session"
      /\ q.path = tab[t].path
      /\ q.user = tab[t].user
      /\ q.set = [tab[t].set EXCEPT !["session"] = x]
  <2> HIDE DEF x
  <2>1. QED
    BY <1>1, <1>2, SetCookieShape
<1>5. q.set["refresh"] = tab[t].set["refresh"]
  BY <1>1, <1>4 DEF TabOK, Tab
<1>6. /\ TabOK(SessionStored(q), b0)
      /\ SessionStored(q).next \in {"token", "land", "redirect", "unsession"}
      /\ SessionStored(q).next = "token" =>
           /\ q.path = "refresh"
           /\ SessionStored(q).path = "refresh"
           /\ SessionStored(q).user = q.user
      /\ q.path # "logout" =>
           SessionStored(q).path \in {"page", "refresh"} /\ SessionStored(q).set = q.set
      /\ q.path = "signin" => SessionStored(q).next = "redirect"
  <2> HIDE DEF q
  <2>1. QED
    BY <1>1, <1>4, SessionStoredShape
<1>7. Moves(t) /\ tab'[t] = SessionStored(q)
  <2> HIDE DEF q
  <2>1. QED
    BY <1>3, <1>6, MovesTo
<1>8. QED
  <2> HIDE DEF q
  <2>1. QED
    BY <1>1, <1>2, <1>4, <1>5, <1>6, <1>7

LEMMA StoreTokenMoves ==
  ASSUME Shapes, NEW t \in Tabs, StoreToken(t)
  PROVE  /\ Moves(t)
         /\ tab[t].next = "token"
         /\ tab[t].user \in Users
         /\ NewToken(BrowserOf[t], "refresh") \in Tokens
         /\ NewToken(BrowserOf[t], "refresh") \notin Held("refresh")
         /\ tab'[t].set["refresh"] = NewToken(BrowserOf[t], "refresh")
         /\ tab[t].path = "signin" => /\ tab'[t].next = "session"
                                      /\ tab'[t].path = "signin"
                                      /\ tab'[t].user = tab[t].user
         /\ tab[t].path # "signin" => tab'[t].next = "redirect" /\ tab'[t].path = "page"
<1> DEFINE b0 == BrowserOf[t]
           x  == NewToken(b0, "refresh")
           q  == [tab[t] EXCEPT !.set["refresh"] = x]
<1>1. /\ TabOK(tab[t], b0)
      /\ b0 \in Browsers
      /\ tab[t].next = "token"
      /\ tab[t].user \in Users
      /\ "refresh" \in Cookies
  BY ShapesFacts DEF StoreToken, TabOK, ShapeOK, Cookies
<1>2. x \in Own(b0) /\ x \in Tokens /\ x \notin Held("refresh")
  BY <1>1, NewTokenIsNew, OwnTokens DEF StoreToken
<1>3. tab' = [tab EXCEPT ![t] = TokenStored(q)]
  BY DEF StoreToken
<1>4. /\ TabOK(q, b0)
      /\ q.next = "token"
      /\ q.path = tab[t].path
      /\ q.user = tab[t].user
      /\ q.set = [tab[t].set EXCEPT !["refresh"] = x]
  <2> HIDE DEF x
  <2>1. QED
    BY <1>1, <1>2, SetCookieShape
<1>5. q.set["refresh"] = x
  BY <1>1, <1>4 DEF TabOK, Tab
<1>6. /\ TabOK(TokenStored(q), b0)
      /\ TokenStored(q).set = q.set
      /\ q.path = "signin" => /\ TokenStored(q).next = "session"
                              /\ TokenStored(q).path = "signin"
                              /\ TokenStored(q).user = q.user
      /\ q.path # "signin" => TokenStored(q).next = "redirect" /\ TokenStored(q).path = "page"
  <2> HIDE DEF q
  <2>1. QED
    BY <1>1, <1>4, TokenStoredShape
<1>7. Moves(t) /\ tab'[t] = TokenStored(q)
  <2> HIDE DEF q
  <2>1. QED
    BY <1>3, <1>6, MovesTo
<1>8. QED
  <2> HIDE DEF q
  <2>1. QED
    BY <1>1, <1>2, <1>4, <1>5, <1>6, <1>7

-----------------------------------------------------------------------------
(* Shapes is an invariant. *)

LEMMA ShapesInit ==
  ASSUME Init
  PROVE  Shapes
<1>1. /\ sessions \in [Tokens -> Session \cup {NoEntry}]
      /\ userSessions \in [Users -> SUBSET Tokens]
      /\ tokens \in [Tokens -> Session \cup {NoEntry}]
      /\ jar \in [Browsers -> [Cookies -> Tokens \cup {NoToken}]]
      /\ trouble \in 0 .. MaxTrouble
  BY SessionsAssumption DEF Init, Deleted
<1>2. tab \in [Tabs -> Tab] /\ \A t \in Tabs : ShapeOK(tab[t], BrowserOf[t])
  <2>1. \A t \in Tabs : TabOK(At("error"), BrowserOf[t])
    BY SessionsAssumption, AtShape DEF Paths
  <2>2. tab = [t \in Tabs |-> At("error")]
    BY DEF Init
  <2>3. QED
    BY <2>1, <2>2 DEF TabOK
<1>3. /\ \A x \in Tokens : sessions[x] = NoEntry
      /\ \A b \in Browsers, c \in Cookies : jar[b][c] = NoToken
  BY DEF Init, Deleted
<1>4. QED
  BY <1>1, <1>2, <1>3 DEF Shapes, TypeOK

Clock == trouble' = trouble \/ Trouble

LEMMA ClockType ==
  ASSUME Shapes, Clock
  PROVE  trouble' \in 0 .. MaxTrouble
BY SessionsAssumption DEF Shapes, TypeOK, Clock, Trouble

LEMMA TabOnlyKeepsShapes ==
  ASSUME Shapes, NEW t \in Tabs, Moves(t), Clock,
         UNCHANGED <<sessions, userSessions, tokens, jar>>
  PROVE  Shapes'
BY ClockType DEF Shapes, TypeOK, Moves

LEMMA DeliverKeepsShapes ==
  ASSUME Shapes, NEW t \in Tabs, Deliver(t)
  PROVE  Shapes'
<1>1. /\ Moves(t)
      /\ jar' \in [Browsers -> [Cookies -> Tokens \cup {NoToken}]]
      /\ \A b \in Browsers, c \in Cookies : jar'[b][c] \in Own(b) \cup {NoToken}
  BY DeliverMoves
<1>2. UNCHANGED <<sessions, userSessions, tokens, trouble>>
  BY DEF Deliver
<1>3. QED
  BY <1>1, <1>2, ClockType DEF Shapes, TypeOK, Moves, Clock

LEMMA FreshSession ==
  ASSUME NEW u \in Users
  PROVE  Fresh(u) \in Session /\ Fresh(u).user = u /\ Fresh(u).age = "fresh" /\ Fresh(u) # NoEntry
BY SessionsAssumption DEF Fresh, Session, Ages

LEMMA StoreSessionEffect ==
  ASSUME Shapes, NEW t \in Tabs, StoreSession(t)
  PROVE  /\ sessions' \in [Tokens -> Session \cup {NoEntry}]
         /\ \A y \in Tokens : sessions'[y] # NoEntry =>
              \/ sessions[y] # NoEntry /\ sessions'[y].user = sessions[y].user
              \/ sessions'[y].user = tab[t].user
         /\ userSessions' \in [Users -> SUBSET Tokens]
         /\ \A y \in Tokens : sessions'[y] # NoEntry => y \in userSessions'[sessions'[y].user]
<1> DEFINE x == NewToken(BrowserOf[t], "session")
           u == tab[t].user
<1>1. x \in Tokens /\ u \in Users
  BY StoreSessionMoves
<1>2. /\ sessions' = [sessions EXCEPT ![x] = Fresh(u)]
      /\ userSessions' = [v \in Users |-> IF v = u THEN userSessions[v] \cup {x}
                                                  ELSE userSessions[v] \ {x}]
  BY DEF StoreSession
<1>3. /\ sessions \in [Tokens -> Session \cup {NoEntry}]
      /\ userSessions \in [Users -> SUBSET Tokens]
      /\ \A y \in Tokens : sessions[y] # NoEntry => y \in userSessions[sessions[y].user]
      /\ Fresh(u) \in Session /\ Fresh(u).user = u /\ Fresh(u) # NoEntry
      /\ \A s \in Session : s.user \in Users
  BY <1>1, FreshSession DEF Shapes, TypeOK, Session
<1> HIDE DEF x, u
<1>4. /\ sessions' \in [Tokens -> Session \cup {NoEntry}]
      /\ sessions'[x] = Fresh(u)
      /\ \A y \in Tokens \ {x} : sessions'[y] = sessions[y]
  BY <1>1, <1>2, <1>3
<1>5. userSessions' \in [Users -> SUBSET Tokens]
  BY <1>1, <1>2, <1>3
<1>6. ASSUME NEW y \in Tokens, sessions'[y] # NoEntry
      PROVE  /\ \/ sessions[y] # NoEntry /\ sessions'[y].user = sessions[y].user
                \/ sessions'[y].user = u
             /\ y \in userSessions'[sessions'[y].user]
  <2>1. CASE y = x
    BY <1>1, <1>2, <1>3, <1>4, <2>1
  <2>2. CASE y # x
    <3>1. sessions'[y] = sessions[y] /\ sessions[y] \in Session
      BY <1>3, <1>4, <1>6, <2>2
    <3>2. QED
      BY <1>2, <1>3, <1>6, <2>2, <3>1
  <2>3. QED
    BY <2>1, <2>2
<1>7. QED
  BY <1>4, <1>5, <1>6 DEF u

LEMMA StoreSessionKeepsShapes ==
  ASSUME Shapes, NEW t \in Tabs, StoreSession(t)
  PROVE  Shapes'
<1>1. UNCHANGED <<tokens, jar, trouble>>
  BY DEF StoreSession
<1>2. QED
  BY <1>1, StoreSessionMoves, StoreSessionEffect DEF Shapes, TypeOK, Moves

LEMMA StoreTokenEffect ==
  ASSUME Shapes, NEW t \in Tabs, StoreToken(t)
  PROVE  /\ tokens' \in [Tokens -> Session \cup {NoEntry}]
         /\ tokens'[NewToken(BrowserOf[t], "refresh")] = Fresh(tab[t].user)
         /\ \A y \in Tokens \ {NewToken(BrowserOf[t], "refresh")} : tokens'[y] = tokens[y]
<1> DEFINE x == NewToken(BrowserOf[t], "refresh")
<1>1. x \in Tokens /\ tab[t].user \in Users
  BY StoreTokenMoves
<1>2. tokens' = [tokens EXCEPT ![x] = Fresh(tab[t].user)]
  BY DEF StoreToken
<1>3. tokens \in [Tokens -> Session \cup {NoEntry}] /\ Fresh(tab[t].user) \in Session
  BY <1>1, FreshSession DEF Shapes, TypeOK
<1> HIDE DEF x
<1>4. /\ tokens' \in [Tokens -> Session \cup {NoEntry}]
      /\ tokens'[x] = Fresh(tab[t].user)
      /\ \A y \in Tokens \ {x} : tokens'[y] = tokens[y]
  BY <1>1, <1>2, <1>3
<1>5. QED
  BY <1>4 DEF x

LEMMA StoreTokenKeepsShapes ==
  ASSUME Shapes, NEW t \in Tabs, StoreToken(t)
  PROVE  Shapes'
<1>1. UNCHANGED <<sessions, userSessions, jar, trouble>>
  BY DEF StoreToken
<1>2. QED
  BY <1>1, StoreTokenMoves, StoreTokenEffect DEF Shapes, TypeOK, Moves

LEMMA WithoutEffect ==
  ASSUME NEW store \in [Tokens -> Session \cup {NoEntry}], NEW gone
  PROVE  /\ Without(store, gone) \in [Tokens -> Session \cup {NoEntry}]
         /\ \A x \in Tokens : x \in gone => Without(store, gone)[x] = NoEntry
         /\ \A x \in Tokens : x \notin gone => Without(store, gone)[x] = store[x]
BY DEF Without

LEMMA DeleteSessionsEffect ==
  ASSUME Shapes, NEW t \in Tabs, DeleteSessions(t)
  PROVE  /\ sessions' \in [Tokens -> Session \cup {NoEntry}]
         /\ \A x \in Tokens : sessions'[x] # NoEntry =>
              sessions'[x] = sessions[x] /\ sessions[x].user # tab[t].user
         /\ userSessions' \in [Users -> SUBSET Tokens]
         /\ \A x \in Tokens : sessions'[x] # NoEntry => x \in userSessions'[sessions'[x].user]
<1> DEFINE u == tab[t].user
<1>1. u \in Users
  BY DeleteSessionsMoves, ShapesFacts DEF TabOK, ShapeOK
<1>2. /\ sessions' = Without(sessions, userSessions[u])
      /\ userSessions' = [userSessions EXCEPT ![u] = {}]
  BY DEF DeleteSessions
<1>3. /\ sessions \in [Tokens -> Session \cup {NoEntry}]
      /\ userSessions \in [Users -> SUBSET Tokens]
      /\ \A y \in Tokens : sessions[y] # NoEntry => y \in userSessions[sessions[y].user]
  BY DEF Shapes, TypeOK
<1> HIDE DEF u
<1>4. /\ sessions' \in [Tokens -> Session \cup {NoEntry}]
      /\ \A x \in Tokens : x \in userSessions[u] => sessions'[x] = NoEntry
      /\ \A x \in Tokens : x \notin userSessions[u] => sessions'[x] = sessions[x]
  BY <1>2, <1>3, WithoutEffect
<1>5. \A x \in Tokens :
        sessions'[x] # NoEntry => sessions'[x] = sessions[x] /\ sessions[x].user # u
  BY <1>3, <1>4
<1>6. /\ userSessions' \in [Users -> SUBSET Tokens]
      /\ \A v \in Users \ {u} : userSessions'[v] = userSessions[v]
  BY <1>1, <1>2, <1>3
<1>7. \A x \in Tokens : sessions'[x] # NoEntry => x \in userSessions'[sessions'[x].user]
  BY <1>3, <1>5, <1>6 DEF Session
<1>8. QED
  BY <1>4, <1>5, <1>6, <1>7 DEF u

LEMMA DeleteSessionsKeepsShapes ==
  ASSUME Shapes, NEW t \in Tabs, DeleteSessions(t)
  PROVE  Shapes'
<1>1. UNCHANGED <<tokens, jar, trouble>>
  BY DEF DeleteSessions
<1>2. QED
  BY <1>1, DeleteSessionsMoves, DeleteSessionsEffect DEF Shapes, TypeOK, Moves

LEMMA DeleteTokensEffect ==
  ASSUME Shapes, NEW t \in Tabs, DeleteTokens(t)
  PROVE  /\ tokens' \in [Tokens -> Session \cup {NoEntry}]
         /\ \A x \in Tokens : tokens'[x] # NoEntry =>
              tokens'[x] = tokens[x] /\ tokens[x].user # tab[t].user
         /\ \A x \in Tokens : tokens[x] # NoEntry /\ tokens[x].user # tab[t].user =>
              tokens'[x] = tokens[x]
<1>1. tokens' = Without(tokens, TokensOf(tab[t].user))
  BY DEF DeleteTokens
<1>2. tokens \in [Tokens -> Session \cup {NoEntry}]
  BY DEF Shapes, TypeOK
<1>3. QED
  BY <1>1, <1>2, WithoutEffect DEF TokensOf

LEMMA DeleteTokensKeepsShapes ==
  ASSUME Shapes, NEW t \in Tabs, DeleteTokens(t)
  PROVE  Shapes'
<1>1. UNCHANGED <<sessions, userSessions, jar, trouble>>
  BY DEF DeleteTokens
<1>2. QED
  BY <1>1, AnswerMoves, DeleteTokensEffect DEF Shapes, TypeOK, Moves

\* Ageing changes nothing but the age.
LEMMA AgesEffect ==
  ASSUME NEW store \in [Tokens -> Session \cup {NoEntry}], NEW x \in Tokens, NEW age \in Ages,
         store[x] # NoEntry
  PROVE  /\ [store EXCEPT ![x].age = age] \in [Tokens -> Session \cup {NoEntry}]
         /\ [store EXCEPT ![x].age = age][x].user = store[x].user
         /\ [store EXCEPT ![x].age = age][x] # NoEntry
         /\ \A y \in Tokens \ {x} : [store EXCEPT ![x].age = age][y] = store[y]
<1>1. store[x] \in Session
  OBVIOUS
<1>2. /\ [store[x] EXCEPT !.age = age] \in Session
      /\ [store[x] EXCEPT !.age = age].user = store[x].user
  BY <1>1 DEF Session
<1>3. QED
  BY <1>1, <1>2, SessionsAssumption

LEMMA SessionAgesEffect ==
  ASSUME Shapes, NEW x \in Tokens, SessionAges(x)
  PROVE  /\ sessions' \in [Tokens -> Session \cup {NoEntry}]
         /\ \A y \in Tokens : sessions'[y] # NoEntry =>
              sessions[y] # NoEntry /\ sessions'[y].user = sessions[y].user
<1>1. PICK age \in Later(sessions[x].age) : sessions' = [sessions EXCEPT ![x].age = age]
  BY DEF SessionAges
<1>2. age \in Ages /\ sessions[x] # NoEntry /\ sessions \in [Tokens -> Session \cup {NoEntry}]
  BY DEF Later, Ages, SessionAges, Shapes, TypeOK
<1>3. QED
  BY <1>1, <1>2, AgesEffect

LEMMA SessionAgesKeepsShapes ==
  ASSUME Shapes, NEW x \in Tokens, SessionAges(x)
  PROVE  Shapes'
<1>1. UNCHANGED <<userSessions, tokens, jar, tab>> /\ Clock
  BY DEF SessionAges, Clock
<1>2. QED
  BY <1>1, SessionAgesEffect, ClockType DEF Shapes, TypeOK

LEMMA TokenAgesEffect ==
  ASSUME Shapes, NEW x \in Tokens, TokenAges(x)
  PROVE  /\ tokens' \in [Tokens -> Session \cup {NoEntry}]
         /\ tokens[x] # NoEntry
         /\ tokens'[x] # NoEntry
         /\ tokens'[x].user = tokens[x].user
         /\ \A y \in Tokens \ {x} : tokens'[y] = tokens[y]
<1>1. PICK age \in Later(tokens[x].age) : tokens' = [tokens EXCEPT ![x].age = age]
  BY DEF TokenAges
<1>2. age \in Ages /\ tokens[x] # NoEntry /\ tokens \in [Tokens -> Session \cup {NoEntry}]
  BY DEF Later, Ages, TokenAges, Shapes, TypeOK
<1>3. QED
  BY <1>1, <1>2, AgesEffect

LEMMA TokenAgesKeepsShapes ==
  ASSUME Shapes, NEW x \in Tokens, TokenAges(x)
  PROVE  Shapes'
<1>1. UNCHANGED <<sessions, userSessions, jar, tab>> /\ Clock
  BY DEF TokenAges, Clock
<1>2. QED
  BY <1>1, TokenAgesEffect, ClockType DEF Shapes, TypeOK

LEMMA RestartEffect ==
  ASSUME Shapes, Restart
  PROVE  /\ tab' \in [Tabs -> Tab]
         /\ \A t \in Tabs : tab'[t] = IF tab[t].next \in Steps THEN At("error") ELSE tab[t]
         /\ \A t \in Tabs : ShapeOK(tab'[t], BrowserOf[t])
<1>1. \A t \in Tabs : tab'[t] = IF tab[t].next \in Steps THEN At("error") ELSE tab[t]
  BY DEF Restart
<1>2. \A t \in Tabs : TabOK(At("error"), BrowserOf[t]) /\ TabOK(tab[t], BrowserOf[t])
  BY ShapesFacts, AtShape DEF Paths
<1>3. QED
  BY <1>1, <1>2 DEF Restart, TabOK

LEMMA RestartKeepsShapes ==
  ASSUME Shapes, Restart
  PROVE  Shapes'
<1>1. /\ UNCHANGED <<tokens, jar>>
      /\ Clock
      /\ sessions' = [x \in Tokens |-> NoEntry]
      /\ userSessions' = [u \in Users |-> {}]
  BY DEF Restart, Clock
<1>2. QED
  BY <1>1, RestartEffect, ClockType DEF Shapes, TypeOK

LEMMA ShapesNext ==
  ASSUME Shapes, [Next]_vars
  PROVE  Shapes'
<1>1. CASE UNCHANGED vars
  BY <1>1 DEF vars, Shapes, TypeOK
<1>2. ASSUME NEW t \in Tabs, NEW path \in Paths, Open(t, path)
      PROVE  Shapes'
  <2>1. UNCHANGED <<sessions, userSessions, tokens, jar>> /\ Clock
    BY <1>2 DEF Open, OnlyTab, Clock
  <2>2. QED
    BY <1>2, <2>1, OpenMoves, TabOnlyKeepsShapes
<1>3. ASSUME NEW t \in Tabs, NEW u \in Users, NEW rememberMe \in BOOLEAN,
             SignIn(t, u, rememberMe)
      PROVE  Shapes'
  <2>1. UNCHANGED <<sessions, userSessions, tokens, jar>> /\ Clock
    BY <1>3 DEF SignIn, OnlyTab, Clock
  <2>2. QED
    BY <1>3, <2>1, SignInMoves, TabOnlyKeepsShapes
<1>4. ASSUME NEW t \in Tabs,
             SignOut(t) \/ Follow(t) \/ Middleware(t) \/ RefreshAccepted(t) \/ Authenticated(t)
               \/ RefreshRefused(t) \/ RefreshFailed(t) \/ Refused(t) \/ StoreTokenFails(t)
               \/ DeleteTokensFails(t) \/ Lost(t)
      PROVE  Shapes'
  <2>1. UNCHANGED <<sessions, userSessions, tokens, jar>> /\ Clock
    BY <1>4 DEF SignOut, Follow, Middleware, RefreshAccepted, Authenticated, RefreshRefused,
                RefreshFailed, Refused, StoreTokenFails, DeleteTokensFails, Lost, OnlyTab, Clock
  <2>2. Moves(t)
    BY <1>4, SignOutMoves, FollowMoves, MiddlewareMoves, RefreshAcceptedMoves,
       AuthenticatedMoves, AnswerMoves, LostMoves
  <2>3. QED
    BY <2>1, <2>2, TabOnlyKeepsShapes
<1>5. ASSUME NEW t \in Tabs,
             Deliver(t) \/ StoreSession(t) \/ StoreToken(t) \/ DeleteSessions(t)
               \/ DeleteTokens(t)
      PROVE  Shapes'
  BY <1>5, DeliverKeepsShapes, StoreSessionKeepsShapes, StoreTokenKeepsShapes,
     DeleteSessionsKeepsShapes, DeleteTokensKeepsShapes
<1>6. ASSUME NEW x \in Tokens, SessionAges(x) \/ TokenAges(x)
      PROVE  Shapes'
  BY <1>6, SessionAgesKeepsShapes, TokenAgesKeepsShapes
<1>7. CASE Restart
  BY <1>7, RestartKeepsShapes
<1>8. QED
  BY <1>1, <1>2, <1>3, <1>4, <1>5, <1>6, <1>7 DEF Next, Step

LEMMA ShapesHold == Spec => []Shapes
BY ShapesInit, ShapesNext, PTL DEF Spec

-----------------------------------------------------------------------------
(* The history variables *)

\* Every step of the promises is a step of Sessions.
LEMMA Observes == [NextP]_varsP => [Next]_vars
<1>1. SUFFICES ASSUME NextP PROVE Next
  BY DEF varsP
<1>2. CASE \E t \in Tabs : \/ MiddlewareP(t) \/ RefreshAcceptedP(t) \/ AuthenticatedP(t)
                           \/ DeleteSessionsP(t) \/ DeleteTokensP(t) \/ DeliverP(t)
  BY <1>2 DEF Next, Step, MiddlewareP, RefreshAcceptedP, AuthenticatedP, DeleteSessionsP,
              DeleteTokensP, DeliverP
<1>3. CASE \E t \in Tabs : \/ \E path \in Paths : OpenP(t, path)
                           \/ \E u \in Users, rememberMe \in BOOLEAN : SignInP(t, u, rememberMe)
                           \/ SignOutP(t)
  BY <1>3 DEF Next, OpenP, SignInP, SignOutP
<1>4. CASE \E t \in Tabs : \/ DeleteTokensFailsP(t) \/ RefreshFailedP(t)
                           \/ FailP(t) \/ OtherP(t)
  BY <1>4 DEF Next, Step, DeleteTokensFailsP, RefreshFailedP, FailP, OtherP
<1>5. CASE \/ \E x \in Tokens : TokenAgesP(x)
           \/ (\E x \in Tokens : SessionAges(x)) /\ UNCHANGED promises
           \/ RestartP
  BY <1>5 DEF Next, TokenAgesP, RestartP
<1>6. QED
  BY <1>1, <1>2, <1>3, <1>4, <1>5 DEF NextP

LEMMA RecordedNext ==
  ASSUME Shapes, Recorded, [NextP]_varsP
  PROVE  Recorded'
<1> USE DEF Recorded, promises
<1>1. ASSUME NEW t \in Tabs, NEW path \in Paths, OpenP(t, path)
      PROVE  Recorded'
  BY <1>1 DEF OpenP
<1>2. ASSUME NEW t \in Tabs, NEW u \in Users, NEW rememberMe \in BOOLEAN,
             SignInP(t, u, rememberMe)
      PROVE  Recorded'
  BY <1>2 DEF SignInP
<1>3. ASSUME NEW t \in Tabs,
             SignOutP(t) \/ DeliverP(t) \/ DeleteTokensFailsP(t) \/ RefreshFailedP(t) \/ FailP(t)
      PROVE  Recorded'
  BY <1>3 DEF SignOutP, DeliverP, DeleteTokensFailsP, RefreshFailedP, FailP
<1>4. ASSUME NEW t \in Tabs,
             RefreshAcceptedP(t) \/ MiddlewareP(t) \/ AuthenticatedP(t) \/ DeleteSessionsP(t)
               \/ OtherP(t)
      PROVE  Recorded'
  BY <1>4 DEF RefreshAcceptedP, MiddlewareP, AuthenticatedP, DeleteSessionsP, OtherP, Served
<1>5. ASSUME NEW t \in Tabs, DeleteTokensP(t)
      PROVE  Recorded'
  <2>1. tab[t].user \in Users
    BY <1>5, ShapesFacts DEF DeleteTokensP, DeleteTokens, TabOK, ShapeOK
  <2>2. QED
    BY <1>5, <2>1 DEF DeleteTokensP
<1>6. ASSUME NEW x \in Tokens, TokenAgesP(x)
      PROVE  Recorded'
  BY <1>6 DEF TokenAgesP
<1>7. ASSUME UNCHANGED promises
      PROVE  Recorded'
  BY <1>7
<1>8. ASSUME RestartP
      PROVE  Recorded'
  BY <1>8 DEF RestartP
<1> HIDE DEF Recorded, promises
<1>9. QED
  BY <1>1, <1>2, <1>3, <1>4, <1>5, <1>6, <1>7, <1>8 DEF NextP, varsP

-----------------------------------------------------------------------------
(* Signing out: OutInv is an invariant. *)

\* A step of tab t is going to store something for u.
Storing(t, u) == tab[t].user = u /\ tab[t].next \in {"session", "token"}

\* Nothing is stored for a user that signed out, and nothing is going to be; and between
\* the two steps of a sign-out that is alone that holds of the sessions already.
OutInv ==
  /\ SignedOutMeansOut
  /\ \A u \in signedOut, t \in Tabs : ~Storing(t, u)
  /\ \A t \in Tabs : t \in alone /\ tab[t].next = "untoken" =>
       /\ \A x \in Tokens : sessions[x] # NoEntry => sessions[x].user # tab[t].user
       /\ \A s \in Tabs \ {t} : ~Storing(s, tab[t].user)

LEMMA SignedOutOfBoth ==
  SignedOutMeansOut <=>
    /\ \A x \in Tokens : sessions[x] # NoEntry => sessions[x].user \notin signedOut
    /\ \A x \in Tokens : tokens[x] # NoEntry => tokens[x].user \notin signedOut
BY DEF SignedOutMeansOut

LEMMA SignedOutOfBothNext ==
  SignedOutMeansOut' <=>
    /\ \A x \in Tokens : sessions'[x] # NoEntry => sessions'[x].user \notin signedOut'
    /\ \A x \in Tokens : tokens'[x] # NoEntry => tokens'[x].user \notin signedOut'
BY DEF SignedOutMeansOut

\* Whom an entry of a store belongs to does not change, and none is added.
NothingNew(store, next) ==
  \A x \in Tokens : next[x] # NoEntry => store[x] # NoEntry /\ next[x].user = store[x].user

\* A step after which t is not about to store anything.
LEMMA OutQuiet ==
  ASSUME OutInv, NEW t \in Tabs, Moves(t),
         tab'[t].next \notin {"session", "token", "untoken"},
         NothingNew(sessions, sessions'), NothingNew(tokens, tokens'),
         signedOut' = signedOut, alone' \subseteq alone \cup {t}
  PROVE  OutInv'
<1>1. SignedOutMeansOut'
  BY SignedOutOfBoth, SignedOutOfBothNext DEF OutInv, NothingNew
<1>2. \A u \in signedOut', s \in Tabs : ~Storing(s, u)'
  BY DEF OutInv, Storing, Moves
<1>3. ASSUME NEW s \in Tabs, s \in alone', tab'[s].next = "untoken"
      PROVE  /\ \A x \in Tokens : sessions'[x] # NoEntry => sessions'[x].user # tab'[s].user
             /\ \A r \in Tabs \ {s} : ~Storing(r, tab[s].user)'
  <2>1. s # t /\ s \in alone /\ tab'[s] = tab[s]
    BY <1>3 DEF Moves
  <2>2. /\ \A x \in Tokens : sessions[x] # NoEntry => sessions[x].user # tab[s].user
        /\ \A r \in Tabs \ {s} : ~Storing(r, tab[s].user)
    BY <1>3, <2>1 DEF OutInv
  <2>3. QED
    BY <2>1, <2>2 DEF NothingNew, Storing, Moves
<1>4. QED
  BY <1>1, <1>2, <1>3 DEF OutInv

\* A step after which t serves somebody: from then on no sign-out of theirs is alone.
LEMMA OutServed ==
  ASSUME OutInv, NEW t \in Tabs, Moves(t), NEW u, tab'[t].user = u,
         tab'[t].next # "untoken",
         sessions' = sessions, tokens' = tokens,
         signedOut' \subseteq signedOut,
         tab'[t].next \in {"session", "token"} => u \notin signedOut',
         Served(t, u)
  PROVE  OutInv'
<1>1. SignedOutMeansOut'
  BY SignedOutOfBoth, SignedOutOfBothNext DEF OutInv
<1>2. \A v \in signedOut', s \in Tabs : ~Storing(s, v)'
  BY DEF OutInv, Storing, Moves
<1>3. ASSUME NEW s \in Tabs, s \in alone', tab'[s].next = "untoken"
      PROVE  /\ \A x \in Tokens : sessions'[x] # NoEntry => sessions'[x].user # tab'[s].user
             /\ \A r \in Tabs \ {s} : ~Storing(r, tab[s].user)'
  <2>1. s # t /\ s \in alone /\ tab'[s] = tab[s] /\ tab[s].user # u
    BY <1>3 DEF Moves, Served
  <2>2. /\ \A x \in Tokens : sessions[x] # NoEntry => sessions[x].user # tab[s].user
        /\ \A r \in Tabs \ {s} : ~Storing(r, tab[s].user)
    BY <1>3, <2>1 DEF OutInv
  <2>3. QED
    BY <2>1, <2>2 DEF Storing, Moves
<1>4. QED
  BY <1>1, <1>2, <1>3 DEF OutInv

\* A step that stores something for the user it serves.
LEMMA OutStores ==
  ASSUME OutInv, NEW t \in Tabs, Moves(t), NEW u, Storing(t, u),
         tab'[t].next # "untoken",
         tab'[t].next \in {"session", "token"} => tab'[t].user = u,
         \A x \in Tokens : sessions'[x] # NoEntry =>
           \/ sessions[x] # NoEntry /\ sessions'[x].user = sessions[x].user
           \/ sessions'[x].user = u,
         \A x \in Tokens : tokens'[x] # NoEntry =>
           \/ tokens[x] # NoEntry /\ tokens'[x].user = tokens[x].user
           \/ tokens'[x].user = u,
         UNCHANGED promises
  PROVE  OutInv'
<1>1. signedOut' = signedOut /\ alone' = alone /\ u \notin signedOut
  BY DEF OutInv, promises
<1>2. SignedOutMeansOut'
  BY <1>1, SignedOutOfBoth, SignedOutOfBothNext DEF OutInv
<1>3. \A v \in signedOut', s \in Tabs : ~Storing(s, v)'
  BY <1>1 DEF OutInv, Storing, Moves
<1>4. ASSUME NEW s \in Tabs, s \in alone', tab'[s].next = "untoken"
      PROVE  /\ \A x \in Tokens : sessions'[x] # NoEntry => sessions'[x].user # tab'[s].user
             /\ \A r \in Tabs \ {s} : ~Storing(r, tab[s].user)'
  <2>1. s # t /\ s \in alone /\ tab'[s] = tab[s]
    BY <1>1, <1>4 DEF Moves
  <2>2. /\ \A x \in Tokens : sessions[x] # NoEntry => sessions[x].user # tab[s].user
        /\ \A r \in Tabs \ {s} : ~Storing(r, tab[s].user)
    BY <1>4, <2>1 DEF OutInv
  <2>3. tab[s].user # u
    BY <2>1, <2>2 DEF Storing
  <2>4. QED
    BY <2>1, <2>2, <2>3 DEF Storing, Moves
<1>5. QED
  BY <1>2, <1>3, <1>4 DEF OutInv

LEMMA OutMiddleware ==
  ASSUME Shapes, OutInv, NEW t \in Tabs, MiddlewareP(t)
  PROVE  OutInv'
<1>1. /\ Middleware(t)
      /\ Served(t, tab'[t].user)
      /\ UNCHANGED <<sessions, tokens, signedOut>>
  BY DEF MiddlewareP, Middleware, OnlyTab
<1>2. Moves(t) /\ tab'[t].next # "untoken" /\ tab'[t].next # "token"
  BY <1>1, MiddlewareMoves
<1>3. tab'[t].next = "session" => tab'[t].user \notin signedOut
  BY <1>1, MiddlewareMoves, SignedOutOfBoth DEF OutInv
<1>4. QED
  BY <1>1, <1>2, <1>3, OutServed

LEMMA OutRefreshAccepted ==
  ASSUME Shapes, OutInv, NEW t \in Tabs, RefreshAcceptedP(t)
  PROVE  OutInv'
<1>1. /\ RefreshAccepted(t)
      /\ Served(t, tab'[t].user)
      /\ UNCHANGED <<sessions, tokens, signedOut>>
  BY DEF RefreshAcceptedP, RefreshAccepted, OnlyTab
<1>2. Moves(t) /\ tab'[t].next = "session" /\ tab'[t].user \notin signedOut
  BY <1>1, RefreshAcceptedMoves, SignedOutOfBoth DEF OutInv
<1>3. QED
  BY <1>1, <1>2, OutServed

LEMMA OutAuthenticated ==
  ASSUME Shapes, OutInv, NEW t \in Tabs, AuthenticatedP(t)
  PROVE  OutInv'
<1>1. /\ Authenticated(t)
      /\ Served(t, tab[t].user)
      /\ signedOut' = signedOut \ {tab[t].user}
      /\ UNCHANGED <<sessions, tokens>>
  BY DEF AuthenticatedP, Authenticated, OnlyTab
<1>2. Moves(t) /\ tab'[t].next # "untoken" /\ tab'[t].user = tab[t].user
  BY <1>1, AuthenticatedMoves
<1>3. QED
  BY <1>1, <1>2, OutServed

LEMMA OutStoreSession ==
  ASSUME Shapes, OutInv, NEW t \in Tabs, StoreSession(t), UNCHANGED promises
  PROVE  OutInv'
<1>1. tokens' = tokens
  BY DEF StoreSession
<1>2. /\ Moves(t)
      /\ Storing(t, tab[t].user)
      /\ tab'[t].next # "untoken"
      /\ tab'[t].next # "session"
      /\ tab'[t].next = "token" => tab'[t].user = tab[t].user
  BY StoreSessionMoves DEF Storing
<1>3. QED
  BY <1>1, <1>2, StoreSessionEffect, OutStores

LEMMA OutStoreToken ==
  ASSUME Shapes, OutInv, NEW t \in Tabs, StoreToken(t), UNCHANGED promises
  PROVE  OutInv'
<1>1. sessions' = sessions
  BY DEF StoreToken
<1>2. /\ Moves(t)
      /\ Storing(t, tab[t].user)
      /\ tab[t].user \in Users
      /\ tab'[t].next # "untoken"
      /\ tab'[t].next \in {"session", "token"} => tab'[t].user = tab[t].user
  BY StoreTokenMoves DEF Storing
<1>3. \A x \in Tokens : tokens'[x] # NoEntry =>
        \/ tokens[x] # NoEntry /\ tokens'[x].user = tokens[x].user
        \/ tokens'[x].user = tab[t].user
  BY <1>2, StoreTokenEffect, FreshSession
<1>4. QED
  BY <1>1, <1>2, <1>3, OutStores

\* The first step of a sign-out: alone, it leaves no session of the user, and nobody who
\* is going to store one.
LEMMA OutDeleteSessions ==
  ASSUME Shapes, OutInv, NEW t \in Tabs, DeleteSessionsP(t)
  PROVE  OutInv'
<1>1. /\ DeleteSessions(t)
      /\ UNCHANGED <<tokens, signedOut>>
      /\ alone' = IF Serving(t, tab[t].user) = {} THEN alone \cup {t} ELSE alone \ {t}
  BY DEF DeleteSessionsP, DeleteSessions
<1>2. Moves(t) /\ tab'[t].next = "untoken" /\ tab'[t].user = tab[t].user
  BY <1>1, DeleteSessionsMoves
<1>3. \A x \in Tokens : sessions'[x] # NoEntry =>
        /\ sessions[x] # NoEntry
        /\ sessions'[x].user = sessions[x].user
        /\ sessions'[x].user # tab[t].user
  BY <1>1, DeleteSessionsEffect
<1>4. SignedOutMeansOut'
  BY <1>1, <1>3, SignedOutOfBoth, SignedOutOfBothNext DEF OutInv
<1>5. \A u \in signedOut', s \in Tabs : ~Storing(s, u)'
  BY <1>1, <1>2 DEF OutInv, Storing, Moves
<1>6. ASSUME NEW s \in Tabs, s \in alone', tab'[s].next = "untoken"
      PROVE  /\ \A x \in Tokens : sessions'[x] # NoEntry => sessions'[x].user # tab'[s].user
             /\ \A r \in Tabs \ {s} : ~Storing(r, tab[s].user)'
  <2>1. CASE s = t
    <3>1. \A r \in Tabs \ {t} : ~Storing(r, tab[t].user)
      BY <1>1, <1>6, <2>1 DEF Serving, Storing
    <3>2. QED
      BY <1>2, <1>3, <2>1, <3>1 DEF Storing, Moves
  <2>2. CASE s # t
    <3>1. s \in alone /\ tab'[s] = tab[s]
      BY <1>1, <1>2, <1>6, <2>2 DEF Moves
    <3>2. /\ \A x \in Tokens : sessions[x] # NoEntry => sessions[x].user # tab[s].user
          /\ \A r \in Tabs \ {s} : ~Storing(r, tab[s].user)
      BY <1>6, <3>1 DEF OutInv
    <3>3. QED
      BY <1>2, <1>3, <3>1, <3>2 DEF Storing, Moves
  <2>3. QED
    BY <2>1, <2>2
<1>7. QED
  BY <1>4, <1>5, <1>6 DEF OutInv

\* The second step.
LEMMA OutDeleteTokens ==
  ASSUME Shapes, OutInv, NEW t \in Tabs, DeleteTokensP(t)
  PROVE  OutInv'
<1>1. /\ DeleteTokens(t)
      /\ tab[t].next = "untoken"
      /\ sessions' = sessions
      /\ alone' = {}
      /\ signedOut' = IF t \in alone THEN signedOut \cup {tab[t].user} ELSE signedOut
  BY DEF DeleteTokensP, DeleteTokens
<1>2. Moves(t) /\ tab'[t].next \in {"land", "redirect"}
  BY <1>1, AnswerMoves
<1>3. \A x \in Tokens :
        tokens'[x] # NoEntry => tokens'[x] = tokens[x] /\ tokens[x].user # tab[t].user
  BY <1>1, DeleteTokensEffect
<1>4. t \in alone =>
        /\ \A x \in Tokens : sessions[x] # NoEntry => sessions[x].user # tab[t].user
        /\ \A s \in Tabs \ {t} : ~Storing(s, tab[t].user)
  BY <1>1 DEF OutInv
<1>5. SignedOutMeansOut'
  BY <1>1, <1>3, <1>4, SignedOutOfBoth, SignedOutOfBothNext DEF OutInv
<1>6. \A u \in signedOut', s \in Tabs : ~Storing(s, u)'
  BY <1>1, <1>2, <1>4 DEF OutInv, Storing, Moves
<1>7. QED
  BY <1>1, <1>5, <1>6 DEF OutInv

LEMMA OutRestart ==
  ASSUME Shapes, OutInv, RestartP
  PROVE  OutInv'
<1>1. /\ Restart
      /\ signedOut' = signedOut
      /\ tokens' = tokens
      /\ \A x \in Tokens : sessions'[x] = NoEntry
      /\ alone' = {t \in alone : tab'[t].next # "rest"}
  BY DEF RestartP, Restart
<1>2. \A t \in Tabs : tab'[t].next \notin Steps
  BY <1>1, RestartEffect, AtError DEF Steps
<1>3. SignedOutMeansOut'
  BY <1>1, SignedOutOfBoth, SignedOutOfBothNext DEF OutInv
<1>4. \A t \in Tabs : tab'[t].next \notin {"session", "token", "untoken"}
  BY <1>2 DEF Steps
<1>5. QED
  BY <1>3, <1>4 DEF OutInv, Storing

\* Time passes: nothing is added, no tab moves.
LEMMA OutAges ==
  ASSUME OutInv, NothingNew(sessions, sessions'), NothingNew(tokens, tokens'),
         tab' = tab, signedOut' = signedOut, alone' \subseteq alone
  PROVE  OutInv'
<1>1. SignedOutMeansOut'
  BY SignedOutOfBoth, SignedOutOfBothNext DEF OutInv, NothingNew
<1>2. QED
  BY <1>1 DEF OutInv, Storing, NothingNew

LEMMA OutNext ==
  ASSUME Shapes, OutInv, [NextP]_varsP
  PROVE  OutInv'
<1>1. CASE UNCHANGED varsP
  BY <1>1 DEF varsP, vars, promises, OutInv, Storing, SignedOutMeansOut
<1>2. ASSUME NEW t \in Tabs, NEW path \in Paths, OpenP(t, path)
      PROVE  OutInv'
  BY <1>2, OpenMoves, OutQuiet DEF OpenP, Open, OnlyTab, NothingNew
<1>3. ASSUME NEW t \in Tabs, NEW u \in Users, NEW rememberMe \in BOOLEAN,
             SignInP(t, u, rememberMe)
      PROVE  OutInv'
  BY <1>3, SignInMoves, OutQuiet DEF SignInP, SignIn, OnlyTab, NothingNew
<1>4. ASSUME NEW t \in Tabs,
             SignOutP(t) \/ DeliverP(t) \/ DeleteTokensFailsP(t) \/ RefreshFailedP(t) \/ FailP(t)
      PROVE  OutInv'
  <2>1. /\ UNCHANGED <<sessions, tokens, signedOut>>
        /\ alone' \subseteq alone \cup {t}
    BY <1>4 DEF SignOutP, DeliverP, DeleteTokensFailsP, RefreshFailedP, FailP, SignOut, Deliver,
                DeleteTokensFails, RefreshFailed, Refused, StoreTokenFails, Lost, OnlyTab
  <2>2. Moves(t) /\ tab'[t].next \notin {"session", "token", "untoken"}
    BY <1>4, SignOutMoves, DeliverMoves, AnswerMoves, LostMoves, AtError
    DEF SignOutP, DeliverP, DeleteTokensFailsP, RefreshFailedP, FailP
  <2>3. QED
    BY <2>1, <2>2, OutQuiet DEF NothingNew
<1>5. ASSUME NEW t \in Tabs,
             MiddlewareP(t) \/ RefreshAcceptedP(t) \/ AuthenticatedP(t) \/ DeleteSessionsP(t)
               \/ DeleteTokensP(t)
      PROVE  OutInv'
  BY <1>5, OutMiddleware, OutRefreshAccepted, OutAuthenticated, OutDeleteSessions,
     OutDeleteTokens
<1>6. ASSUME NEW x \in Tokens, TokenAgesP(x)
      PROVE  OutInv'
  <2>1. TokenAges(x) /\ UNCHANGED <<sessions, tab, signedOut>> /\ alone' \subseteq alone
    BY <1>6 DEF TokenAgesP, TokenAges
  <2>2. NothingNew(tokens, tokens')
    BY <2>1, TokenAgesEffect DEF NothingNew
  <2>3. QED
    BY <2>1, <2>2, OutAges DEF NothingNew
<1>7. ASSUME NEW x \in Tokens, SessionAges(x), UNCHANGED promises
      PROVE  OutInv'
  <2>1. UNCHANGED <<tokens, tab, signedOut, alone>>
    BY <1>7 DEF SessionAges, promises
  <2>2. NothingNew(sessions, sessions')
    BY <1>7, SessionAgesEffect DEF NothingNew
  <2>3. QED
    BY <2>1, <2>2, OutAges DEF NothingNew
<1>8. QED
  <2>1. ASSUME NEW t \in Tabs, OtherP(t)
        PROVE  OutInv'
    <3>1. CASE RefreshRefused(t) \/ Follow(t)
      <4>1. UNCHANGED <<sessions, tokens, signedOut, alone>>
        BY <2>1, <3>1 DEF OtherP, RefreshRefused, Follow, OnlyTab, promises
      <4>2. Moves(t) /\ tab'[t].next \notin {"session", "token", "untoken"}
        BY <3>1, AnswerMoves, FollowMoves
      <4>3. QED
        BY <4>1, <4>2, OutQuiet DEF NothingNew
    <3>2. CASE StoreSession(t) \/ StoreToken(t)
      BY <2>1, <3>2, OutStoreSession, OutStoreToken DEF OtherP
    <3>3. QED
      BY <2>1, <3>1, <3>2 DEF OtherP
  <2>2. CASE RestartP
    BY <2>2, OutRestart
  <2>3. ASSUME NEW t \in Tabs,
               SignOutP(t) \/ DeliverP(t) \/ RefreshAcceptedP(t) \/ MiddlewareP(t)
                 \/ AuthenticatedP(t) \/ DeleteSessionsP(t) \/ DeleteTokensP(t)
                 \/ DeleteTokensFailsP(t) \/ RefreshFailedP(t) \/ FailP(t)
        PROVE  OutInv'
    BY <1>4, <1>5, <2>3
  <2>4. CASE NextP
    BY <1>2, <1>3, <1>6, <1>7, <2>1, <2>2, <2>3, <2>4 DEF NextP
  <2>5. QED
    BY <1>1, <2>4

-----------------------------------------------------------------------------
(* Being remembered: InInv is an invariant. *)

GoodIn(store, x, u) == Valid(store, x) /\ store[x].user = u

\* A sign-in that has been alone so far.
SignInAlone(t) ==
  /\ remembered[BrowserOf[t]] = Nobody
  /\ \A s \in TabsOf(BrowserOf[t]) \ {t} : tab[s].next = "rest"
  /\ tab[t].next \in {"authenticate", "token", "session", "redirect"}
  /\ tab[t].next # "redirect" => tab[t].path = "signin"
  /\ tab[t].set["refresh"] \in Tokens => Valid(tokens, tab[t].set["refresh"])

\* The record of a tab of a browser that remembers u.
Remembers(r, store, u) ==
  /\ r.set["refresh"] = Keep \/ GoodIn(store, r.set["refresh"], u)
  /\ r.next # "rest" => r.path \notin {"logout", "signin"}
  /\ r.path = "refresh" /\ r.next = "verify" => GoodIn(store, r.carried, u)
  /\ r.path = "refresh" /\ r.next \in {"session", "token"} => r.user = u

\* A browser that remembers somebody has no sign-in or sign-out under way, and its refresh
\* token is good, in the jar and wherever it is on its way; a sign-in that is alone in its
\* browser carries a good token or none.
InInv ==
  /\ remembered \in [Browsers -> Users \cup {Nobody}]
  /\ \A t \in Tabs : t \in alone /\ tab[t].next # "untoken" => SignInAlone(t)
  /\ \A b \in Browsers : remembered[b] # Nobody =>
       /\ GoodIn(tokens, jar[b]["refresh"], remembered[b])
       /\ \A t \in TabsOf(b) : Remembers(tab[t], tokens, remembered[b])

\* The refresh tokens that are held stay what they are.
HeldStay == \A x \in Tokens : x \in Held("refresh") => tokens'[x] = tokens[x]

LEMMA HeldOnes ==
  /\ \A b \in Browsers : jar[b]["refresh"] \in Held("refresh")
  /\ \A t \in Tabs : tab[t].set["refresh"] \in Held("refresh")
  /\ \A t \in Tabs : tab[t].path = "refresh" => tab[t].carried \in Held("refresh")
BY DEF Held, Cookie

LEMMA HeldInTokens ==
  ASSUME Shapes, NEW t \in Tabs
  PROVE  /\ tab[t].set["refresh"] \in Tokens \cup {NoToken, Keep}
         /\ tab[t].carried \in Tokens \cup {NoToken}
         /\ jar[BrowserOf[t]]["refresh"] \in Tokens \cup {NoToken}
<1>1. "refresh" \in Cookies
  BY DEF Cookies
<1>2. QED
  BY <1>1, ShapesFacts, OwnTokens DEF TabOK, Tab

LEMMA GoodStays ==
  ASSUME HeldStay, NEW x \in Tokens \cup {NoToken, Keep}, x # Keep, x \in Held("refresh"),
         NEW u, GoodIn(tokens, x, u)
  PROVE  GoodIn(tokens', x, u)
BY DEF HeldStay, GoodIn, Valid

LEMMA RemembersStays ==
  ASSUME Shapes, HeldStay, NEW t \in Tabs, NEW u, Remembers(tab[t], tokens, u)
  PROVE  Remembers(tab[t], tokens', u)
<1>1. /\ tab[t].set["refresh"] \in Tokens \cup {NoToken, Keep}
      /\ tab[t].set["refresh"] \in Held("refresh")
      /\ tab[t].carried \in Tokens \cup {NoToken, Keep}
      /\ tab[t].path = "refresh" => tab[t].carried \in Held("refresh")
      /\ tab[t].carried # Keep
  BY HeldInTokens, HeldOnes, SessionsAssumption
<1>2. tab[t].set["refresh"] = Keep \/ GoodIn(tokens', tab[t].set["refresh"], u)
  BY <1>1, GoodStays DEF Remembers
<1>3. tab[t].path = "refresh" /\ tab[t].next = "verify" => GoodIn(tokens', tab[t].carried, u)
  BY <1>1, GoodStays DEF Remembers
<1>4. QED
  BY <1>2, <1>3 DEF Remembers

\* A step of t that leaves the jars alone.
LEMMA InTab ==
  ASSUME Shapes, InInv, NEW t \in Tabs, Moves(t), HeldStay, jar' = jar,
         remembered' \in [Browsers -> Users \cup {Nobody}],
         \A b \in Browsers \ {BrowserOf[t]} : remembered'[b] = remembered[b],
         remembered'[BrowserOf[t]] \in {Nobody, remembered[BrowserOf[t]]},
         \/ tab[t].next # "rest" /\ alone' \subseteq alone \cup {t}
         \/ alone' \subseteq (alone \ TabsOf(BrowserOf[t])) \cup {t},
         t \in alone' /\ tab'[t].next # "untoken" => SignInAlone(t)',
         remembered'[BrowserOf[t]] # Nobody =>
           Remembers(tab'[t], tokens', remembered[BrowserOf[t]])
  PROVE  InInv'
<1> DEFINE b0 == BrowserOf[t]
<1>1. \A s \in Tabs : BrowserOf[s] \in Browsers
  BY SessionsAssumption
<1>2. ASSUME NEW s \in Tabs, s \in alone', tab'[s].next # "untoken", s # t
      PROVE  SignInAlone(s)'
  <2>1. tab'[s] = tab[s] /\ s \in alone /\ SignInAlone(s)
    BY <1>2 DEF Moves, InInv
  <2>2. BrowserOf[s] # b0
    BY <1>2, <2>1 DEF SignInAlone, TabsOf
  <2>3. \A r \in TabsOf(BrowserOf[s]) : tab'[r] = tab[r]
    BY <2>2 DEF Moves, TabsOf
  <2>4. remembered'[BrowserOf[s]] = remembered[BrowserOf[s]]
    BY <1>1, <2>2
  <2>5. tab[s].set["refresh"] \in Tokens => Valid(tokens', tab[s].set["refresh"])
    BY <2>1, HeldOnes DEF SignInAlone, HeldStay, Valid
  <2>6. QED
    BY <2>1, <2>3, <2>4, <2>5 DEF SignInAlone, TabsOf
<1>3. ASSUME NEW b \in Browsers, remembered'[b] # Nobody
      PROVE  /\ remembered'[b] = remembered[b]
             /\ GoodIn(tokens', jar[b]["refresh"], remembered[b])
             /\ \A s \in TabsOf(b) : Remembers(tab'[s], tokens', remembered[b])
  <2>1. remembered'[b] = remembered[b]
    BY <1>3
  <2>2. /\ GoodIn(tokens, jar[b]["refresh"], remembered[b])
        /\ \A s \in TabsOf(b) : Remembers(tab[s], tokens, remembered[b])
    BY <1>3, <2>1 DEF InInv
  <2>3. jar[b]["refresh"] \in Tokens \cup {NoToken} /\ jar[b]["refresh"] # Keep
    BY SessionsAssumption DEF Shapes, TypeOK, Cookies
  <2>4. GoodIn(tokens', jar[b]["refresh"], remembered[b])
    BY <2>2, <2>3, GoodStays, HeldOnes
  <2>5. ASSUME NEW s \in TabsOf(b)
        PROVE  Remembers(tab'[s], tokens', remembered[b])
    <3>1. s \in Tabs /\ BrowserOf[s] = b
      BY DEF TabsOf
    <3>2. CASE s = t
      BY <1>3, <2>1, <3>1, <3>2
    <3>3. CASE s # t
      BY <2>1, <2>2, <3>1, <3>3, RemembersStays DEF Moves
    <3>4. QED
      BY <3>2, <3>3
  <2>6. QED
    BY <2>1, <2>4, <2>5
<1>4. QED
  BY <1>2, <1>3 DEF InInv

LEMMA RemembersNow ==
  ASSUME InInv, NEW t \in Tabs, remembered[BrowserOf[t]] # Nobody
  PROVE  /\ GoodIn(tokens, jar[BrowserOf[t]]["refresh"], remembered[BrowserOf[t]])
         /\ Remembers(tab[t], tokens, remembered[BrowserOf[t]])
BY SessionsAssumption DEF InInv, TabsOf

LEMMA TokensStay ==
  ASSUME tokens' = tokens
  PROVE  HeldStay
BY DEF HeldStay

LEMMA NothingMentioned == Unmentioned["refresh"] = Keep
BY DEF Unmentioned, Cookies

\* What the observers do to what a browser is told: nothing, or they make it forget.
Kept == remembered' = remembered

LEMMA ForgetOne ==
  ASSUME InInv, NEW b \in Browsers, Forget(b)
  PROVE  /\ remembered' \in [Browsers -> Users \cup {Nobody}]
         /\ remembered'[b] = Nobody
         /\ \A c \in Browsers \ {b} : remembered'[c] = remembered[c]
BY DEF InInv, Forget

\* A step of a request under way that is not a sign-in that is alone, and leaves the
\* tokens alone.
LEMMA InRequest ==
  ASSUME Shapes, InInv, NEW t \in Tabs, Moves(t), tokens' = tokens, jar' = jar,
         tab[t].next # "rest", Kept, alone' \subseteq alone \cup {t},
         t \in alone' => tab'[t].next = "untoken",
         remembered[BrowserOf[t]] # Nobody =>
           Remembers(tab'[t], tokens, remembered[BrowserOf[t]])
  PROVE  InInv'
<1>1. remembered' \in [Browsers -> Users \cup {Nobody}]
  BY DEF InInv, Kept
<1>2. QED
  BY <1>1, InTab, TokensStay DEF Kept

LEMMA InOpen ==
  ASSUME Shapes, InInv, NEW t \in Tabs, NEW path \in Paths, OpenP(t, path)
  PROVE  InInv'
<1>1. /\ Open(t, path)
      /\ alone' = alone \ TabsOf(BrowserOf[t])
      /\ UNCHANGED <<tokens, jar, remembered>>
  BY DEF OpenP, Open, OnlyTab
<1>2. Moves(t) /\ t \notin alone'
  BY <1>1, OpenMoves DEF TabsOf
<1>3. \A u : Remembers(tab'[t], tokens, u)
  BY <1>1, OpenMoves, NothingMentioned DEF Remembers
<1>4. remembered' \in [Browsers -> Users \cup {Nobody}]
  BY <1>1 DEF InInv
<1>5. QED
  BY <1>1, <1>2, <1>3, <1>4, InTab, TokensStay

LEMMA InSignIn ==
  ASSUME Shapes, InInv, NEW t \in Tabs, NEW u \in Users, NEW rememberMe \in BOOLEAN,
         SignInP(t, u, rememberMe)
  PROVE  InInv'
<1> DEFINE b0 == BrowserOf[t]
<1>1. /\ SignIn(t, u, rememberMe)
      /\ alone' = (alone \ TabsOf(b0)) \cup (IF Quiet(t) THEN {t} ELSE {})
      /\ Forget(b0)
      /\ UNCHANGED <<tokens, jar>>
  BY DEF SignInP, SignIn, OnlyTab
<1>2. /\ Moves(t)
      /\ tab'[t].next = "authenticate"
      /\ tab'[t].path = "signin"
      /\ tab'[t].set["refresh"] = Keep
  BY <1>1, SignInMoves, NothingMentioned
<1>3. /\ b0 \in Browsers
      /\ remembered' \in [Browsers -> Users \cup {Nobody}]
      /\ remembered'[b0] = Nobody
      /\ \A c \in Browsers \ {b0} : remembered'[c] = remembered[c]
  BY <1>1, ShapesFacts, ForgetOne
<1>4. t \in alone' => SignInAlone(t)'
  <2>1. SUFFICES ASSUME t \in alone'
                 PROVE  SignInAlone(t)'
    OBVIOUS
  <2>2. \A s \in TabsOf(b0) \ {t} : tab'[s].next = "rest"
    BY <1>1, <1>2, <2>1 DEF Quiet, TabsOf, Moves
  <2>3. QED
    BY <1>2, <1>3, <2>2, SessionsAssumption DEF SignInAlone, TabsOf
<1>5. QED
  BY <1>1, <1>2, <1>3, <1>4, InTab, TokensStay

LEMMA InSignOut ==
  ASSUME Shapes, InInv, NEW t \in Tabs, SignOutP(t)
  PROVE  InInv'
<1> DEFINE b0 == BrowserOf[t]
<1>1. /\ SignOut(t)
      /\ alone' = alone \ TabsOf(b0)
      /\ Forget(b0)
      /\ UNCHANGED <<tokens, jar>>
  BY DEF SignOutP, SignOut, OnlyTab
<1>2. Moves(t) /\ t \notin alone'
  BY <1>1, SignOutMoves DEF TabsOf
<1>3. /\ b0 \in Browsers
      /\ remembered' \in [Browsers -> Users \cup {Nobody}]
      /\ remembered'[b0] = Nobody
      /\ \A c \in Browsers \ {b0} : remembered'[c] = remembered[c]
  BY <1>1, ShapesFacts, ForgetOne
<1>4. QED
  BY <1>1, <1>2, <1>3, InTab, TokensStay

LEMMA InMiddleware ==
  ASSUME Shapes, InInv, NEW t \in Tabs, MiddlewareP(t)
  PROVE  InInv'
<1> DEFINE u == remembered[BrowserOf[t]]
<1>1. /\ Middleware(t)
      /\ alone' \subseteq alone
      /\ UNCHANGED <<tokens, jar>>
      /\ Kept
  BY DEF MiddlewareP, Middleware, OnlyTab, Served, Kept
<1>2. /\ Moves(t)
      /\ tab[t].next = "verify"
      /\ tab[t].path # "refresh"
      /\ t \notin alone
  BY <1>1, MiddlewareMoves DEF InInv, SignInAlone
<1>3. ASSUME u # Nobody
      PROVE  Remembers(tab'[t], tokens, u)
  <2>1. /\ tab[t].path \notin {"logout", "signin"}
        /\ tab[t].set["refresh"] = Keep \/ GoodIn(tokens, tab[t].set["refresh"], u)
    BY <1>2, <1>3, RemembersNow DEF Remembers
  <2>2. QED
    BY <1>1, <1>2, <2>1, MiddlewareMoves DEF Remembers
<1>4. QED
  BY <1>1, <1>2, <1>3, InRequest

LEMMA InRefreshAccepted ==
  ASSUME Shapes, InInv, NEW t \in Tabs, RefreshAcceptedP(t)
  PROVE  InInv'
<1> DEFINE u == remembered[BrowserOf[t]]
<1>1. /\ RefreshAccepted(t)
      /\ alone' \subseteq alone
      /\ UNCHANGED <<tokens, jar>>
      /\ Kept
  BY DEF RefreshAcceptedP, RefreshAccepted, OnlyTab, Served, Kept
<1>2. /\ Moves(t)
      /\ tab[t].next = "verify"
      /\ t \notin alone
  BY <1>1, RefreshAcceptedMoves DEF InInv, SignInAlone
<1>3. ASSUME u # Nobody
      PROVE  Remembers(tab'[t], tokens, u)
  BY <1>1, <1>3, RefreshAcceptedMoves, RemembersNow DEF Remembers, GoodIn
<1>4. QED
  BY <1>1, <1>2, <1>3, InRequest

LEMMA InAuthenticated ==
  ASSUME Shapes, InInv, NEW t \in Tabs, AuthenticatedP(t)
  PROVE  InInv'
<1> DEFINE b0 == BrowserOf[t]
<1>1. /\ Authenticated(t)
      /\ alone' \subseteq alone
      /\ UNCHANGED <<tokens, jar, remembered>>
  BY DEF AuthenticatedP, Authenticated, OnlyTab, Served
<1>2. /\ Moves(t)
      /\ tab[t].next = "authenticate"
      /\ tab[t].path = "signin"
      /\ tab'[t].next \in {"token", "session"}
      /\ tab'[t].path = "signin"
      /\ tab'[t].set["refresh"] \notin Tokens
  BY <1>1, AuthenticatedMoves, SessionsAssumption
<1>3. remembered[b0] = Nobody
  BY <1>2, RemembersNow DEF Remembers
<1>4. t \in alone' => SignInAlone(t)'
  <2>1. SUFFICES ASSUME t \in alone'
                 PROVE  SignInAlone(t)'
    OBVIOUS
  <2>2. SignInAlone(t)
    BY <1>1, <1>2, <2>1 DEF InInv
  <2>3. QED
    BY <1>1, <1>2, <2>2 DEF SignInAlone, TabsOf, Moves
<1>5. remembered' \in [Browsers -> Users \cup {Nobody}]
  BY <1>1 DEF InInv
<1>6. QED
  BY <1>1, <1>2, <1>3, <1>4, <1>5, InTab, TokensStay

LEMMA InDeleteSessions ==
  ASSUME Shapes, InInv, NEW t \in Tabs, DeleteSessionsP(t)
  PROVE  InInv'
<1>1. /\ DeleteSessions(t)
      /\ alone' \subseteq alone \cup {t}
      /\ UNCHANGED <<tokens, jar>>
      /\ Kept
  BY DEF DeleteSessionsP, DeleteSessions, Kept
<1>2. /\ Moves(t)
      /\ tab[t].next = "unsession"
      /\ tab'[t].next = "untoken"
      /\ remembered[BrowserOf[t]] = Nobody
  BY <1>1, DeleteSessionsMoves, RemembersNow DEF Remembers
<1>3. QED
  BY <1>1, <1>2, InRequest

LEMMA InDeleteTokensFails ==
  ASSUME Shapes, InInv, NEW t \in Tabs, DeleteTokensFailsP(t)
  PROVE  InInv'
<1>1. /\ DeleteTokensFails(t)
      /\ tab[t].next = "untoken"
      /\ alone' = alone \ {t}
      /\ UNCHANGED <<tokens, jar>>
      /\ Kept
  BY DEF DeleteTokensFailsP, DeleteTokensFails, Kept
<1>2. tab[t].path = "logout"
  BY <1>1, ShapesFacts DEF TabOK, ShapeOK
<1>3. Moves(t) /\ remembered[BrowserOf[t]] = Nobody
  BY <1>1, <1>2, AnswerMoves, RemembersNow DEF Remembers
<1>4. QED
  BY <1>1, <1>3, InRequest

LEMMA InRefreshFailed ==
  ASSUME Shapes, InInv, NEW t \in Tabs, RefreshFailedP(t)
  PROVE  InInv'
<1> DEFINE b0 == BrowserOf[t]
<1>1. /\ RefreshFailed(t)
      /\ tab[t].next = "verify"
      /\ alone' = alone \ {t}
      /\ Forget(b0)
      /\ UNCHANGED <<tokens, jar>>
  BY DEF RefreshFailedP, RefreshFailed
<1>2. Moves(t)
  BY <1>1, AnswerMoves
<1>3. /\ b0 \in Browsers
      /\ remembered' \in [Browsers -> Users \cup {Nobody}]
      /\ remembered'[b0] = Nobody
      /\ \A c \in Browsers \ {b0} : remembered'[c] = remembered[c]
  BY <1>1, ShapesFacts, ForgetOne
<1>4. QED
  BY <1>1, <1>2, <1>3, InTab, TokensStay

LEMMA InFail ==
  ASSUME Shapes, InInv, NEW t \in Tabs, FailP(t)
  PROVE  InInv'
<1> DEFINE u == remembered[BrowserOf[t]]
<1>1. /\ tab[t].next # "rest"
      /\ alone' = alone \ {t}
      /\ UNCHANGED <<tokens, jar>>
      /\ Kept
  BY DEF FailP, Refused, StoreTokenFails, Lost, OnlyTab, Kept, Answers
<1>2. Moves(t)
  BY AnswerMoves, LostMoves DEF FailP
<1>3. ASSUME u # Nobody
      PROVE  Remembers(tab'[t], tokens, u)
  <2>1. Remembers(tab[t], tokens, u) /\ tab[t].path \notin {"logout", "signin"}
    BY <1>1, <1>3, RemembersNow DEF Remembers
  <2>2. CASE Refused(t)
    <3>1. tab[t].path = "signin"
      BY <2>2, ShapesFacts DEF Refused, TabOK, ShapeOK
    <3>2. QED
      BY <2>1, <3>1
  <2>3. CASE StoreTokenFails(t)
    BY <2>1, <2>3, AnswerMoves DEF Remembers
  <2>4. CASE Lost(t)
    BY <2>4, LostMoves, AtError, NothingMentioned DEF Remembers
  <2>5. QED
    BY <2>2, <2>3, <2>4 DEF FailP
<1>4. QED
  BY <1>1, <1>2, <1>3, InRequest

LEMMA InRefreshRefused ==
  ASSUME Shapes, InInv, NEW t \in Tabs, RefreshRefused(t), UNCHANGED promises
  PROVE  InInv'
<1>1. /\ tab[t].next = "verify"
      /\ tab[t].path = "refresh"
      /\ ~Valid(tokens, tab[t].carried)
      /\ alone' = alone
      /\ UNCHANGED <<tokens, jar>>
      /\ Kept
  BY DEF RefreshRefused, OnlyTab, Kept, promises
<1>2. /\ Moves(t)
      /\ t \notin alone
      /\ remembered[BrowserOf[t]] = Nobody
  BY <1>1, AnswerMoves, RemembersNow DEF Remembers, GoodIn, InInv, SignInAlone
<1>3. QED
  BY <1>1, <1>2, InRequest

LEMMA InFollow ==
  ASSUME Shapes, InInv, NEW t \in Tabs, Follow(t), UNCHANGED promises
  PROVE  InInv'
<1> DEFINE u == remembered[BrowserOf[t]]
<1>1. /\ tab[t].next = "send"
      /\ alone' = alone
      /\ UNCHANGED <<tokens, jar>>
      /\ Kept
  BY DEF Follow, OnlyTab, Kept, promises
<1>2. Moves(t) /\ t \notin alone
  BY <1>1, FollowMoves DEF InInv, SignInAlone
<1>3. ASSUME u # Nobody
      PROVE  Remembers(tab'[t], tokens, u)
  BY <1>3, FollowMoves, RemembersNow, NothingMentioned DEF Remembers
<1>4. QED
  BY <1>1, <1>2, <1>3, InRequest

LEMMA InStoreSession ==
  ASSUME Shapes, InInv, NEW t \in Tabs, StoreSession(t), UNCHANGED promises
  PROVE  InInv'
<1> DEFINE b0 == BrowserOf[t]
           u  == remembered[b0]
<1>1. /\ tab[t].next = "session"
      /\ UNCHANGED <<tokens, jar, alone, remembered>>
  BY DEF StoreSession, promises
<1>2. Moves(t)
  BY StoreSessionMoves
<1>3. t \in alone' => SignInAlone(t)'
  <2>1. SUFFICES ASSUME t \in alone
                 PROVE  SignInAlone(t)'
    BY <1>1
  <2>2. SignInAlone(t) /\ tab[t].path = "signin"
    BY <1>1, <2>1 DEF InInv, SignInAlone
  <2>3. tab'[t].next = "redirect" /\ tab'[t].set["refresh"] = tab[t].set["refresh"]
    BY <2>2, StoreSessionMoves
  <2>4. QED
    BY <1>1, <1>2, <2>2, <2>3 DEF SignInAlone, TabsOf, Moves
<1>4. ASSUME u # Nobody
      PROVE  Remembers(tab'[t], tokens', u)
  <2>1. Remembers(tab[t], tokens, u) /\ tab[t].path \notin {"logout", "signin"}
    BY <1>1, <1>4, RemembersNow DEF Remembers
  <2>2. /\ tab'[t].next \in {"token", "land", "redirect", "unsession"}
        /\ tab'[t].path \in {"page", "refresh"}
        /\ tab'[t].set["refresh"] = tab[t].set["refresh"]
        /\ tab'[t].next = "token" => tab[t].path = "refresh" /\ tab'[t].user = tab[t].user
    BY <2>1, StoreSessionMoves
  <2>3. QED
    BY <1>1, <2>1, <2>2 DEF Remembers
<1>5. remembered' \in [Browsers -> Users \cup {Nobody}]
  BY <1>1 DEF InInv
<1>6. QED
  BY <1>1, <1>2, <1>3, <1>4, <1>5, InTab, TokensStay

LEMMA InStoreToken ==
  ASSUME Shapes, InInv, NEW t \in Tabs, StoreToken(t), UNCHANGED promises
  PROVE  InInv'
<1> DEFINE b0 == BrowserOf[t]
           u  == remembered[b0]
           x  == NewToken(b0, "refresh")
<1>1. /\ tab[t].next = "token"
      /\ UNCHANGED <<jar, alone, remembered>>
  BY DEF StoreToken, promises
<1>2. /\ Moves(t)
      /\ tab[t].user \in Users
      /\ x \in Tokens
      /\ x \notin Held("refresh")
      /\ tab'[t].set["refresh"] = x
      /\ tab[t].path \in {"refresh", "signin"}
  BY <1>1, StoreTokenMoves, ShapesFacts DEF TabOK, ShapeOK
<1>3. HeldStay
  BY <1>2, StoreTokenEffect DEF HeldStay
<1>4. GoodIn(tokens', x, tab[t].user)
  BY <1>2, StoreTokenEffect, FreshSession, SessionsAssumption DEF GoodIn, Valid
<1>5. t \in alone' => SignInAlone(t)'
  <2>1. SUFFICES ASSUME t \in alone
                 PROVE  SignInAlone(t)'
    BY <1>1
  <2>2. SignInAlone(t) /\ tab[t].path = "signin"
    BY <1>1, <2>1 DEF InInv, SignInAlone
  <2>3. tab'[t].next = "session" /\ tab'[t].path = "signin"
    BY <2>2, StoreTokenMoves
  <2>4. Valid(tokens', tab'[t].set["refresh"])
    BY <1>2, <1>4 DEF GoodIn
  <2>5. QED
    BY <1>1, <1>2, <2>2, <2>3, <2>4 DEF SignInAlone, TabsOf, Moves
<1>6. ASSUME u # Nobody
      PROVE  Remembers(tab'[t], tokens', u)
  <2>1. tab[t].path = "refresh" /\ tab[t].user = u
    BY <1>1, <1>2, <1>6, RemembersNow DEF Remembers
  <2>2. tab'[t].next = "redirect" /\ tab'[t].path = "page"
    BY <2>1, StoreTokenMoves
  <2>3. QED
    BY <1>2, <1>4, <2>1, <2>2 DEF Remembers
<1>7. remembered' \in [Browsers -> Users \cup {Nobody}]
  BY <1>1 DEF InInv
<1>8. QED
  BY <1>1, <1>2, <1>3, <1>5, <1>6, <1>7, InTab

LEMMA InDeliver ==
  ASSUME Shapes, InInv, NEW t \in Tabs, DeliverP(t)
  PROVE  InInv'
<1> DEFINE b0  == BrowserOf[t]
           got == tab[t].set["refresh"]
<1>1. /\ Deliver(t)
      /\ alone' = alone \ {t}
      /\ tokens' = tokens
      /\ remembered' = [remembered EXCEPT ![b0] =
                          IF t \in alone /\ got \in Tokens THEN tokens[got].user
                                                           ELSE remembered[b0]]
  BY DEF DeliverP, Deliver
<1>2. /\ Moves(t)
      /\ tab[t].next \in {"land", "redirect"}
      /\ tab'[t].next \in {"rest", "send"}
      /\ tab'[t].next = "send" => tab'[t].path \in {"page", "login", "refresh"}
      /\ tab'[t].set["refresh"] = Keep
      /\ \A b \in Browsers \ {b0} : jar'[b] = jar[b]
      /\ jar'[b0]["refresh"] = IF got = Keep THEN jar[b0]["refresh"] ELSE got
      /\ b0 \in Browsers
  BY <1>1, DeliverMoves, NothingMentioned, ShapesFacts DEF Cookies
<1>3. \A u : Remembers(tab'[t], tokens', u)
  BY <1>2 DEF Remembers
<1>4. \A s \in Tabs \ {t} : s \in alone /\ tab[s].next # "untoken" => BrowserOf[s] # b0
  BY <1>2 DEF InInv, SignInAlone, TabsOf
<1>5. /\ \A b \in Browsers \ {b0} : remembered'[b] = remembered[b]
      /\ remembered'[b0] = IF t \in alone /\ got \in Tokens THEN tokens[got].user
                                                            ELSE remembered[b0]
  BY <1>1, <1>2 DEF InInv
<1>6. CASE t \in alone /\ got \in Tokens
  <2>1. SignInAlone(t) /\ Valid(tokens, got) /\ tokens[got].user \in Users
    BY <1>2, <1>6 DEF InInv, SignInAlone, Valid, Shapes, TypeOK, Session
  <2>2. remembered' \in [Browsers -> Users \cup {Nobody}]
    BY <1>1, <2>1 DEF InInv
  <2>3. GoodIn(tokens', jar'[b0]["refresh"], remembered'[b0])
    BY <1>1, <1>2, <1>5, <1>6, <2>1, SessionsAssumption DEF GoodIn
  <2>4. ASSUME NEW s \in TabsOf(b0)
        PROVE  Remembers(tab'[s], tokens', remembered'[b0])
    <3>1. CASE s = t
      BY <1>3, <3>1
    <3>2. CASE s # t
      <4>1. s \in Tabs /\ tab'[s] = tab[s] /\ tab[s].next = "rest"
        BY <1>2, <2>1, <3>2 DEF SignInAlone, TabsOf, Moves
      <4>2. tab[s].set["refresh"] = Keep
        BY <4>1, ShapesFacts, NothingMentioned DEF TabOK, ShapeOK
      <4>3. QED
        BY <4>1, <4>2 DEF Remembers
    <3>3. QED
      BY <3>1, <3>2
  <2>5. ASSUME NEW b \in Browsers, remembered'[b] # Nobody
        PROVE  /\ GoodIn(tokens', jar'[b]["refresh"], remembered'[b])
               /\ \A s \in TabsOf(b) : Remembers(tab'[s], tokens', remembered'[b])
    <3>1. CASE b = b0
      BY <2>3, <2>4, <3>1
    <3>2. CASE b # b0
      BY <1>1, <1>2, <1>5, <2>5, <3>2 DEF InInv, TabsOf, Moves
    <3>3. QED
      BY <3>1, <3>2
  <2>6. ASSUME NEW s \in Tabs, s \in alone', tab'[s].next # "untoken"
        PROVE  SignInAlone(s)'
    <3>1. /\ s # t
          /\ SignInAlone(s)
          /\ BrowserOf[s] \in Browsers \ {b0}
          /\ tab'[s] = tab[s]
      BY <1>1, <1>2, <1>4, <2>6, SessionsAssumption DEF InInv, Moves
    <3>2. QED
      BY <1>1, <1>2, <1>5, <3>1 DEF SignInAlone, TabsOf, Moves
  <2>7. QED
    BY <2>2, <2>5, <2>6 DEF InInv
<1>7. CASE ~(t \in alone /\ got \in Tokens)
  <2>1. remembered' = remembered
    BY <1>1, <1>7 DEF InInv
  <2>2. ASSUME NEW b \in Browsers, remembered[b] # Nobody
        PROVE  /\ GoodIn(tokens, jar'[b]["refresh"], remembered[b])
               /\ \A s \in TabsOf(b) : Remembers(tab'[s], tokens, remembered[b])
    <3>1. /\ GoodIn(tokens, jar[b]["refresh"], remembered[b])
          /\ \A s \in TabsOf(b) : Remembers(tab[s], tokens, remembered[b])
      BY <2>2 DEF InInv
    <3>2. \A s \in TabsOf(b) : Remembers(tab'[s], tokens, remembered[b])
      BY <1>1, <1>2, <1>3, <3>1 DEF TabsOf, Moves
    <3>3. CASE b = b0
      <4>1. got = Keep \/ GoodIn(tokens, got, remembered[b])
        BY <3>1, <3>3 DEF Remembers, TabsOf
      <4>2. QED
        BY <1>2, <3>1, <3>2, <3>3, <4>1
    <3>4. CASE b # b0
      BY <1>2, <3>1, <3>2, <3>4
    <3>5. QED
      BY <3>3, <3>4
  <2>3. ASSUME NEW s \in Tabs, s \in alone', tab'[s].next # "untoken"
        PROVE  SignInAlone(s)'
    <3>1. /\ s # t
          /\ SignInAlone(s)
          /\ BrowserOf[s] \in Browsers \ {b0}
          /\ tab'[s] = tab[s]
      BY <1>1, <1>2, <1>4, <2>3, SessionsAssumption DEF InInv, Moves
    <3>2. QED
      BY <1>1, <1>2, <2>1, <3>1 DEF SignInAlone, TabsOf, Moves
  <2>4. QED
    BY <1>1, <2>1, <2>2, <2>3 DEF InInv
<1>8. QED
  BY <1>6, <1>7

\* A sign-out makes every browser that remembers the user forget.
LEMMA InDeleteTokens ==
  ASSUME Shapes, InInv, NEW t \in Tabs, DeleteTokensP(t)
  PROVE  InInv'
<1> DEFINE v == tab[t].user
<1>1. /\ DeleteTokens(t)
      /\ tab[t].next = "untoken"
      /\ jar' = jar
      /\ alone' = {}
      /\ remembered' = [b \in Browsers |-> IF remembered[b] = v THEN Nobody ELSE remembered[b]]
  BY DEF DeleteTokensP, DeleteTokens
<1>2. tab[t].path = "logout"
  BY <1>1, ShapesFacts DEF TabOK, ShapeOK
<1>3. Moves(t) /\ remembered[BrowserOf[t]] = Nobody
  BY <1>1, <1>2, AnswerMoves, RemembersNow DEF Remembers
<1>4. remembered' \in [Browsers -> Users \cup {Nobody}]
  BY <1>1 DEF InInv
<1>5. ASSUME NEW b \in Browsers, remembered'[b] # Nobody
      PROVE  /\ GoodIn(tokens', jar'[b]["refresh"], remembered'[b])
             /\ \A s \in TabsOf(b) : Remembers(tab'[s], tokens', remembered'[b])
  <2> DEFINE u == remembered[b]
  <2>1. remembered'[b] = u /\ u # v /\ u # Nobody
    BY <1>1, <1>5
  <2>2. /\ GoodIn(tokens, jar[b]["refresh"], u)
        /\ \A s \in TabsOf(b) : s \in Tabs /\ Remembers(tab[s], tokens, u) /\ tab'[s] = tab[s]
    BY <1>3, <2>1 DEF InInv, TabsOf, Moves
  <2>3. \A x \in Tokens : GoodIn(tokens, x, u) => GoodIn(tokens', x, u)
    BY <1>1, <2>1, DeleteTokensEffect DEF GoodIn, Valid
  <2>4. jar[b]["refresh"] \in Tokens \cup {NoToken} /\ "refresh" \in Cookies
    BY DEF Shapes, TypeOK, Cookies
  <2>5. GoodIn(tokens', jar[b]["refresh"], u)
    BY <2>2, <2>3, <2>4 DEF GoodIn, Valid
  <2>6. ASSUME NEW s \in TabsOf(b)
        PROVE  Remembers(tab'[s], tokens', u)
    <3>1. /\ tab[s].set["refresh"] \in Tokens \cup {NoToken, Keep}
          /\ tab[s].carried \in Tokens \cup {NoToken}
          /\ Remembers(tab[s], tokens, u)
          /\ tab'[s] = tab[s]
      BY <2>2, HeldInTokens
    <3>2. tab[s].set["refresh"] = Keep \/ GoodIn(tokens', tab[s].set["refresh"], u)
      BY <2>3, <3>1 DEF Remembers, GoodIn, Valid
    <3>3. tab[s].path = "refresh" /\ tab[s].next = "verify" => GoodIn(tokens', tab[s].carried, u)
      BY <2>3, <3>1 DEF Remembers, GoodIn, Valid
    <3>4. QED
      BY <3>1, <3>2, <3>3 DEF Remembers
  <2>7. QED
    BY <1>1, <2>1, <2>5, <2>6
<1>6. QED
  BY <1>1, <1>4, <1>5 DEF InInv

\* A browser forgets whom it remembers when one of its own tokens expires; that of another
\* browser it does not hold.
LEMMA InTokenAges ==
  ASSUME Shapes, InInv, NEW x \in Tokens, TokenAgesP(x)
  PROVE  InInv'
<1>1. TokenAges(x) /\ UNCHANGED <<tab, jar>>
  BY DEF TokenAgesP, TokenAges
<1>2. \A y \in Tokens \ {x} : tokens'[y] = tokens[y]
  BY <1>1, TokenAgesEffect
<1>3. CASE Valid(tokens', x)
  <2>1. UNCHANGED <<alone, remembered>>
    BY <1>3 DEF TokenAgesP
  <2>2. \A u : \A y \in Tokens \cup {NoToken} : GoodIn(tokens, y, u) => GoodIn(tokens', y, u)
    BY <1>1, <1>3, TokenAgesEffect DEF GoodIn, Valid
  <2>3. ASSUME NEW t \in Tabs, NEW u, Remembers(tab[t], tokens, u)
        PROVE  Remembers(tab[t], tokens', u)
    <3>1. /\ tab[t].set["refresh"] \in Tokens \cup {NoToken, Keep}
          /\ tab[t].carried \in Tokens \cup {NoToken}
      BY HeldInTokens
    <3>2. QED
      BY <2>2, <2>3, <3>1 DEF Remembers
  <2>4. ASSUME NEW t \in Tabs, SignInAlone(t)
        PROVE  SignInAlone(t)'
    <3>1. \A y \in Tokens : Valid(tokens, y) => Valid(tokens', y)
      BY <1>2, <1>3 DEF Valid
    <3>2. QED
      BY <1>1, <2>1, <2>4, <3>1 DEF SignInAlone, TabsOf
  <2>5. \A b \in Browsers : jar[b]["refresh"] \in Tokens \cup {NoToken}
    BY DEF Shapes, TypeOK, Cookies
  <2>6. \A b \in Browsers : remembered[b] # Nobody =>
          /\ GoodIn(tokens', jar[b]["refresh"], remembered[b])
          /\ \A t \in TabsOf(b) : Remembers(tab[t], tokens', remembered[b])
    BY <2>2, <2>3, <2>5 DEF InInv, TabsOf
  <2>7. QED
    BY <1>1, <2>1, <2>4, <2>6 DEF InInv
<1>4. CASE ~Valid(tokens', x)
  <2> DEFINE b0 == x[1]
  <2>1. alone' = alone \ TabsOf(b0) /\ Forget(b0)
    BY <1>4 DEF TokenAgesP
  <2>2. b0 \in Browsers
    BY DEF Tokens
  <2>3. /\ remembered' \in [Browsers -> Users \cup {Nobody}]
        /\ remembered'[b0] = Nobody
        /\ \A c \in Browsers \ {b0} : remembered'[c] = remembered[c]
    BY <2>1, <2>2, ForgetOne
  <2>4. \A u : \A y \in Tokens \cup {NoToken} :
          y # x /\ GoodIn(tokens, y, u) => GoodIn(tokens', y, u)
    BY <1>2 DEF GoodIn, Valid
  <2>5. ASSUME NEW t \in Tabs, BrowserOf[t] # b0
        PROVE  /\ tab[t].set["refresh"] # x
               /\ tab[t].carried # x
               /\ tab[t].set["refresh"] \in Tokens \cup {NoToken, Keep}
               /\ tab[t].carried \in Tokens \cup {NoToken}
    <3>1. /\ BrowserOf[t] \in Browsers
          /\ tab[t].set["refresh"] \in Own(BrowserOf[t]) \cup {NoToken, Keep}
          /\ tab[t].carried \in Own(BrowserOf[t]) \cup {NoToken}
      BY ShapesFacts DEF TabOK, ShapeOK, Cookies
    <3>2. QED
      BY <2>5, <3>1, OwnTokens, HeldInTokens, SessionsAssumption
  <2>6. ASSUME NEW b \in Browsers, b # b0
        PROVE  jar[b]["refresh"] # x /\ jar[b]["refresh"] \in Tokens \cup {NoToken}
    <3>1. jar[b]["refresh"] \in Own(b) \cup {NoToken}
      BY DEF Shapes, Cookies
    <3>2. QED
      BY <2>6, <3>1, OwnTokens, SessionsAssumption
  <2>7. ASSUME NEW t \in Tabs, BrowserOf[t] # b0, NEW u, Remembers(tab[t], tokens, u)
        PROVE  Remembers(tab[t], tokens', u)
    BY <2>4, <2>5, <2>7 DEF Remembers
  <2>8. ASSUME NEW b \in Browsers, remembered'[b] # Nobody
        PROVE  /\ GoodIn(tokens', jar'[b]["refresh"], remembered'[b])
               /\ \A t \in TabsOf(b) : Remembers(tab'[t], tokens', remembered'[b])
    <3>1. b # b0 /\ remembered'[b] = remembered[b]
      BY <2>2, <2>3, <2>8
    <3>2. /\ GoodIn(tokens, jar[b]["refresh"], remembered[b])
          /\ \A t \in TabsOf(b) : Remembers(tab[t], tokens, remembered[b])
      BY <2>8, <3>1 DEF InInv
    <3>3. QED
      BY <1>1, <2>4, <2>6, <2>7, <3>1, <3>2 DEF TabsOf
  <2>9. ASSUME NEW t \in Tabs, t \in alone', tab'[t].next # "untoken"
        PROVE  SignInAlone(t)'
    <3>1. SignInAlone(t) /\ BrowserOf[t] # b0 /\ BrowserOf[t] \in Browsers
      BY <1>1, <2>1, <2>9, SessionsAssumption DEF InInv, TabsOf
    <3>2. tab[t].set["refresh"] \in Tokens => Valid(tokens', tab[t].set["refresh"])
      BY <1>2, <2>5, <3>1 DEF SignInAlone, Valid
    <3>3. QED
      BY <1>1, <2>3, <3>1, <3>2 DEF SignInAlone, TabsOf
  <2>10. QED
    BY <2>3, <2>8, <2>9 DEF InInv
<1>5. QED
  BY <1>3, <1>4

LEMMA InRestart ==
  ASSUME Shapes, InInv, RestartP
  PROVE  InInv'
<1>1. /\ Restart
      /\ UNCHANGED <<tokens, jar, remembered>>
      /\ alone' = {t \in alone : tab'[t].next # "rest"}
      /\ \A t \in Tabs : tab'[t] = IF tab[t].next \in Steps THEN At("error") ELSE tab[t]
  BY RestartEffect DEF RestartP, Restart
<1>2. ASSUME NEW t \in Tabs, NEW u, Remembers(tab[t], tokens, u)
      PROVE  Remembers(tab'[t], tokens, u)
  <2>1. CASE tab[t].next \in Steps
    BY <1>1, <2>1, AtError, NothingMentioned DEF Remembers
  <2>2. CASE tab[t].next \notin Steps
    BY <1>1, <1>2, <2>2
  <2>3. QED
    BY <2>1, <2>2
<1>3. ASSUME NEW t \in Tabs, t \in alone', tab'[t].next # "untoken"
      PROVE  SignInAlone(t)'
  <2>1. tab'[t] = tab[t] /\ SignInAlone(t)
    BY <1>1, <1>3, AtError DEF InInv
  <2>2. \A s \in TabsOf(BrowserOf[t]) \ {t} : tab'[s].next = "rest"
    BY <1>1, <2>1, AtError DEF SignInAlone, TabsOf
  <2>3. QED
    BY <1>1, <2>1, <2>2 DEF SignInAlone, TabsOf
<1>4. QED
  BY <1>1, <1>2, <1>3 DEF InInv, TabsOf

LEMMA InNext ==
  ASSUME Shapes, InInv, [NextP]_varsP
  PROVE  InInv'
<1>1. CASE UNCHANGED <<tokens, jar, tab, promises>>
  BY <1>1 DEF promises, InInv, SignInAlone, TabsOf
<1>2. CASE UNCHANGED varsP
  BY <1>1, <1>2 DEF varsP, vars
<1>3. ASSUME NEW t \in Tabs, NEW path \in Paths, OpenP(t, path)
      PROVE  InInv'
  BY <1>3, InOpen
<1>4. ASSUME NEW t \in Tabs, NEW u \in Users, NEW rememberMe \in BOOLEAN,
             SignInP(t, u, rememberMe)
      PROVE  InInv'
  BY <1>4, InSignIn
<1>5. ASSUME NEW t \in Tabs,
             SignOutP(t) \/ DeliverP(t) \/ RefreshAcceptedP(t) \/ MiddlewareP(t)
               \/ AuthenticatedP(t) \/ DeleteSessionsP(t) \/ DeleteTokensP(t)
               \/ DeleteTokensFailsP(t) \/ RefreshFailedP(t) \/ FailP(t)
      PROVE  InInv'
  BY <1>5, InSignOut, InDeliver, InRefreshAccepted, InMiddleware, InAuthenticated,
     InDeleteSessions, InDeleteTokens, InDeleteTokensFails, InRefreshFailed, InFail
<1>6. ASSUME NEW t \in Tabs, OtherP(t)
      PROVE  InInv'
  BY <1>6, InRefreshRefused, InStoreSession, InStoreToken, InFollow DEF OtherP
<1>7. ASSUME NEW x \in Tokens, TokenAgesP(x)
      PROVE  InInv'
  BY <1>7, InTokenAges
<1>8. ASSUME NEW x \in Tokens, SessionAges(x), UNCHANGED promises
      PROVE  InInv'
  BY <1>1, <1>8 DEF SessionAges
<1>9. CASE RestartP
  BY <1>9, InRestart
<1>10. CASE NextP
  BY <1>3, <1>4, <1>5, <1>6, <1>7, <1>8, <1>9, <1>10 DEF NextP
<1>11. QED
  BY <1>2, <1>10

-----------------------------------------------------------------------------
(* The theorems *)

LEMMA Inductive == SpecP => [](Shapes /\ Recorded /\ OutInv /\ InInv)
<1>1. InitP => Shapes /\ Recorded /\ OutInv /\ InInv
  <2>1. SUFFICES ASSUME InitP
                 PROVE  Shapes /\ Recorded /\ OutInv /\ InInv
    OBVIOUS
  <2>2. Shapes
    BY <2>1, ShapesInit DEF InitP
  <2>3. alone = {} /\ signedOut = {} /\ remembered = [b \in Browsers |-> Nobody]
    BY <2>1 DEF InitP
  <2>4. Recorded /\ OutInv /\ InInv
    BY <2>3 DEF Recorded, OutInv, InInv, SignedOutMeansOut
  <2>5. QED
    BY <2>2, <2>4
<1>2. (Shapes /\ Recorded /\ OutInv /\ InInv) /\ [NextP]_varsP =>
        (Shapes /\ Recorded /\ OutInv /\ InInv)'
  BY Observes, ShapesNext, RecordedNext, OutNext, InNext
<1>3. QED
  BY <1>1, <1>2, PTL DEF SpecP

\* Stores, jars and tabs keep their types, and the observers theirs: in particular a browser
\* is never told to remember somebody for a token that the table does not hold.
THEOREM SessionTypes == SpecP => []TypeOKP
<1>1. Shapes /\ Recorded /\ InInv => TypeOKP
  BY DEF Shapes, Recorded, InInv, TypeOKP
<1>2. QED
  BY <1>1, Inductive, PTL

\* DeleteSessionHandler empties both stores of a user that signs out without company: no
\* session and no refresh token of the user is left, however many browsers, renewals,
\* restarts and expired tokens there have been, and none comes back before the user
\* gives the password again.
THEOREM SignedOutIsOut == SpecP => []SignedOutMeansOut
<1>1. OutInv => SignedOutMeansOut
  BY DEF OutInv
<1>2. QED
  BY <1>1, Inductive, PTL

\* A browser that was told to remember a user holds a good refresh token of that user, and
\* no answer on its way deletes or spoils it: what RefreshHandler, Middleware and
\* CreateSessionHandler set is good whatever the order the answers arrive in.
THEOREM RememberedIsIn == SpecP => []RememberedStaysIn
<1>1. InInv => RememberedStaysIn
  BY DEF InInv, RememberedStaysIn, Remembers, GoodIn
<1>2. QED
  BY <1>1, Inductive, PTL

=============================================================================
