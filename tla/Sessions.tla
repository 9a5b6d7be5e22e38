------------------------------- MODULE Sessions -------------------------------
(***************************************************************************)
(* Sign-in, sessions and sign-out: pkg/auth/auth.go with its two stores,   *)
(* the sessions in memory (pkg/auth/inMemoryTokenStore.go) and the refresh *)
(* tokens in the database (internal/core/auth.go), wired as                *)
(* internal/core/run.go wires them.                                        *)
(*                                                                         *)
(* A browser keeps one jar of cookies, its tabs share it.  A tab sends a   *)
(* request with what the jar holds at that moment; the handler runs a step *)
(* per access to a store; the answer carries the cookies to be set and a   *)
(* page to show or an address to go to next.  The lifetime of a token is   *)
(* its age: "closing" is within RefreshMargin of the end.                  *)
(***************************************************************************)
EXTENDS Integers, FiniteSets

CONSTANTS Browsers,
          Tabs,
          BrowserOf,    \* the browser each tab belongs to
          Users,
          Draws,        \* bound: what sid.NewString may draw for the requests of a browser
          MaxTrouble,   \* bound: how often a token ages, a statement fails, ...
          Nobody,       \* "there is no session"
          NoToken,      \* "there is no cookie"; in an answer, the cookie is deleted
          Keep,         \* the answer does not mention the cookie
          NoEntry       \* "there is no row"

\* A token is random and long: no two draws ever give the same one.
Tokens  == Browsers \X Draws

Ages    == {"fresh", "closing", "expired"}
Session == [user : Users, age : Ages]
Cookies == {"session", "refresh"}

\* "page" stands for the pages behind Middleware(false, _), "error" for an answer that
\* is none: a 500, a connection that broke.
Paths == {"page", "login", "signin", "logout", "refresh", "error"}

\* Where a tab and its request stand: at rest, the handler's next step, or the answer.
Steps   == {"authenticate", "verify", "session", "token", "unsession", "untoken"}
Answers == {"land", "redirect"}

Tab == [next    : {"rest", "send"} \cup Steps \cup Answers,
        path    : Paths,
        user    : Users \cup {Nobody},
        long    : BOOLEAN,                      \* a refresh token is to be stored
        carried : Tokens \cup {NoToken},        \* the cookie the handler looks at
        set     : [Cookies -> Tokens \cup {NoToken, Keep}]]

ASSUME SessionsAssumption ==
  /\ BrowserOf \in [Tabs -> Browsers]
  /\ MaxTrouble \in Nat
  /\ Nobody \notin Users
  /\ NoToken \notin Tokens
  /\ Keep \notin Tokens \cup {NoToken}
  /\ NoEntry \notin Session

VARIABLES
  sessions,      \* InMemorySessionStore.sessions
  userSessions,  \* InMemorySessionStore.userSessions
  tokens,        \* table token
  jar,           \* the cookies of each browser
  tab,
  trouble        \* ageings, failures and restarts so far

vars == <<sessions, userSessions, tokens, jar, tab, trouble>>

TypeOK ==
  /\ sessions \in [Tokens -> Session \cup {NoEntry}]
  /\ userSessions \in [Users -> SUBSET Tokens]
  /\ tokens \in [Tokens -> Session \cup {NoEntry}]
  /\ jar \in [Browsers -> [Cookies -> Tokens \cup {NoToken}]]
  /\ tab \in [Tabs -> Tab]
  /\ trouble \in 0 .. MaxTrouble

Unmentioned == [c \in Cookies |-> Keep]
Deleted     == [c \in Cookies |-> NoToken]

At(path) == [next |-> "rest", path |-> path, user |-> Nobody, long |-> FALSE,
             carried |-> NoToken, set |-> Unmentioned]

Init ==
  /\ sessions = [x \in Tokens |-> NoEntry]
  /\ userSessions = [u \in Users |-> {}]
  /\ tokens = [x \in Tokens |-> NoEntry]
  /\ jar = [b \in Browsers |-> Deleted]
  /\ tab = [t \in Tabs |-> At("error")]
  /\ trouble = 0

-----------------------------------------------------------------------------
(* Tokens *)

Cookie(path) == IF path = "refresh" THEN "refresh" ELSE "session"

\* The tokens of a kind that are in a jar, or travel with a request or an answer.
Held(c) ==
  {jar[b][c] : b \in Browsers}
    \cup {tab[t].carried : t \in {t \in Tabs : Cookie(tab[t].path) = c}}
    \cup {tab[t].set[c] : t \in Tabs}

\* A new token is one nobody holds: that it was somebody's once, and may still be in a
\* store, cannot be noticed any more.
Unheld(b, c)   == ({b} \X Draws) \ Held(c)
NewToken(b, c) == CHOOSE x \in Unheld(b, c) : TRUE

Valid(store, x) == x # NoToken /\ store[x] # NoEntry /\ store[x].age # "expired"

Fresh(u) == [user |-> u, age |-> "fresh"]

Without(store, gone) == [x \in Tokens |-> IF x \in gone THEN NoEntry ELSE store[x]]

\* Something the program has to live with happens: bounded.
Trouble == trouble < MaxTrouble /\ trouble' = trouble + 1

-----------------------------------------------------------------------------
(* The browser *)

\* The request a tab of browser b makes for a path.
RequestOf(b, path) ==
  [At(path) EXCEPT !.next    = IF path = "signin" THEN "authenticate" ELSE "verify",
                   !.carried = IF path = "signin" THEN NoToken ELSE jar[b][Cookie(path)]]

OnlyTab(t, r) ==
  /\ tab' = [tab EXCEPT ![t] = r]
  /\ UNCHANGED <<sessions, userSessions, tokens, jar, trouble>>

\* Follow a link or type an address.
Open(t, path) ==
  /\ tab[t].next = "rest"
  /\ path \in {"page", "login"}
  /\ OnlyTab(t, RequestOf(BrowserOf[t], path))

\* Send the form of the login page, as u and with the box ticked or not.
SignIn(t, u, rememberMe) ==
  /\ tab[t] = At("login")
  /\ OnlyTab(t, [RequestOf(BrowserOf[t], "signin") EXCEPT !.user = u, !.long = rememberMe])

SignOut(t) ==
  /\ tab[t] = At("page")
  /\ OnlyTab(t, RequestOf(BrowserOf[t], "logout"))

\* The answer arrives: its cookies go into the jar.
Deliver(t) ==
  /\ tab[t].next \in Answers
  /\ jar' = [jar EXCEPT ![BrowserOf[t]] =
                [c \in Cookies |-> IF tab[t].set[c] = Keep THEN @[c] ELSE tab[t].set[c]]]
  /\ tab' = [tab EXCEPT ![t] = IF @.next = "land"
                                 THEN At(@.path)
                                 ELSE [At(@.path) EXCEPT !.next = "send"]]
  /\ UNCHANGED <<sessions, userSessions, tokens, trouble>>

\* The browser goes where the answer sent it, with the cookies it has by then.
Follow(t) ==
  /\ tab[t].next = "send"
  /\ OnlyTab(t, RequestOf(BrowserOf[t], tab[t].path))

\* The answer is lost on its way, and the cookies with it.
Lost(t) ==
  /\ tab[t].next \in Answers
  /\ Trouble
  /\ tab' = [tab EXCEPT ![t] = At("error")]
  /\ UNCHANGED <<sessions, userSessions, tokens, jar>>

-----------------------------------------------------------------------------
(* The handlers *)

\* The answers.
Page(path, set)     == [At(path) EXCEPT !.next = "land", !.set = set]
Redirect(path, set) == [At(path) EXCEPT !.next = "redirect", !.set = set]

\* What the handler behind Middleware does for a request with a session.  The login page
\* sends the user on, with or without a redirect parameter.
Authorized(r) ==
  CASE r.path = "page"   -> Page("page", r.set)
    [] r.path = "login"  -> Redirect("page", r.set)
    [] r.path = "logout" -> [r EXCEPT !.next = "unsession", !.set = Deleted]

\* Mutant: the login page behind the middleware of the other pages.
UnauthorizedAlike(r) ==
  IF r.path = "logout" THEN Redirect("login", Deleted) ELSE Redirect("refresh", r.set)

\* And for one without: the pages behind Middleware(false, _) try to refresh.
Unauthorized(r) ==
  CASE r.path = "page"   -> Redirect("refresh", r.set)
    [] r.path = "login"  -> Page("login", r.set)
    [] r.path = "logout" -> Redirect("login", Deleted)

\* Middleware looks up the session, and renews it when it is about to end.
Middleware(t) ==
  LET r == tab[t] IN
  /\ r.next = "verify"
  /\ r.path # "refresh"
  /\ OnlyTab(t, IF ~Valid(sessions, r.carried)
                  THEN Unauthorized(r)
                  ELSE LET known == [r EXCEPT !.user = sessions[r.carried].user,
                                             !.carried = NoToken] IN
                       IF sessions[r.carried].age = "closing"
                         THEN [known EXCEPT !.next = "session"]
                         ELSE Authorized(known))

\* RefreshHandler looks up the refresh token.  Refused for whatever reason, it has the
\* browser forget both cookies.
RefreshRefused(t) ==
  /\ tab[t].next = "verify"
  /\ tab[t].path = "refresh"
  /\ ~Valid(tokens, tab[t].carried)
  /\ OnlyTab(t, Redirect("login", Deleted))

RefreshFailed(t) ==
  /\ tab[t].next = "verify"
  /\ tab[t].path = "refresh"
  /\ tab[t].carried # NoToken
  /\ Trouble
  /\ tab' = [tab EXCEPT ![t] = Redirect("login", Deleted)]
  /\ UNCHANGED <<sessions, userSessions, tokens, jar>>

\* Mutant: the user of the refresh token is not passed on.
RefreshAcceptedUnnamed(t) ==
  LET r == tab[t] IN
  /\ r.next = "verify"
  /\ r.path = "refresh"
  /\ Valid(tokens, r.carried)
  /\ OnlyTab(t, [r EXCEPT !.next = "session",
                          !.carried = NoToken,
                          !.long = tokens[r.carried].age = "closing"])

\* Mutant: a refresh token is used up, and replaced, whenever it is used.
RefreshAcceptedOnce(t) ==
  LET r == tab[t] IN
  /\ r.next = "verify"
  /\ r.path = "refresh"
  /\ Valid(tokens, r.carried)
  /\ tokens' = Without(tokens, {r.carried})
  /\ tab' = [tab EXCEPT ![t] = [r EXCEPT !.next = "session",
                                         !.user = tokens[r.carried].user,
                                         !.carried = NoToken,
                                         !.long = TRUE]]
  /\ UNCHANGED <<sessions, userSessions, jar, trouble>>

RefreshAccepted(t) ==
  LET r == tab[t] IN
  /\ r.next = "verify"
  /\ r.path = "refresh"
  /\ Valid(tokens, r.carried)
  /\ OnlyTab(t, [r EXCEPT !.next = "session",
                          !.user = tokens[r.carried].user,
                          !.carried = NoToken,
                          !.long = tokens[r.carried].age = "closing"])

\* CreateSessionHandler asks the provider, which may say no: a wrong name or password, a
\* failed query.
Refused(t) ==
  /\ tab[t].next = "authenticate"
  /\ OnlyTab(t, Redirect("login", Unmentioned))

Authenticated(t) ==
  LET r == tab[t] IN
  /\ r.next = "authenticate"
  /\ OnlyTab(t, IF r.long
                  THEN [r EXCEPT !.next = "token"]
                  ELSE [r EXCEPT !.next = "session", !.set = [@ EXCEPT !["refresh"] = NoToken]])

\* What follows once the session is stored: RefreshHandler renews its own token next,
\* CreateSessionHandler has done that before.
SessionStored(r) ==
  CASE r.path = "refresh" /\ r.long -> [r EXCEPT !.next = "token"]
    [] r.path = "refresh" /\ ~r.long -> Redirect("page", r.set)
    [] r.path = "signin" -> Redirect("page", r.set)
    [] OTHER -> Authorized(r)

\* Mutant: a renewed session is not entered under its user.
StoreSessionUnlisted(t) ==
  LET r == tab[t]
      x == NewToken(BrowserOf[t], "session") IN
  /\ r.next = "session"
  /\ Unheld(BrowserOf[t], "session") # {}
  /\ sessions' = [sessions EXCEPT ![x] = Fresh(r.user)]
  /\ userSessions' = [u \in Users |-> IF u = r.user /\ userSessions[u] = {}
                                        THEN {x}
                                        ELSE userSessions[u] \ {x}]
  /\ tab' = [tab EXCEPT ![t] = SessionStored([r EXCEPT !.set["session"] = x])]
  /\ UNCHANGED <<tokens, jar, trouble>>

\* Mutant: a user has one session at a time, the new one ends the others.
StoreSessionInstead(t) ==
  LET r == tab[t]
      x == NewToken(BrowserOf[t], "session") IN
  /\ r.next = "session"
  /\ Unheld(BrowserOf[t], "session") # {}
  /\ sessions' = [Without(sessions, userSessions[r.user]) EXCEPT ![x] = Fresh(r.user)]
  /\ userSessions' = [u \in Users |-> IF u = r.user THEN {x} ELSE userSessions[u] \ {x}]
  /\ tab' = [tab EXCEPT ![t] = SessionStored([r EXCEPT !.set["session"] = x])]
  /\ UNCHANGED <<tokens, jar, trouble>>

\* generateStoreAndSetSessionCookie of the session cookie.
StoreSession(t) ==
  LET r == tab[t]
      x == NewToken(BrowserOf[t], "session") IN
  /\ r.next = "session"
  /\ Unheld(BrowserOf[t], "session") # {}
  /\ sessions' = [sessions EXCEPT ![x] = Fresh(r.user)]
  /\ userSessions' = [u \in Users |-> IF u = r.user
                                        THEN userSessions[u] \cup {x}
                                        ELSE userSessions[u] \ {x}]
  /\ tab' = [tab EXCEPT ![t] = SessionStored([r EXCEPT !.set["session"] = x])]
  /\ UNCHANGED <<tokens, jar, trouble>>

\* And what follows once the refresh token is stored.
TokenStored(r) ==
  IF r.path = "signin" THEN [r EXCEPT !.next = "session"] ELSE Redirect("page", r.set)

\* Mutant: a new refresh token takes the place of the old ones.
StoreTokenInstead(t) ==
  LET r == tab[t]
      x == NewToken(BrowserOf[t], "refresh") IN
  /\ r.next = "token"
  /\ Unheld(BrowserOf[t], "refresh") # {}
  /\ tokens' = [Without(tokens, {y \in Tokens : tokens[y] # NoEntry /\ tokens[y].user = r.user})
                 EXCEPT ![x] = Fresh(r.user)]
  /\ tab' = [tab EXCEPT ![t] = TokenStored([r EXCEPT !.set["refresh"] = x])]
  /\ UNCHANGED <<sessions, userSessions, jar, trouble>>

\* generateStoreAndSetSessionCookie of the refresh cookie.
StoreToken(t) ==
  LET r == tab[t]
      x == NewToken(BrowserOf[t], "refresh") IN
  /\ r.next = "token"
  /\ Unheld(BrowserOf[t], "refresh") # {}
  /\ tokens' = [tokens EXCEPT ![x] = Fresh(r.user)]
  /\ tab' = [tab EXCEPT ![t] = TokenStored([r EXCEPT !.set["refresh"] = x])]
  /\ UNCHANGED <<sessions, userSessions, jar, trouble>>

\* It fails: RefreshHandler only logs that, CreateSessionHandler gives up.
StoreTokenFails(t) ==
  LET r == tab[t] IN
  /\ r.next = "token"
  /\ Trouble
  /\ tab' = [tab EXCEPT ![t] = IF r.path = "signin" THEN Page("error", Unmentioned)
                                                    ELSE Redirect("page", r.set)]
  /\ UNCHANGED <<sessions, userSessions, tokens, jar>>

\* DeleteSessionHandler empties the stores one after the other.
DeleteSessions(t) ==
  LET r == tab[t] IN
  /\ r.next = "unsession"
  /\ sessions' = Without(sessions, userSessions[r.user])
  /\ userSessions' = [userSessions EXCEPT ![r.user] = {}]
  /\ tab' = [tab EXCEPT ![t].next = "untoken"]
  /\ UNCHANGED <<tokens, jar, trouble>>

\* Mutant: one row is deleted, not all of the user's.
OneTokenOf(u) ==
  LET all == {x \in Tokens : tokens[x] # NoEntry /\ tokens[x].user = u}
  IN  IF all = {} THEN {} ELSE {CHOOSE x \in all : TRUE}

\* deleteTokensByUserId.
TokensOf(u) == {x \in Tokens : tokens[x] # NoEntry /\ tokens[x].user = u}

DeleteTokens(t) ==
  LET r == tab[t] IN
  /\ r.next = "untoken"
  /\ tokens' = Without(tokens, TokensOf(r.user))
  /\ tab' = [tab EXCEPT ![t] = Redirect("login", r.set)]
  /\ UNCHANGED <<sessions, userSessions, jar, trouble>>

\* Nobody looks at the error.
DeleteTokensFails(t) ==
  LET r == tab[t] IN
  /\ r.next = "untoken"
  /\ Trouble
  /\ tab' = [tab EXCEPT ![t] = Redirect("login", r.set)]
  /\ UNCHANGED <<sessions, userSessions, tokens, jar>>

-----------------------------------------------------------------------------
(* Time and restarts *)

Later(age) == {"closing", "expired"} \ {age}

\* Time passes, for a token somebody holds: minutes or a month.
SessionAges(x) ==
  /\ x \in Held("session")
  /\ sessions[x] # NoEntry
  /\ sessions[x].age # "expired"
  /\ Trouble
  /\ \E age \in Later(sessions[x].age) : sessions' = [sessions EXCEPT ![x].age = age]
  /\ UNCHANGED <<userSessions, tokens, jar, tab>>

TokenAges(x) ==
  /\ x \in Held("refresh")
  /\ tokens[x] # NoEntry
  /\ tokens[x].age # "expired"
  /\ Trouble
  /\ \E age \in Later(tokens[x].age) : tokens' = [tokens EXCEPT ![x].age = age]
  /\ UNCHANGED <<sessions, userSessions, jar, tab>>

\* The process is restarted: the sessions are gone, and the requests it was working on.
Restart ==
  /\ Trouble
  /\ sessions' = [x \in Tokens |-> NoEntry]
  /\ userSessions' = [u \in Users |-> {}]
  /\ tab' = [t \in Tabs |-> IF tab[t].next \in Steps THEN At("error") ELSE tab[t]]
  /\ UNCHANGED <<tokens, jar>>

-----------------------------------------------------------------------------

\* What a tab's request does next, unless something fails.
Step(t) ==
  \/ Middleware(t)
  \/ RefreshRefused(t)
  \/ RefreshAccepted(t)
  \/ Refused(t)
  \/ Authenticated(t)
  \/ StoreSession(t)
  \/ StoreToken(t)
  \/ DeleteSessions(t)
  \/ DeleteTokens(t)
  \/ Deliver(t)
  \/ Follow(t)

Next ==
  \/ \E t \in Tabs :
       \/ Step(t)
       \/ \E path \in Paths : Open(t, path)
       \/ \E u \in Users, rememberMe \in BOOLEAN : SignIn(t, u, rememberMe)
       \/ SignOut(t)
       \/ Lost(t)
       \/ RefreshFailed(t)
       \/ StoreTokenFails(t)
       \/ DeleteTokensFails(t)
  \/ \E x \in Tokens : SessionAges(x) \/ TokenAges(x)
  \/ Restart

\* Requests are served and answers arrive; what users do is up to them.
Spec == Init /\ [][Next]_vars /\ \A t \in Tabs : WF_vars(Step(t))

-----------------------------------------------------------------------------
(* What it promises *)

\* Wherever the middleware, the refresh handler and the login page send a browser, it gets
\* to see a page in the end: no combination of missing, expired and revoked cookies has it
\* go round in circles.
EveryNavigationLands == \A t \in Tabs : tab[t].next # "rest" ~> tab[t].next = "rest"

\* Why it does: how many steps a tab may be from its page.  The handler of a path needs so
\* many, going where it sends the browser included, with a session that is good or is not.
StepsFor(path, good) ==
  CASE path = "page"                -> IF good THEN 3 ELSE 11
    [] path = "login"               -> IF good THEN 14 ELSE 2
    [] path \in {"refresh", "logout"} -> 8
    [] OTHER                        -> 0

\* Whether the tab's next request will have a good session.
WillBeKnown(t) ==
  Valid(sessions, IF tab[t].set["session"] = Keep THEN jar[BrowserOf[t]]["session"]
                                                  ELSE tab[t].set["session"])

\* A request and its answer, known being whether the next request will have a good session,
\* and checked whether this one has.
StepsLeft(r, known, checked) ==
  CASE r.next = "rest"         -> 0
    [] r.next = "land"         -> 1
    [] r.next = "redirect"     -> 2 + StepsFor(r.path, known)
    [] r.next = "send"         -> 1 + StepsFor(r.path, known)
    [] r.next = "authenticate" -> 17
    [] r.next = "verify"       -> StepsFor(r.path, checked)
    [] r.next = "session"      -> IF r.path = "page" THEN 2
                                  ELSE IF r.path \in {"login", "signin"} THEN 6 ELSE 7
    [] r.next = "token"        -> IF r.path = "signin" THEN 7 ELSE 3 + StepsFor("page", known)
    [] r.next = "unsession"    -> 6
    [] r.next = "untoken"      -> 5

StepsToPage(t) == StepsLeft(tab[t], WillBeKnown(t), Valid(sessions, tab[t].carried))

\* Every step of a tab's request, a redirect from handler to handler included, brings the
\* tab nearer to its page, whatever the other tabs and browsers did since the step before.
EveryStepNearer == [][\A t \in Tabs : Step(t) => StepsToPage(t)' < StepsToPage(t)]_vars

\* And nothing sets a tab back but the user opening something in it, time, failures and
\* restarts, a sign-out, and the answer to another tab of the same browser: a request that
\* meets none of them gets to its page.
SetBackOnlyBy ==
  [][\A t \in Tabs : StepsToPage(t)' > StepsToPage(t) =>
       \/ tab[t].next = "rest"
       \/ trouble' # trouble
       \/ \E s \in Tabs \ {t} :
            DeleteSessions(s) \/ (Deliver(s) /\ BrowserOf[s] = BrowserOf[t])]_vars

=============================================================================
