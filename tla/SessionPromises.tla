---------------------------- MODULE SessionPromises ----------------------------
(***************************************************************************)
(* What users may rely on when they sign in to stay and when they sign     *)
(* out, stated with history variables: Sessions is observed, never         *)
(* changed.  Both promises are about a sign-in or a sign-out that meets no *)
(* other request on its way; what happens when two of them overlap the     *)
(* code leaves to chance.                                                  *)
(***************************************************************************)
EXTENDS Sessions

VARIABLES
  alone,       \* tabs whose sign-in or sign-out has met no other request so far
  remembered,  \* who each browser was told to remember
  signedOut    \* users that signed out, and did not sign in again since

promises == <<alone, remembered, signedOut>>

varsP == <<vars, promises>>

TypeOKP ==
  /\ TypeOK
  /\ alone \subseteq Tabs
  /\ remembered \in [Browsers -> Users \cup {Nobody}]
  /\ signedOut \subseteq Users

InitP ==
  /\ Init
  /\ alone = {}
  /\ remembered = [b \in Browsers |-> Nobody]
  /\ signedOut = {}

TabsOf(b) == {t \in Tabs : BrowserOf[t] = b}

\* The other tabs of a browser have no request under way.
Quiet(t) == \A s \in TabsOf(BrowserOf[t]) \ {t} : tab[s].next = "rest"

\* The requests, other than t's, that are about to store something for u.
Serving(t, u) == {s \in Tabs \ {t} : tab[s].user = u /\ tab[s].next \in {"session", "token"}}

Forget(b) == remembered' = [remembered EXCEPT ![b] = Nobody]

-----------------------------------------------------------------------------
(* Every action, observed. *)

\* A new request of a browser is company for the others.
OpenP(t, path) ==
  /\ Open(t, path)
  /\ alone' = alone \ TabsOf(BrowserOf[t])
  /\ UNCHANGED <<remembered, signedOut>>

SignInP(t, u, rememberMe) ==
  /\ SignIn(t, u, rememberMe)
  /\ alone' = (alone \ TabsOf(BrowserOf[t])) \cup (IF Quiet(t) THEN {t} ELSE {})
  /\ Forget(BrowserOf[t])
  /\ UNCHANGED signedOut

SignOutP(t) ==
  /\ SignOut(t)
  /\ alone' = alone \ TabsOf(BrowserOf[t])
  /\ Forget(BrowserOf[t])
  /\ UNCHANGED signedOut

\* The browser is told whom to remember by the answer to a sign-in.
DeliverP(t) ==
  /\ Deliver(t)
  /\ alone' = alone \ {t}
  /\ remembered' = [remembered EXCEPT ![BrowserOf[t]] =
                      IF t \in alone /\ tab[t].set["refresh"] \in Tokens
                        THEN tokens[tab[t].set["refresh"]].user
                        ELSE @]
  /\ UNCHANGED signedOut

\* From here on somebody is served as u again.
Served(t, u) ==
  alone' = alone \ {s \in Tabs \ {t} : tab[s].next = "untoken" /\ tab[s].user = u}

RefreshAcceptedP(t) ==
  /\ RefreshAccepted(t)
  /\ Served(t, tab'[t].user)
  /\ UNCHANGED <<remembered, signedOut>>

MiddlewareP(t) ==
  /\ Middleware(t)
  /\ Served(t, tab'[t].user)
  /\ UNCHANGED <<remembered, signedOut>>

AuthenticatedP(t) ==
  /\ Authenticated(t)
  /\ Served(t, tab[t].user)
  /\ signedOut' = signedOut \ {tab[t].user}
  /\ UNCHANGED remembered

DeleteSessionsP(t) ==
  /\ DeleteSessions(t)
  /\ alone' = IF Serving(t, tab[t].user) = {} THEN alone \cup {t} ELSE alone \ {t}
  /\ UNCHANGED <<remembered, signedOut>>

DeleteTokensP(t) ==
  /\ DeleteTokens(t)
  /\ alone' = {}
  /\ remembered' = [b \in Browsers |-> IF remembered[b] = tab[t].user THEN Nobody
                                                                     ELSE remembered[b]]
  /\ signedOut' = IF t \in alone THEN signedOut \cup {tab[t].user} ELSE signedOut

DeleteTokensFailsP(t) ==
  /\ DeleteTokensFails(t)
  /\ alone' = alone \ {t}
  /\ UNCHANGED <<remembered, signedOut>>

\* A token of browser x[1] expires.
TokenAgesP(x) ==
  /\ TokenAges(x)
  /\ IF Valid(tokens', x)
       THEN UNCHANGED <<alone, remembered>>
       ELSE alone' = alone \ TabsOf(x[1]) /\ Forget(x[1])
  /\ UNCHANGED signedOut

\* The database does not answer: the browser is sent to the login page.
RefreshFailedP(t) ==
  /\ RefreshFailed(t)
  /\ alone' = alone \ {t}
  /\ Forget(BrowserOf[t])
  /\ UNCHANGED signedOut

\* Sign-ins that end without a token to remember, and requests that are lost.
FailP(t) ==
  /\ Refused(t) \/ StoreTokenFails(t) \/ Lost(t)
  /\ alone' = alone \ {t}
  /\ UNCHANGED <<remembered, signedOut>>

RestartP ==
  /\ Restart
  /\ alone' = {t \in alone : tab'[t].next # "rest"}
  /\ UNCHANGED <<remembered, signedOut>>

OtherP(t) ==
  /\ RefreshRefused(t) \/ StoreSession(t) \/ StoreToken(t) \/ Follow(t)
  /\ UNCHANGED promises

NextP ==
  \/ \E t \in Tabs :
       \/ \E path \in Paths : OpenP(t, path)
       \/ \E u \in Users, rememberMe \in BOOLEAN : SignInP(t, u, rememberMe)
       \/ SignOutP(t)
       \/ DeliverP(t)
       \/ RefreshAcceptedP(t)
       \/ MiddlewareP(t)
       \/ AuthenticatedP(t)
       \/ DeleteSessionsP(t)
       \/ DeleteTokensP(t)
       \/ DeleteTokensFailsP(t)
       \/ RefreshFailedP(t)
       \/ FailP(t)
       \/ OtherP(t)
  \/ \E x \in Tokens : TokenAgesP(x)
  \/ (\E x \in Tokens : SessionAges(x)) /\ UNCHANGED promises
  \/ RestartP

SpecP == InitP /\ [][NextP]_varsP /\ \A t \in Tabs : WF_vars(Step(t))

-----------------------------------------------------------------------------
(* The promises *)

\* A browser that was told to remember u can go on as u, whatever it opens in its tabs and
\* in which order the answers arrive, across restarts, lost answers and failed renewals:
\* the refresh token in its jar is good and u's, and no answer on its way takes it away or
\* puts a bad one in its place.  Only a sign-in or sign-out there, a sign-out of u
\* elsewhere, the end of a token's life or a failing query of RefreshHandler ends that.
RememberedStaysIn ==
  LET GoodFor(x, u) == Valid(tokens, x) /\ tokens[x].user = u
  IN  \A b \in Browsers : remembered[b] # Nobody =>
        /\ GoodFor(jar[b]["refresh"], remembered[b])
        /\ \A t \in TabsOf(b) :
             tab[t].set["refresh"] = Keep \/ GoodFor(tab[t].set["refresh"], remembered[b])

\* Once u has signed out, in whichever browser, no cookie anywhere is good for u until u
\* gives the password again: both stores have forgotten every token of u, those that
\* renewals left behind included.
SignedOutMeansOut ==
  \A x \in Tokens, store \in {sessions, tokens} :
    store[x] # NoEntry => store[x].user \notin signedOut

=============================================================================
