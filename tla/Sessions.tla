------------------------------ MODULE Sessions ------------------------------
(***************************************************************************)
(* Login, sessions and user tokens: the routes of auth.go, the middlewares *)
(* of database.go and authenticatedGiteaClient (main.go:401-444).          *)
(*                                                                         *)
(* A browser's cookie is a signed session id, kept by the browser alone;   *)
(* sessions are in memory, users and their tokens in a bucket.  The tabs   *)
(* of a browser share its cookie, and every tab has at most one request in *)
(* hand; between two calls of its handler others run.  A handler reads     *)
(* session and user one right after the other, which is one step here.     *)
(*                                                                         *)
(* Gitea is external.  A token has an access part that expires and a       *)
(* refresh part; what lines 422-431 of main.go store the new token for is  *)
(* a server that retires all earlier refresh parts of a user when it       *)
(* issues a token, and such a server is assumed.                           *)
(***************************************************************************)
EXTENDS Naturals, FiniteSets

CONSTANTS Tabs, Browsers,             \* where readers are
          Placements,                 \* in which browser a tab may be
          Accounts, Nobody,           \* users of Gitea, and none of them
          MaxTrouble                  \* bound: see the variable trouble

ASSUME SessionsAssumption ==
  /\ Placements \subseteq [Tabs -> Browsers]
  /\ Nobody \notin Accounts
  /\ MaxTrouble \in Nat

VARIABLES
  BrowserOf, \* the browser of a tab; it does not change
  tab,       \* each tab, or the handler of its request: how far it has come,
             \* the account it works for, the token it holds, the session id of
             \* a login, and whether the answer of /login sets the cookie
  cookie,    \* the session id in each browser's cookie, or 0
  sessions,  \* db.UserSessions(): a function from the stored ids
  users,     \* db.Users(): the token stored for each account, or 0
  made,      \* ulid.Make: the last session id
  issued,    \* Gitea: the number of the last token
  valid,     \* Gitea: the token of each account that can be refreshed, or 0
  expired,   \* tokens whose access part has expired
  revoked,   \* Gitea: tokens whose grant is gone
  approved,  \* history: who approved a login in a browser since its logout
  why,       \* history: what happened to the tokens of an account since
             \* the stored one was last known to be the valid one
  trouble    \* bound: failures, restarts, expiries, logouts so far

gitea == <<issued, valid, expired, revoked>>
server == <<BrowserOf, cookie, sessions, users, made, gitea, approved, why>>
vars == <<tab, server, trouble>>

InServer == {"loaded", "refreshed", "ready", "asked", "called", "exchanged", "entered"}
Places == InServer \cup {"start", "page", "loginPage", "sentBack", "atGitea"}
Reasons == {"revoked", "lost", "raced"}

TabStates == [at : Places, who : Accounts \cup {Nobody}, token : Nat, id : Nat,
              setsCookie : BOOLEAN]

(* A tab that shows a page, and whose request is over.                     *)
Showing(place) == [at |-> place, who |-> Nobody, token |-> 0, id |-> 0, setsCookie |-> FALSE]

Init ==
  /\ BrowserOf \in Placements
  /\ tab = [t \in Tabs |-> Showing("start")]
  /\ cookie = [b \in Browsers |-> 0]
  /\ sessions = [i \in {} |-> Nobody]
  /\ users = [a \in Accounts |-> 0]
  /\ made = 0 /\ issued = 0
  /\ valid = [a \in Accounts |-> 0]
  /\ expired = {} /\ revoked = {}
  /\ approved = [b \in Browsers |-> {}]
  /\ why = [a \in Accounts |-> {}]
  /\ trouble = 0

At(t) == tab[t].at
Token(t) == tab[t].token
Goto(t, place) == tab' = [tab EXCEPT ![t].at = place]
Answer(t, place) == tab' = [tab EXCEPT ![t] = Showing(place)]
Trouble == trouble < MaxTrouble /\ trouble' = trouble + 1

(* The user a request is made by: UserSessionFromToken, then               *)
(* UserFromUserSession.  A session without a stored user is nobody's.      *)
SessionOf(t) == LET c == cookie[BrowserOf[t]]
                IN  IF c \in DOMAIN sessions THEN sessions[c] ELSE Nobody
UserOfSession(t) == SessionOf(t)  \* variant: an empty user is not noticed
UserOf(t) == IF SessionOf(t) \in Accounts /\ users[SessionOf(t)] # 0
               THEN SessionOf(t) ELSE Nobody

(* The handlers that hold a token of an account which is not stored yet.   *)
Holders(a) ==
  {t \in Tabs : At(t) \in {"refreshed", "exchanged", "entered"} /\ tab[t].who = a}

(* Gitea issues a token to an account, while others may hold one unstored. *)
Issue(a, news) ==
  /\ issued' = issued + 1
  /\ valid' = [valid EXCEPT ![a] = issued + 1]
  /\ why' = [why EXCEPT ![a] =
               @ \cup news \cup (IF Holders(a) = {} THEN {} ELSE {"raced"})]
  /\ UNCHANGED <<expired, revoked>>

(* A token handler t holds is stored: the books are clean again if it is   *)
(* the valid one and nobody holds another.                                 *)
Store(t) ==
  LET a == tab[t].who
  IN  /\ users' = [users EXCEPT ![a] = Token(t)]
      /\ why' = [why EXCEPT ![a] =
                   IF Token(t) = valid[a] /\ Holders(a) = {t} THEN {} ELSE @]

-----------------------------------------------------------------------------
(* A request for a page: the middlewares up to line 409 of main.go.        *)
OpenPage(t) ==
  /\ At(t) \in {"start", "page", "sentBack"}
  /\ IF UserOf(t) = Nobody
       THEN Answer(t, "loginPage")
       ELSE tab' = [tab EXCEPT ![t] = [Showing("loaded") EXCEPT
                                         !.who = UserOf(t), !.token = users[UserOf(t)]]]
  /\ UNCHANGED <<server, trouble>>

(* TokenSource(...).Token(): the token has not expired, and is returned.   *)
TokenFresh(t) ==
  /\ At(t) = "loaded"
  /\ Token(t) \notin expired
  /\ Goto(t, "ready")
  /\ UNCHANGED <<server, trouble>>

(* The same, expired: Gitea issues a new one for the refresh part.         *)
RefreshToken(t) ==
  /\ At(t) = "loaded"
  /\ Token(t) \in expired
  /\ Token(t) = valid[tab[t].who]
  /\ Issue(tab[t].who, {})
  /\ tab' = [tab EXCEPT ![t].at = "refreshed", ![t].token = issued + 1]
  /\ UNCHANGED <<BrowserOf, cookie, sessions, users, made, approved, trouble>>

(* Gitea has retired the refresh part, or the grant.                       *)
RefreshRefused(t) ==
  /\ At(t) = "loaded"
  /\ Token(t) \in expired
  /\ Token(t) # valid[tab[t].who]
  /\ Answer(t, "loginPage")
  /\ UNCHANGED <<server, trouble>>

(* No answer: the question was lost, or the answer with the new token.     *)
RefreshUnanswered(t) ==
  /\ Trouble
  /\ At(t) = "loaded"
  /\ Token(t) \in expired
  /\ \/ UNCHANGED <<gitea, why>>
     \/ Token(t) = valid[tab[t].who] /\ Issue(tab[t].who, {"lost"})
  /\ Answer(t, "loginPage")
  /\ UNCHANGED <<BrowserOf, cookie, sessions, users, made, approved>>

(* Variant: the new token is used and not stored.                          *)
SaveNothing(t) ==
  /\ At(t) = "refreshed"
  /\ Goto(t, "ready")
  /\ UNCHANGED <<server, trouble>>

(* db.Users().Set with the new token.                                      *)
SaveToken(t) ==
  /\ At(t) = "refreshed"
  /\ Store(t)
  /\ Goto(t, "ready")
  /\ UNCHANGED <<BrowserOf, cookie, sessions, made, gitea, approved, trouble>>

(* The first call of the handler with the user's client, GetRepo, for a    *)
(* repository the user may see.                                            *)
GiteaAnswers(t) ==
  /\ At(t) = "ready"
  /\ Token(t) \notin expired \cup revoked
  /\ Answer(t, "page")
  /\ UNCHANGED <<server, trouble>>

(* The token expired since line 416: the client of line 433 refreshes it   *)
(* by itself, and nobody stores what it gets.                              *)
ClientRefreshes(t) ==
  /\ At(t) = "ready"
  /\ Token(t) \in expired
  /\ Token(t) = valid[tab[t].who]
  /\ Issue(tab[t].who, {"lost"})
  /\ Answer(t, "page")
  /\ UNCHANGED <<BrowserOf, cookie, sessions, users, made, approved, trouble>>

GiteaRefuses(t) ==
  /\ At(t) = "ready"
  /\ IF Token(t) \in expired THEN Token(t) # valid[tab[t].who] ELSE Token(t) \in revoked
  /\ Answer(t, "loginPage")
  /\ UNCHANGED <<server, trouble>>

-----------------------------------------------------------------------------
(* Variant: the redirect names the login page itself.                      *)
SendBackToLogin(t) ==
  /\ At(t) = "loginPage"
  /\ UserOf(t) # Nobody
  /\ UNCHANGED vars

(* The button of the login page asks for /login with a redirect: whoever   *)
(* has a session is sent back at once (lines 85-91 of auth.go).            *)
SendBack(t) ==
  /\ At(t) = "loginPage"
  /\ UserOf(t) # Nobody
  /\ Answer(t, "sentBack")
  /\ UNCHANGED <<server, trouble>>

(* The rest of /login: the id of the cookie, or a new one.                 *)
BeginLogin(t) ==
  LET c == cookie[BrowserOf[t]]
  IN  /\ tab' = [tab EXCEPT ![t] = [Showing("asked") EXCEPT
                   !.id = IF c = 0 THEN made + 1 ELSE c, !.setsCookie = (c = 0)]]
      /\ made' = IF c = 0 THEN made + 1 ELSE made
      /\ UNCHANGED <<BrowserOf, cookie, sessions, users, gitea, approved, why>>

AskLogin(t) ==
  /\ At(t) = "loginPage"
  /\ UserOf(t) = Nobody
  /\ BeginLogin(t)
  /\ UNCHANGED trouble

(* The address of /login, typed without a redirect: the session is not     *)
(* asked for.                                                              *)
TypeLogin(t) ==
  /\ Trouble
  /\ At(t) \in {"start", "page", "loginPage"}
  /\ BeginLogin(t)

(* The answer reaches the browser, which keeps the cookie and goes on to   *)
(* Gitea.                                                                  *)
LoginAnswered(t) ==
  /\ At(t) = "asked"
  /\ cookie' = IF tab[t].setsCookie
                 THEN [cookie EXCEPT ![BrowserOf[t]] = tab[t].id] ELSE cookie
  /\ tab' = [tab EXCEPT ![t].at = "atGitea", ![t].setsCookie = FALSE]
  /\ UNCHANGED <<BrowserOf, sessions, users, made, gitea, approved, why, trouble>>

(* Lines 135-184 of auth.go: the state in the address was made for the     *)
(* session id in the cookie that comes with it.                            *)
StateIsSigned(i, b) == cookie[b] # 0  \* variant: the claims are not compared
StateFits(i, b) == cookie[b] = i /\ i # 0

(* A tab whose request for /callback is accepted, for an account.          *)
Called(t, a) == [Showing("called") EXCEPT !.who = a, !.id = cookie[BrowserOf[t]]]

(* An account approves the login at Gitea, and the browser asks for        *)
(* /callback with its cookie of that moment.                               *)
Approve(t, a) ==
  /\ At(t) = "atGitea"
  /\ StateFits(tab[t].id, BrowserOf[t])
  /\ tab' = [tab EXCEPT ![t] = Called(t, a)]
  /\ approved' = [approved EXCEPT ![BrowserOf[t]] = @ \cup {a}]
  /\ UNCHANGED <<BrowserOf, cookie, sessions, users, made, gitea, why, trouble>>

CallbackRefused(t) ==
  /\ At(t) = "atGitea"
  /\ ~StateFits(tab[t].id, BrowserOf[t])
  /\ Answer(t, "start")
  /\ UNCHANGED <<server, trouble>>

(* The system opens the address of /callback in another browser than the   *)
(* one the account approved in.                                            *)
HandedOver(t, u, a) ==
  /\ Trouble
  /\ At(t) = "atGitea"
  /\ BrowserOf[t] # BrowserOf[u]
  /\ At(u) \notin InServer
  /\ tab' = [tab EXCEPT ![t] = Showing("start"),
                        ![u] = IF StateFits(tab[t].id, BrowserOf[u])
                                 THEN Called(u, a) ELSE Showing("start")]
  /\ approved' = [approved EXCEPT ![BrowserOf[t]] = @ \cup {a}]
  /\ UNCHANGED <<BrowserOf, cookie, sessions, users, made, gitea, why>>

(* oauthConfig.Exchange, then GetMyUserInfo.                               *)
Exchange(t) ==
  /\ At(t) = "called"
  /\ Issue(tab[t].who, {})
  /\ tab' = [tab EXCEPT ![t].at = "exchanged", ![t].token = issued + 1]
  /\ UNCHANGED <<BrowserOf, cookie, sessions, users, made, approved, trouble>>

(* Either of them fails, before or after the token was issued.             *)
ExchangeFails(t) ==
  /\ Trouble
  /\ At(t) = "called"
  /\ UNCHANGED <<gitea, why>> \/ Issue(tab[t].who, {"lost"})
  /\ Answer(t, "start")
  /\ UNCHANGED <<BrowserOf, cookie, sessions, users, made, approved>>

(* db.UserSessions().Set under the id of the cookie.                       *)
StoreSession(t) ==
  /\ At(t) = "exchanged"
  /\ sessions' = [i \in DOMAIN sessions \cup {tab[t].id} |->
                    IF i = tab[t].id THEN tab[t].who ELSE sessions[i]]
  /\ Goto(t, "entered")
  /\ UNCHANGED <<BrowserOf, cookie, users, made, gitea, approved, why, trouble>>

(* db.Users().Set, and the redirect to the page.                           *)
StoreUser(t) ==
  /\ At(t) = "entered"
  /\ Store(t)
  /\ Answer(t, "sentBack")
  /\ UNCHANGED <<BrowserOf, cookie, sessions, made, gitea, approved, trouble>>

(* db.Users().Set fails, in a page's request or in the callback.           *)
StoreFails(t) ==
  /\ Trouble
  /\ At(t) \in {"refreshed", "entered"}
  /\ why' = [why EXCEPT ![tab[t].who] = @ \cup {"lost"}]
  /\ Answer(t, IF At(t) = "refreshed" THEN "loginPage" ELSE "start")
  /\ UNCHANGED <<BrowserOf, cookie, sessions, users, made, gitea, approved>>

-----------------------------------------------------------------------------
(* Variant: the cookie that is set has another path, and hides nothing.    *)
LogoutOnlyThere(b) ==
  /\ Trouble
  /\ cookie[b] # 0
  /\ approved' = [approved EXCEPT ![b] = {}]
  /\ UNCHANGED <<tab, BrowserOf, cookie, sessions, users, made, gitea, why>>

(* /logout in any tab, or the end of the cookie's 24 hours.                *)
Logout(b) ==
  /\ Trouble
  /\ cookie[b] # 0
  /\ cookie' = [cookie EXCEPT ![b] = 0]
  /\ approved' = [approved EXCEPT ![b] = {}]
  /\ UNCHANGED <<tab, BrowserOf, sessions, users, made, gitea, why>>

(* The server exits and starts again: sessions and handlers are gone.      *)
Restart ==
  /\ Trouble
  /\ sessions' = [i \in {} |-> Nobody]
  /\ why' = [a \in Accounts |-> IF Holders(a) = {} THEN why[a] ELSE why[a] \cup {"lost"}]
  /\ tab' = [t \in Tabs |-> IF At(t) \in InServer THEN Showing("start") ELSE tab[t]]
  /\ UNCHANGED <<BrowserOf, cookie, users, made, gitea, approved>>

(* The access part of a token that somebody has expires.                   *)
Expire(n) ==
  /\ Trouble
  /\ n # 0
  /\ n \notin expired
  /\ expired' = expired \cup {n}
  /\ UNCHANGED <<tab, BrowserOf, cookie, sessions, users, made, issued, valid, revoked, approved, why>>

(* An account withdraws its grant at Gitea.                                *)
Revoke(a) ==
  /\ Trouble
  /\ valid[a] # 0
  /\ valid' = [valid EXCEPT ![a] = 0]
  /\ revoked' = (revoked \cup {users[a], valid[a]}
                            \cup {Token(t) : t \in {u \in Tabs : tab[u].who = a}}) \ {0}
  /\ why' = [why EXCEPT ![a] = @ \cup {"revoked"}]
  /\ UNCHANGED <<tab, BrowserOf, cookie, sessions, users, made, issued, expired, approved>>

Serve(t) ==
  \/ TokenFresh(t) \/ RefreshToken(t) \/ RefreshRefused(t) \/ SaveToken(t)
  \/ GiteaAnswers(t) \/ ClientRefreshes(t) \/ GiteaRefuses(t)
  \/ LoginAnswered(t) \/ Exchange(t) \/ StoreSession(t) \/ StoreUser(t)

Read(t) ==
  \/ OpenPage(t) \/ SendBack(t) \/ AskLogin(t) \/ CallbackRefused(t)
  \/ \E a \in Accounts : Approve(t, a)

Fault ==
  \/ \E t \in Tabs : RefreshUnanswered(t) \/ ExchangeFails(t) \/ StoreFails(t) \/ TypeLogin(t)
  \/ \E t, u \in Tabs, a \in Accounts : HandedOver(t, u, a)
  \/ \E b \in Browsers : Logout(b)
  \/ Restart
  \/ \E t \in Tabs : Expire(Token(t))
  \/ \E a \in Accounts : Expire(users[a]) \/ Revoke(a)

Next == Fault \/ \E t \in Tabs : Serve(t) \/ Read(t)

Spec == Init /\ [][Next]_vars

(* Handlers run, Gitea answers, and readers press the button in front of   *)
(* them and approve; troubles have an end.                                 *)
FairSpec == Spec /\ \A t \in Tabs : WF_vars(Serve(t)) /\ WF_vars(Read(t))

-----------------------------------------------------------------------------
TypeOK ==
  /\ BrowserOf \in Placements
  /\ tab \in [Tabs -> TabStates]
  /\ \A t \in Tabs :
       /\ At(t) \in InServer \ {"asked"} => tab[t].who \in Accounts
       /\ At(t) \in InServer \ {"asked", "called"} => Token(t) # 0
  /\ cookie \in [Browsers -> Nat]
  /\ DOMAIN sessions \subseteq Nat
  /\ \A i \in DOMAIN sessions : sessions[i] \in Accounts
  /\ users \in [Accounts -> Nat]
  /\ made \in Nat /\ issued \in Nat
  /\ valid \in [Accounts -> Nat]
  /\ expired \subseteq Nat /\ revoked \subseteq Nat
  /\ approved \in [Browsers -> SUBSET Accounts]
  /\ why \in [Accounts -> SUBSET Reasons]
  /\ trouble \in 0..MaxTrouble

(* The stored token of an account is the one Gitea would refresh, or a     *)
(* handler is about to store that one, unless the grant was withdrawn, a   *)
(* new token got lost before it was stored, or two were issued while one   *)
(* of them was not stored (main.go:416-431, auth.go:186-229).              *)
DeadTokenExplained ==
  \A a \in Accounts :
    users[a] # valid[a] =>
      why[a] # {} \/ \E t \in Holders(a) : Token(t) = valid[a]

(* A request is only made in the name of an account that approved a login  *)
(* in that very browser since its last logout, whatever tabs, answers and  *)
(* restarts do in between.                                                 *)
OnlyOwnAccount ==
  [][\A t \in Tabs :
       OpenPage(t) /\ tab'[t].at = "loaded" => tab'[t].who \in approved[BrowserOf[t]]]_vars

(* The session a tab's cookie names has a token Gitea no longer takes.     *)
Usable(a) == users[a] \notin revoked /\ (users[a] \in expired => users[a] = valid[a])
DeadFor(t) == UserOf(t) # Nobody /\ ~Usable(UserOf(t))

(* A reader at the login page comes to the page in the end, unless their   *)
(* session goes on naming a token that Gitea does not take.                *)
LoginComesIn ==
  \A t \in Tabs : <>[]DeadFor(t) \/ (At(t) = "loginPage" ~> At(t) = "page")

(* What README.md:18 says, "Every valid Gitea user is authenticated with    *)
(* Gitea", by the button "Log in with Gitea" of templates/login.html:78:   *)
(* pressing it leads to Gitea, or back to a page that is shown.            *)
ButtonLogsIn == \A t \in Tabs : At(t) = "loginPage" ~> At(t) \in {"atGitea", "page"}
=============================================================================
