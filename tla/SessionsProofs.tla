--------------------------- MODULE SessionsProofs ---------------------------
(***************************************************************************)
(* Proofs about Sessions, for any number of tabs, browsers, accounts and   *)
(* troubles.  The inductive invariant has four parts: the types; Ids, how  *)
(* session ids spread; Own, whose session a cookie names; and Books, how   *)
(* the stored token of an account relates to the one Gitea would refresh.  *)
(***************************************************************************)
EXTENDS Sessions, TLAPS

(* An id comes from one browser and is not found in another; an id that    *)
(* the answer of /login brings is known to nobody but its tab.             *)
Ids ==
  /\ \A b \in Browsers : cookie[b] <= made
  /\ \A t \in Tabs : tab[t].id <= made
  /\ DOMAIN sessions \subseteq 1..made
  /\ \A b, c \in Browsers : cookie[b] = cookie[c] /\ cookie[b] # 0 => b = c
  /\ \A t \in Tabs, b \in Browsers :
       tab[t].id # 0 /\ cookie[b] = tab[t].id => b = BrowserOf[t]
  /\ \A t \in Tabs : tab[t].setsCookie =>
       /\ tab[t].at = "asked" /\ tab[t].id # 0
       /\ tab[t].id \notin DOMAIN sessions
       /\ \A b \in Browsers : cookie[b] # tab[t].id
       /\ \A u \in Tabs : u # t => tab[u].id # tab[t].id

(* A session that a cookie names, or is about to name, belongs to an       *)
(* account that approved a login in that browser.                          *)
Own ==
  /\ \A b \in Browsers : cookie[b] \in DOMAIN sessions => sessions[cookie[b]] \in approved[b]
  /\ \A t \in Tabs : tab[t].at \in {"called", "exchanged"} =>
       /\ tab[t].id # 0
       /\ cookie[BrowserOf[t]] = tab[t].id => tab[t].who \in approved[BrowserOf[t]]

(* The books of an account are clean: its stored token is the valid one,   *)
(* or the only handler that holds another holds the valid one.             *)
Clean(a) ==
  \/ Holders(a) = {} /\ users[a] = valid[a]
  \/ \E t \in Tabs : Holders(a) = {t} /\ tab[t].token = valid[a]

Books == \A a \in Accounts : why[a] # {} \/ Clean(a)

SessionsInv == TypeOK /\ Ids /\ Own /\ Books

(* What a step of one tab leaves alone in the others.                      *)
OnlyTab(t) == tab' \in [Tabs -> TabStates] /\ \A u \in Tabs : u # t => tab'[u] = tab[u]

LEMMA BrowserType == TypeOK => BrowserOf \in [Tabs -> Browsers]
  BY SessionsAssumption DEF TypeOK

LEMMA ShowingType ==
  ASSUME NEW p \in Places
  PROVE  Showing(p) \in TabStates
  BY DEF Showing, TabStates

LEMMA AnswerIsOnlyTab ==
  ASSUME TypeOK, NEW t \in Tabs, NEW p \in Places, Answer(t, p)
  PROVE  OnlyTab(t) /\ tab'[t] = Showing(p)
  BY ShowingType DEF TypeOK, Answer, OnlyTab

LEMMA GotoIsOnlyTab ==
  ASSUME TypeOK, NEW t \in Tabs, NEW p \in Places, Goto(t, p)
  PROVE  OnlyTab(t) /\ tab'[t] = [tab[t] EXCEPT !.at = p]
  BY DEF TypeOK, Goto, OnlyTab, TabStates

-----------------------------------------------------------------------------
(* Ids and sessions.                                                       *)

(* A step of one tab that neither stores nor sets anything keeps both.     *)
LEMMA IdsKept ==
  ASSUME TypeOK, Ids, Own, NEW t \in Tabs, OnlyTab(t),
         UNCHANGED <<BrowserOf, cookie, sessions, made, approved>>,
         tab'[t].id \in {0, tab[t].id}, ~tab'[t].setsCookie,
         tab'[t].at \in {"called", "exchanged"} =>
           /\ tab[t].at \in {"called", "exchanged"}
           /\ tab'[t].id = tab[t].id /\ tab'[t].who = tab[t].who
  PROVE  Ids' /\ Own'
<1>1. tab \in [Tabs -> TabStates] /\ made \in Nat
  BY DEF TypeOK
<1>2. Ids'
  BY <1>1 DEF Ids, OnlyTab, TabStates
<1>3. Own'
  BY DEF Own, OnlyTab
<1>4. QED BY <1>2, <1>3

(* The same for a step that leaves the tabs alone.                         *)
LEMMA IdsIdle ==
  ASSUME Ids, Own, UNCHANGED <<BrowserOf, tab, cookie, sessions, made, approved>>
  PROVE  Ids' /\ Own'
  BY DEF Ids, Own

LEMMA IdsBeginLogin ==
  ASSUME TypeOK, Ids, Own, NEW t \in Tabs, BeginLogin(t)
  PROVE  Ids' /\ Own'
<1> DEFINE c == cookie[BrowserOf[t]]
           i == IF c = 0 THEN made + 1 ELSE c
<1>1. /\ tab \in [Tabs -> TabStates] /\ made \in Nat /\ cookie \in [Browsers -> Nat]
      /\ BrowserOf \in [Tabs -> Browsers] /\ c \in Nat
  BY BrowserType DEF TypeOK
<1>2. /\ tab'[t].at = "asked" /\ tab'[t].id = i /\ tab'[t].setsCookie = (c = 0)
      /\ \A u \in Tabs : u # t => tab'[u] = tab[u]
      /\ made' = IF c = 0 THEN made + 1 ELSE made
      /\ UNCHANGED <<BrowserOf, cookie, sessions, approved>>
  BY <1>1 DEF BeginLogin, Showing
<1> HIDE DEF c, i
<1>3. i \in Nat /\ i # 0 /\ i <= made' /\ made <= made' /\ made' \in Nat
  BY <1>1, <1>2 DEF i, c, Ids
<1>4. \A u \in Tabs : tab[u].id \in Nat
  BY <1>1 DEF TabStates
<1>5. ASSUME NEW u \in Tabs, NEW b \in Browsers, tab'[u].id # 0, cookie[b] = tab'[u].id
      PROVE  b = BrowserOf[u]
  <2>1. CASE u # t
    BY <1>2, <1>5, <2>1 DEF Ids
  <2>2. CASE u = t /\ c = 0
    BY <1>1, <1>2, <1>5, <2>2 DEF Ids, i
  <2>3. CASE u = t /\ c # 0
    BY <1>1, <1>2, <1>5, <2>3 DEF Ids, i, c
  <2>4. QED BY <2>1, <2>2, <2>3
<1>6. ASSUME NEW u \in Tabs, tab'[u].setsCookie
      PROVE  /\ tab'[u].at = "asked" /\ tab'[u].id # 0
             /\ tab'[u].id \notin DOMAIN sessions
             /\ \A b \in Browsers : cookie[b] # tab'[u].id
             /\ \A v \in Tabs : v # u => tab'[v].id # tab'[u].id
  <2>1. CASE u = t
    <3>1. c = 0 /\ i = made + 1
      BY <1>2, <1>6, <2>1 DEF i
    <3>2. QED BY <1>1, <1>2, <1>3, <1>4, <2>1, <3>1 DEF Ids
  <2>2. CASE u # t
    <3>1. tab'[u] = tab[u] /\ tab[u].setsCookie
      BY <1>2, <1>6, <2>2
    <3>2. tab[u].id # i
      BY <1>1, <1>4, <3>1 DEF Ids, i, c
    <3>3. QED BY <1>2, <3>1, <3>2 DEF Ids
  <2>3. QED BY <2>1, <2>2
<1>7. Ids'
  <2>1. \A b \in Browsers : cookie'[b] <= made'
    BY <1>1, <1>2, <1>3 DEF Ids
  <2>2. \A u \in Tabs : tab'[u].id <= made'
    BY <1>1, <1>2, <1>3, <1>4 DEF Ids
  <2>3. DOMAIN sessions' \subseteq 1..made'
    BY <1>1, <1>2, <1>3 DEF Ids
  <2>4. QED BY <1>2, <1>5, <1>6, <2>1, <2>2, <2>3 DEF Ids
<1>8. Own'
  BY <1>2 DEF Own
<1>9. QED BY <1>7, <1>8

LEMMA IdsLoginAnswered ==
  ASSUME TypeOK, Ids, Own, NEW t \in Tabs, LoginAnswered(t)
  PROVE  Ids' /\ Own'
<1>1. /\ tab \in [Tabs -> TabStates] /\ made \in Nat /\ cookie \in [Browsers -> Nat]
      /\ BrowserOf \in [Tabs -> Browsers]
  BY BrowserType DEF TypeOK
<1>2. /\ tab'[t].at = "atGitea" /\ tab'[t].id = tab[t].id /\ ~tab'[t].setsCookie
      /\ \A u \in Tabs : u # t => tab'[u] = tab[u]
      /\ UNCHANGED <<BrowserOf, sessions, made, approved>>
  BY <1>1 DEF LoginAnswered, TabStates
<1>3. \A u \in Tabs : tab'[u].id = tab[u].id
  BY <1>2
<1>4. CASE ~tab[t].setsCookie
  <2>1. cookie' = cookie
    BY <1>4 DEF LoginAnswered
  <2>2. Ids'
    BY <1>2, <1>3, <2>1 DEF Ids
  <2>3. QED BY <1>2, <2>1, <2>2 DEF Own
<1>5. CASE tab[t].setsCookie
  <2>1. cookie' = [cookie EXCEPT ![BrowserOf[t]] = tab[t].id]
    BY <1>5 DEF LoginAnswered
  <2>2. /\ tab[t].id # 0 /\ tab[t].id \notin DOMAIN sessions
        /\ \A b \in Browsers : cookie[b] # tab[t].id
        /\ \A u \in Tabs : u # t => tab[u].id # tab[t].id
    BY <1>5 DEF Ids
  <2>3. \A b \in Browsers : cookie'[b] = IF b = BrowserOf[t] THEN tab[t].id ELSE cookie[b]
    BY <1>1, <2>1
  <2>4. Ids'
    <3>1. \A b \in Browsers : cookie'[b] <= made'
      BY <1>2, <2>3 DEF Ids
    <3>2. \A b, c \in Browsers : cookie'[b] = cookie'[c] /\ cookie'[b] # 0 => b = c
      BY <2>2, <2>3 DEF Ids
    <3>3. \A u \in Tabs, b \in Browsers :
            tab'[u].id # 0 /\ cookie'[b] = tab'[u].id => b = BrowserOf'[u]
      BY <1>2, <1>3, <2>2, <2>3 DEF Ids
    <3>4. \A u \in Tabs : tab'[u].setsCookie =>
            /\ tab'[u].at = "asked" /\ tab'[u].id # 0
            /\ tab'[u].id \notin DOMAIN sessions'
            /\ \A b \in Browsers : cookie'[b] # tab'[u].id
            /\ \A v \in Tabs : v # u => tab'[v].id # tab'[u].id
      BY <1>2, <1>3, <2>2, <2>3 DEF Ids
    <3>5. QED BY <1>2, <1>3, <3>1, <3>2, <3>3, <3>4 DEF Ids
  <2>5. Own'
    BY <1>1, <1>2, <2>2, <2>3 DEF Own
  <2>6. QED BY <2>4, <2>5
<1>6. QED BY <1>4, <1>5

(* A tab whose request for /callback fits its browser's cookie.            *)
LEMMA IdsApprove ==
  ASSUME TypeOK, Ids, Own, NEW t \in Tabs, NEW a \in Accounts, Approve(t, a)
  PROVE  Ids' /\ Own'
<1>1. /\ tab \in [Tabs -> TabStates] /\ BrowserOf \in [Tabs -> Browsers]
      /\ approved \in [Browsers -> SUBSET Accounts]
  BY BrowserType DEF TypeOK
<1>2. /\ tab'[t].at = "called" /\ tab'[t].who = a /\ ~tab'[t].setsCookie
      /\ tab'[t].id = cookie[BrowserOf[t]] /\ tab[t].id = cookie[BrowserOf[t]]
      /\ tab[t].id # 0
      /\ \A u \in Tabs : u # t => tab'[u] = tab[u]
      /\ UNCHANGED <<BrowserOf, cookie, sessions, made>>
  BY <1>1 DEF Approve, Called, Showing, StateFits
<1>3. \A b \in Browsers :
        approved'[b] = IF b = BrowserOf[t] THEN approved[b] \cup {a} ELSE approved[b]
  BY <1>1 DEF Approve
<1>4. Ids'
  BY <1>1, <1>2 DEF Ids
<1>5. Own'
  BY <1>1, <1>2, <1>3 DEF Own
<1>6. QED BY <1>4, <1>5

(* The state never fits the cookie of another browser than its own.        *)
LEMMA IdsHandedOver ==
  ASSUME TypeOK, Ids, Own, NEW t \in Tabs, NEW u \in Tabs, NEW a \in Accounts,
         HandedOver(t, u, a)
  PROVE  Ids' /\ Own'
<1>1. /\ tab \in [Tabs -> TabStates] /\ BrowserOf \in [Tabs -> Browsers]
      /\ approved \in [Browsers -> SUBSET Accounts] /\ made \in Nat
  BY BrowserType DEF TypeOK
<1>2. ~StateFits(tab[t].id, BrowserOf[u])
  BY <1>1 DEF HandedOver, StateFits, Ids
<1>3. /\ tab'[t] = Showing("start") /\ tab'[u] = Showing("start")
      /\ \A v \in Tabs : v \notin {t, u} => tab'[v] = tab[v]
      /\ UNCHANGED <<BrowserOf, cookie, sessions, made>>
  BY <1>1, <1>2 DEF HandedOver
<1>4. \A b \in Browsers : approved[b] \subseteq approved'[b]
  BY <1>1 DEF HandedOver
<1>5. \A v \in Tabs : tab'[v] = tab[v] \/ tab'[v] = Showing("start")
  BY <1>3
<1>6. \A v \in Tabs : tab'[v].id \in {0, tab[v].id}
  BY <1>5 DEF Showing
<1>7. \A v \in Tabs : tab'[v].setsCookie => tab'[v] = tab[v]
  BY <1>5 DEF Showing
<1>8. Ids'
  BY <1>1, <1>3, <1>6, <1>7 DEF Ids
<1>9. \A v \in Tabs : tab'[v].at \in {"called", "exchanged"} => tab'[v] = tab[v]
  BY <1>5 DEF Showing
<1>10. Own'
  BY <1>1, <1>3, <1>4, <1>9 DEF Own
<1>11. QED BY <1>8, <1>10

LEMMA IdsStoreSession ==
  ASSUME TypeOK, Ids, Own, NEW t \in Tabs, StoreSession(t)
  PROVE  Ids' /\ Own'
<1>1. tab \in [Tabs -> TabStates] /\ made \in Nat /\ BrowserOf \in [Tabs -> Browsers]
  BY BrowserType DEF TypeOK
<1>2. /\ tab[t].at = "exchanged" /\ tab'[t].at = "entered"
      /\ tab'[t].id = tab[t].id /\ tab'[t].setsCookie = tab[t].setsCookie
      /\ \A u \in Tabs : u # t => tab'[u] = tab[u]
      /\ UNCHANGED <<BrowserOf, cookie, made, approved>>
  BY <1>1 DEF StoreSession, Goto, At, TabStates
<1>3. /\ DOMAIN sessions' = DOMAIN sessions \cup {tab[t].id}
      /\ sessions'[tab[t].id] = tab[t].who
      /\ \A i \in DOMAIN sessions : i # tab[t].id => sessions'[i] = sessions[i]
  BY DEF StoreSession
<1>4. tab[t].id \in 1..made /\ ~tab[t].setsCookie
  BY <1>1, <1>2 DEF Ids, Own, TabStates
<1>5. \A u \in Tabs : tab'[u].id = tab[u].id /\ tab'[u].setsCookie = tab[u].setsCookie
  BY <1>2
<1>6. \A u \in Tabs : tab'[u].setsCookie => u # t /\ tab[u].id # tab[t].id
  BY <1>4, <1>5 DEF Ids
<1>7. Ids'
  BY <1>2, <1>3, <1>4, <1>5, <1>6 DEF Ids
<1>8. Own'
  <2>1. ASSUME NEW b \in Browsers, cookie[b] \in DOMAIN sessions'
        PROVE  sessions'[cookie[b]] \in approved[b]
    <3>1. CASE cookie[b] = tab[t].id
      BY <1>2, <1>3, <1>4, <3>1 DEF Ids, Own
    <3>2. CASE cookie[b] # tab[t].id
      BY <1>3, <2>1, <3>2 DEF Own
    <3>3. QED BY <3>1, <3>2
  <2>2. ASSUME NEW u \in Tabs, tab'[u].at \in {"called", "exchanged"}
        PROVE  tab'[u] = tab[u]
    BY <1>2, <2>2
  <2>3. QED BY <1>2, <2>1, <2>2 DEF Own
<1>9. QED BY <1>7, <1>8

LEMMA IdsLogout ==
  ASSUME TypeOK, Ids, Own, NEW b \in Browsers, Logout(b)
  PROVE  Ids' /\ Own'
<1>1. /\ tab \in [Tabs -> TabStates] /\ made \in Nat /\ cookie \in [Browsers -> Nat]
      /\ BrowserOf \in [Tabs -> Browsers] /\ approved \in [Browsers -> SUBSET Accounts]
  BY BrowserType DEF TypeOK
<1>2. /\ UNCHANGED <<tab, BrowserOf, sessions, made>>
      /\ \A c \in Browsers : cookie'[c] = IF c = b THEN 0 ELSE cookie[c]
      /\ \A c \in Browsers : approved'[c] = IF c = b THEN {} ELSE approved[c]
  BY <1>1 DEF Logout
<1>3. Ids'
  BY <1>1, <1>2 DEF Ids
<1>4. Own'
  BY <1>1, <1>2 DEF Ids, Own
<1>5. QED BY <1>3, <1>4

LEMMA IdsRestart ==
  ASSUME TypeOK, Ids, Own, Restart
  PROVE  Ids' /\ Own'
<1>1. tab \in [Tabs -> TabStates] /\ made \in Nat
  BY DEF TypeOK
<1>2. /\ UNCHANGED <<BrowserOf, cookie, made, approved>> /\ DOMAIN sessions' = {}
      /\ \A t \in Tabs : tab'[t] = IF At(t) \in InServer THEN Showing("start") ELSE tab[t]
  BY <1>1 DEF Restart
<1>3. \A t \in Tabs : tab'[t].id \in {0, tab[t].id} /\ ~tab'[t].setsCookie
                      /\ tab'[t].at \notin {"called", "exchanged"}
  BY <1>2 DEF Showing, At, InServer, Ids
<1>4. Ids'
  BY <1>1, <1>2, <1>3 DEF Ids
<1>5. Own'
  BY <1>2, <1>3 DEF Own
<1>6. QED BY <1>4, <1>5

-----------------------------------------------------------------------------
(* Types.                                                                  *)
TabFits(r) ==
  /\ r \in TabStates
  /\ r.at \in InServer \ {"asked"} => r.who \in Accounts
  /\ r.at \in InServer \ {"asked", "called"} => r.token # 0

TabsTyped == tab \in [Tabs -> TabStates] /\ \A t \in Tabs : TabFits(tab[t])

StoresTyped ==
  /\ BrowserOf \in Placements
  /\ cookie \in [Browsers -> Nat]
  /\ DOMAIN sessions \subseteq Nat
  /\ \A i \in DOMAIN sessions : sessions[i] \in Accounts
  /\ users \in [Accounts -> Nat]
  /\ made \in Nat
  /\ approved \in [Browsers -> SUBSET Accounts]

GiteaTyped ==
  /\ issued \in Nat
  /\ valid \in [Accounts -> Nat]
  /\ expired \subseteq Nat /\ revoked \subseteq Nat
  /\ why \in [Accounts -> SUBSET Reasons]
  /\ trouble \in 0..MaxTrouble

LEMMA TypeParts == TypeOK <=> TabsTyped /\ StoresTyped /\ GiteaTyped
<1>1. tab \in [Tabs -> TabStates] => \A t \in Tabs : tab[t] \in TabStates
  OBVIOUS
<1>2. QED
  BY <1>1 DEF TypeOK, TabsTyped, TabFits, StoresTyped, GiteaTyped, At, Token

LEMMA TypePartsNext == TypeOK' <=> TabsTyped' /\ StoresTyped' /\ GiteaTyped'
<1>1. tab' \in [Tabs -> TabStates] => \A t \in Tabs : tab'[t] \in TabStates
  OBVIOUS
<1>2. QED
  BY <1>1 DEF TypeOK, TabsTyped, TabFits, StoresTyped, GiteaTyped, At, Token

LEMMA ShowingFits ==
  ASSUME NEW p \in Places \ InServer
  PROVE  TabFits(Showing(p))
  BY DEF TabFits, Showing, TabStates, Places, InServer

LEMMA TabsStep ==
  ASSUME TabsTyped, NEW t \in Tabs, NEW r, TabFits(r), tab' = [tab EXCEPT ![t] = r]
  PROVE  TabsTyped' /\ OnlyTab(t) /\ tab'[t] = r
  BY DEF TabsTyped, TabFits, OnlyTab

LEMMA TabsAnswer ==
  ASSUME TabsTyped, NEW t \in Tabs, NEW p \in Places \ InServer, Answer(t, p)
  PROVE  TabsTyped' /\ OnlyTab(t) /\ tab'[t] = Showing(p)
  BY ShowingFits, TabsStep DEF Answer

LEMMA TabsGoto ==
  ASSUME TabsTyped, NEW t \in Tabs, NEW p \in Places, Goto(t, p),
         p \in InServer \ {"asked"} => tab[t].who \in Accounts,
         p \in InServer \ {"asked", "called"} => tab[t].token # 0
  PROVE  TabsTyped' /\ OnlyTab(t) /\ tab'[t] = [tab[t] EXCEPT !.at = p]
<1>1. tab[t] \in TabStates
  BY DEF TabsTyped
<1>2. TabFits([tab[t] EXCEPT !.at = p])
  BY <1>1 DEF TabFits, TabStates
<1>3. tab' = [tab EXCEPT ![t] = [tab[t] EXCEPT !.at = p]]
  BY DEF Goto
<1>4. QED BY <1>2, <1>3, TabsStep

LEMMA IssueTyped ==
  ASSUME GiteaTyped, NEW CONSTANT a \in Accounts, NEW news \in SUBSET Reasons, Issue(a, news),
         UNCHANGED trouble \/ Trouble
  PROVE  GiteaTyped'
<1>1. trouble' \in 0..MaxTrouble
  BY SessionsAssumption DEF GiteaTyped, Trouble
<1>2. why' \in [Accounts -> SUBSET Reasons]
  BY DEF GiteaTyped, Issue, Reasons
<1>3. issued' \in Nat /\ valid' \in [Accounts -> Nat] /\ expired' = expired /\ revoked' = revoked
  BY DEF GiteaTyped, Issue
<1>4. QED BY <1>1, <1>2, <1>3 DEF GiteaTyped

LEMMA TroubleTyped ==
  ASSUME trouble \in 0..MaxTrouble, Trouble \/ UNCHANGED trouble
  PROVE  trouble' \in 0..MaxTrouble
  BY SessionsAssumption DEF Trouble

(* Which account the user of a request is.                                 *)
LEMMA UserOfTyped ==
  ASSUME NEW t \in Tabs, UserOf(t) # Nobody
  PROVE  UserOf(t) \in Accounts /\ users[UserOf(t)] # 0 /\ UserOf(t) = SessionOf(t)
  BY DEF UserOf

-----------------------------------------------------------------------------
(* The books.                                                              *)
Holding == {"refreshed", "exchanged", "entered"}

LEMMA HoldersSame ==
  ASSUME NEW t \in Tabs, OnlyTab(t), NEW CONSTANT a \in Accounts,
         tab[t].at \notin Holding, tab'[t].at \notin Holding
  PROVE  Holders(a)' = Holders(a) /\ \A u \in Holders(a) : tab'[u] = tab[u]
  BY DEF Holders, At, Holding, OnlyTab

(* A step of a tab that has no token to store, and gets none.              *)
LEMMA BooksKept ==
  ASSUME Books, NEW t \in Tabs, OnlyTab(t), UNCHANGED <<users, valid, why>>,
         tab[t].at \notin Holding, tab'[t].at \notin Holding
  PROVE  Books'
  BY HoldersSame DEF Books, Clean

LEMMA BooksIdle ==
  ASSUME Books, UNCHANGED <<tab, users, valid, why>>
  PROVE  Books'
  BY DEF Books, Clean, Holders, At

(* A tab gets a new token from Gitea, and may have it to store.            *)
LEMMA BooksIssue ==
  ASSUME TypeOK, Books, NEW t \in Tabs, NEW CONSTANT a \in Accounts, NEW news \in SUBSET Reasons,
         OnlyTab(t), Issue(a, news), UNCHANGED users, tab[t].at \notin Holding,
         \/ tab'[t].at \notin Holding /\ news # {}
         \/ tab'[t].at \in Holding /\ tab'[t].who = a /\ tab'[t].token = issued + 1
  PROVE  Books'
<1>1. /\ why \in [Accounts -> SUBSET Reasons] /\ valid \in [Accounts -> Nat]
      /\ \A c \in Accounts : c # a => valid'[c] = valid[c] /\ why'[c] = why[c]
      /\ valid'[a] = issued + 1
      /\ why'[a] = why[a] \cup news \cup (IF Holders(a) = {} THEN {} ELSE {"raced"})
  BY DEF TypeOK, Issue
<1>2. ASSUME NEW c \in Accounts, c # a
      PROVE  Holders(c)' = Holders(c) /\ \A u \in Holders(c) : tab'[u] = tab[u]
  BY <1>2 DEF Holders, At, Holding, OnlyTab
<1>3. ASSUME NEW c \in Accounts, c # a
      PROVE  why'[c] # {} \/ Clean(c)'
  BY <1>1, <1>2, <1>3 DEF Books, Clean
<1>4. why'[a] # {} \/ Clean(a)'
  <2>1. CASE news # {} \/ Holders(a) # {}
    BY <1>1, <2>1
  <2>2. CASE news = {} /\ Holders(a) = {}
    <3>1. Holders(a)' = {t}
      BY <2>2 DEF Holders, At, Holding, OnlyTab
    <3>2. tab'[t].token = valid'[a]
      BY <1>1, <2>2
    <3>3. QED BY <3>1, <3>2 DEF Clean
  <2>3. QED BY <2>1, <2>2
<1>5. QED BY <1>3, <1>4 DEF Books

(* A tab stores the token it has.                                          *)
LEMMA BooksStore ==
  ASSUME TypeOK, Books, NEW t \in Tabs, OnlyTab(t), Store(t),
         NEW CONSTANT a \in Accounts, tab[t].who = a, UNCHANGED valid, tab[t].at \in Holding, tab'[t].at \notin Holding
  PROVE  Books'
<1>1. /\ why \in [Accounts -> SUBSET Reasons] /\ users \in [Accounts -> Nat]
      /\ \A c \in Accounts : c # a => users'[c] = users[c] /\ why'[c] = why[c]
      /\ users'[a] = tab[t].token
      /\ why'[a] = IF tab[t].token = valid[a] /\ Holders(a) = {t} THEN {} ELSE why[a]
  BY DEF TypeOK, Store, Token
<1>2. ASSUME NEW c \in Accounts
      PROVE  Holders(c)' = Holders(c) \ {t} /\ \A u \in Holders(c) \ {t} : tab'[u] = tab[u]
  BY DEF Holders, At, Holding, OnlyTab
<1>3. ASSUME NEW c \in Accounts, c # a
      PROVE  t \notin Holders(c)
  BY <1>3 DEF Holders
<1>4. ASSUME NEW c \in Accounts, c # a
      PROVE  why'[c] # {} \/ Clean(c)'
  BY <1>1, <1>2, <1>3, <1>4 DEF Books, Clean
<1>5. t \in Holders(a)
  BY DEF Holders, At, Holding
<1>6. why'[a] # {} \/ Clean(a)'
  <2>1. CASE why[a] = {}
    <3>1. Holders(a) = {t} /\ tab[t].token = valid[a]
      BY <1>5, <2>1 DEF Books, Clean
    <3>2. Holders(a)' = {} /\ users'[a] = valid'[a]
      BY <1>1, <1>2, <3>1
    <3>3. QED BY <3>2 DEF Clean
  <2>2. CASE tab[t].token = valid[a] /\ Holders(a) = {t}
    BY <1>1, <1>2, <2>2 DEF Clean
  <2>3. CASE why[a] # {} /\ ~(tab[t].token = valid[a] /\ Holders(a) = {t})
    BY <1>1, <2>3
  <2>4. QED BY <2>1, <2>2, <2>3
<1>7. QED BY <1>4, <1>6 DEF Books

-----------------------------------------------------------------------------
(* The steps.                                                              *)

LEMMA InitSessions == Init => SessionsInv
<1> SUFFICES ASSUME Init PROVE SessionsInv
  OBVIOUS
<1>1. \A t \in Tabs : tab[t] = Showing("start")
  BY DEF Init
<1>2. TabsTyped
  <2>1. TabFits(Showing("start"))
    BY ShowingFits DEF Places, InServer
  <2>2. QED BY <1>1, <2>1 DEF Init, TabsTyped, TabFits
<1>3. StoresTyped /\ GiteaTyped
  BY SessionsAssumption DEF Init, StoresTyped, GiteaTyped
<1>4. Ids
  BY <1>1, <1>3, BrowserType, TypeParts DEF Init, Ids, Showing
<1>5. Own
  BY <1>1 DEF Init, Own, Showing
<1>6. Books
  BY <1>1 DEF Init, Books, Clean, Holders, At, Showing
<1>7. QED BY <1>2, <1>3, <1>4, <1>5, <1>6, TypeParts DEF SessionsInv

(* A step that changes nothing but its tab, which stores no token.         *)
LEMMA PlainStep ==
  ASSUME SessionsInv, NEW t \in Tabs, OnlyTab(t), TabsTyped', UNCHANGED <<server, trouble>>,
         tab[t].at \notin Holding,
         tab'[t].at \notin Holding \cup {"called", "exchanged"},
         tab'[t].id \in {0, tab[t].id}, ~tab'[t].setsCookie
  PROVE  SessionsInv'
<1>1. Ids' /\ Own'
  BY IdsKept DEF SessionsInv, server
<1>2. Books'
  BY BooksKept DEF SessionsInv, server, gitea
<1>3. StoresTyped' /\ GiteaTyped'
  BY TypeParts DEF SessionsInv, StoresTyped, GiteaTyped, server, gitea
<1>4. QED BY <1>1, <1>2, <1>3, TypePartsNext DEF SessionsInv

LEMMA AnswersKeep ==
  ASSUME SessionsInv, NEW t \in Tabs,
         \/ RefreshRefused(t) \/ GiteaAnswers(t) \/ GiteaRefuses(t)
         \/ SendBack(t) \/ CallbackRefused(t)
  PROVE  SessionsInv'
<1>1. TabsTyped
  BY TypeParts DEF SessionsInv
<1>2. PICK p \in {"loginPage", "page", "sentBack", "start"} : Answer(t, p)
  BY DEF RefreshRefused, GiteaAnswers, GiteaRefuses, SendBack, CallbackRefused
<1>3. p \in Places \ InServer
  BY DEF Places, InServer
<1>4. TabsTyped' /\ OnlyTab(t) /\ tab'[t] = Showing(p)
  BY <1>1, <1>2, <1>3, TabsAnswer
<1>5. tab[t].at \notin Holding /\ UNCHANGED <<server, trouble>>
  BY DEF RefreshRefused, GiteaAnswers, GiteaRefuses, SendBack, CallbackRefused, At, Holding
<1>6. QED BY <1>4, <1>5, PlainStep DEF Showing, Holding

LEMMA OpenPageKeeps ==
  ASSUME SessionsInv, NEW t \in Tabs, OpenPage(t)
  PROVE  SessionsInv'
<1>1. TabsTyped /\ users \in [Accounts -> Nat]
  BY TypeParts DEF SessionsInv, StoresTyped
<1>2. tab[t].at \notin Holding /\ UNCHANGED <<server, trouble>>
  BY DEF OpenPage, At, Holding
<1>3. CASE UserOf(t) = Nobody
  <2>1. TabsTyped' /\ OnlyTab(t) /\ tab'[t] = Showing("loginPage")
    BY <1>1, <1>3, TabsAnswer DEF OpenPage, Places, InServer
  <2>2. QED BY <1>2, <2>1, PlainStep DEF Showing, Holding
<1>4. CASE UserOf(t) # Nobody
  <2> DEFINE r == [Showing("loaded") EXCEPT !.who = UserOf(t), !.token = users[UserOf(t)]]
  <2>1. UserOf(t) \in Accounts /\ users[UserOf(t)] # 0
    BY <1>4, UserOfTyped
  <2>2. TabFits(r) /\ r.id = 0 /\ ~r.setsCookie /\ r.at = "loaded"
    BY <1>1, <2>1 DEF TabFits, TabStates, Showing, Places, InServer
  <2>3. tab' = [tab EXCEPT ![t] = r]
    BY <1>4 DEF OpenPage
  <2> HIDE DEF r
  <2>4. TabsTyped' /\ OnlyTab(t) /\ tab'[t] = r
    BY <1>1, <2>2, <2>3, TabsStep
  <2>5. QED BY <1>2, <2>2, <2>4, PlainStep DEF Holding
<1>5. QED BY <1>3, <1>4

LEMMA TokenFreshKeeps ==
  ASSUME SessionsInv, NEW t \in Tabs, TokenFresh(t)
  PROVE  SessionsInv'
<1>1. TabsTyped /\ TabFits(tab[t]) /\ tab[t].at = "loaded"
  BY TypeParts DEF SessionsInv, TabsTyped, TokenFresh, At
<1>2. tab[t].who \in Accounts /\ tab[t].token # 0 /\ tab[t] \in TabStates
  BY <1>1 DEF TabFits, InServer
<1>3. TabsTyped' /\ OnlyTab(t) /\ tab'[t] = [tab[t] EXCEPT !.at = "ready"]
  BY <1>1, <1>2, TabsGoto DEF TokenFresh, Places, InServer
<1>4. ~tab[t].setsCookie
  BY <1>1 DEF SessionsInv, Ids
<1>5. tab'[t].at = "ready" /\ tab'[t].id = tab[t].id /\ ~tab'[t].setsCookie
  BY <1>2, <1>3, <1>4 DEF TabStates
<1>6. QED BY <1>1, <1>3, <1>5, PlainStep DEF TokenFresh, Holding

(* A step in which a tab gets a token from Gitea.                          *)
LEMMA IssueStep ==
  ASSUME SessionsInv, NEW t \in Tabs, NEW CONSTANT a \in Accounts,
         NEW news \in SUBSET Reasons, Issue(a, news),
         OnlyTab(t), TabsTyped', UNCHANGED trouble \/ Trouble,
         UNCHANGED <<BrowserOf, cookie, sessions, users, made, approved>>,
         tab[t].at \notin Holding,
         \/ tab'[t].at \notin Holding /\ news # {}
         \/ tab'[t].at \in Holding /\ tab'[t].who = a /\ tab'[t].token = issued + 1,
         tab'[t].at # "called", tab'[t].id \in {0, tab[t].id}, ~tab'[t].setsCookie,
         tab'[t].at = "exchanged" =>
           tab[t].at = "called" /\ tab'[t].id = tab[t].id /\ tab'[t].who = tab[t].who
  PROVE  SessionsInv'
<1>1. Ids' /\ Own'
  BY IdsKept DEF SessionsInv
<1>2. Books'
  BY BooksIssue DEF SessionsInv
<1>3. GiteaTyped'
  BY IssueTyped, TypeParts DEF SessionsInv
<1>4. StoresTyped'
  BY TypeParts DEF SessionsInv, StoresTyped
<1>5. QED BY <1>1, <1>2, <1>3, <1>4, TypePartsNext DEF SessionsInv

LEMMA NewTokenKeeps ==
  ASSUME SessionsInv, NEW t \in Tabs, RefreshToken(t) \/ Exchange(t)
  PROVE  SessionsInv'
<1>1. TabsTyped /\ TabFits(tab[t]) /\ tab[t].at \in {"loaded", "called"} /\ issued \in Nat
  BY TypeParts DEF SessionsInv, TabsTyped, GiteaTyped, RefreshToken, Exchange, At
<1>2. PICK a \in Accounts : tab[t].who = a
  BY <1>1 DEF TabFits, InServer
<1>3. tab[t] \in TabStates /\ ~tab[t].setsCookie
  BY <1>1 DEF TabFits, SessionsInv, Ids
<1>4. PICK p \in {"refreshed", "exchanged"} :
        /\ p = "exchanged" => tab[t].at = "called"
        /\ tab' = [tab EXCEPT ![t] = [tab[t] EXCEPT !.at = p, !.token = issued + 1]]
  BY <1>1 DEF RefreshToken, Exchange, TabsTyped, At
<1> DEFINE r == [tab[t] EXCEPT !.at = p, !.token = issued + 1]
<1>5. /\ r.at = p /\ r.token = issued + 1 /\ r.who = a /\ r.id = tab[t].id
      /\ r.setsCookie = tab[t].setsCookie
  BY <1>2, <1>3 DEF TabStates
<1>6. TabFits(r)
  <2>1. p \in Places /\ issued + 1 \in Nat /\ issued + 1 # 0
    BY <1>1 DEF Places, InServer
  <2>2. r \in TabStates
    BY <1>3, <2>1 DEF TabStates
  <2> HIDE DEF r
  <2>3. QED BY <1>5, <2>1, <2>2 DEF TabFits
<1> HIDE DEF r
<1>7. TabsTyped' /\ OnlyTab(t) /\ tab'[t] = r
  BY <1>1, <1>4, <1>6, TabsStep DEF r
<1>8. Issue(a, {}) /\ UNCHANGED <<BrowserOf, cookie, sessions, users, made, approved, trouble>>
  BY <1>2 DEF RefreshToken, Exchange
<1>9. QED BY <1>1, <1>2, <1>3, <1>4, <1>5, <1>7, <1>8, IssueStep DEF Holding

LEMMA ClientRefreshesKeeps ==
  ASSUME SessionsInv, NEW t \in Tabs, ClientRefreshes(t)
  PROVE  SessionsInv'
<1>1. TabsTyped /\ TabFits(tab[t]) /\ tab[t].at = "ready"
  BY TypeParts DEF SessionsInv, TabsTyped, ClientRefreshes, At
<1>2. PICK a \in Accounts : tab[t].who = a
  BY <1>1 DEF TabFits, InServer
<1>3. TabsTyped' /\ OnlyTab(t) /\ tab'[t] = Showing("page")
  BY <1>1, TabsAnswer DEF ClientRefreshes, Places, InServer
<1>4. Issue(a, {"lost"}) /\ UNCHANGED <<BrowserOf, cookie, sessions, users, made, approved, trouble>>
  BY <1>2 DEF ClientRefreshes
<1>5. QED BY <1>1, <1>3, <1>4, IssueStep DEF Holding, Showing, Reasons

(* The token or its answer may be lost on the way.                         *)
LEMMA UnansweredKeeps ==
  ASSUME SessionsInv, NEW t \in Tabs, RefreshUnanswered(t) \/ ExchangeFails(t)
  PROVE  SessionsInv'
<1>1. TabsTyped /\ TabFits(tab[t]) /\ tab[t].at \in {"loaded", "called"}
  BY TypeParts DEF SessionsInv, TabsTyped, RefreshUnanswered, ExchangeFails, At
<1>2. PICK a \in Accounts : tab[t].who = a
  BY <1>1 DEF TabFits, InServer
<1>3. PICK p \in {"loginPage", "start"} : Answer(t, p)
  BY DEF RefreshUnanswered, ExchangeFails
<1>4. TabsTyped' /\ OnlyTab(t) /\ tab'[t] = Showing(p)
  BY <1>1, <1>3, TabsAnswer DEF Places, InServer
<1>5. /\ Trouble /\ UNCHANGED <<BrowserOf, cookie, sessions, users, made, approved>>
      /\ UNCHANGED <<gitea, why>> \/ Issue(a, {"lost"})
  BY <1>2 DEF RefreshUnanswered, ExchangeFails
<1>6. tab[t].at \notin Holding
  BY <1>1 DEF Holding
<1>7. CASE Issue(a, {"lost"})
  BY <1>4, <1>5, <1>6, <1>7, IssueStep DEF Holding, Showing, Reasons
<1>8. CASE UNCHANGED <<gitea, why>>
  <2>1. Ids' /\ Own'
    BY <1>4, <1>5, IdsKept DEF SessionsInv, Showing
  <2>2. Books'
    BY <1>4, <1>5, <1>6, <1>8, BooksKept DEF SessionsInv, Showing, Holding, gitea
  <2>3. StoresTyped' /\ GiteaTyped'
    BY <1>5, <1>8, TypeParts, TroubleTyped DEF SessionsInv, StoresTyped, GiteaTyped, gitea
  <2>4. QED BY <1>4, <2>1, <2>2, <2>3, TypePartsNext DEF SessionsInv
<1>9. QED BY <1>5, <1>7, <1>8

LEMMA StoreTyped ==
  ASSUME StoresTyped, GiteaTyped, NEW t \in Tabs, tab[t] \in TabStates,
         NEW CONSTANT a \in Accounts, tab[t].who = a, Store(t),
         UNCHANGED <<BrowserOf, cookie, sessions, made, gitea, approved, trouble>>
  PROVE  StoresTyped' /\ GiteaTyped'
<1>1. users' \in [Accounts -> Nat] /\ why' \in [Accounts -> SUBSET Reasons]
  BY DEF StoresTyped, GiteaTyped, Store, Token, TabStates
<1>2. QED BY <1>1 DEF StoresTyped, GiteaTyped, gitea

LEMMA StoringKeeps ==
  ASSUME SessionsInv, NEW t \in Tabs, SaveToken(t) \/ StoreUser(t)
  PROVE  SessionsInv'
<1>1. /\ TabsTyped /\ StoresTyped /\ GiteaTyped /\ TabFits(tab[t])
      /\ tab[t].at \in {"refreshed", "entered"}
  BY TypeParts DEF SessionsInv, TabsTyped, SaveToken, StoreUser, At
<1>2. PICK a \in Accounts : tab[t].who = a
  BY <1>1 DEF TabFits, InServer
<1>3. tab[t] \in TabStates /\ ~tab[t].setsCookie /\ tab[t].token # 0
  BY <1>1 DEF TabFits, SessionsInv, Ids, InServer
<1>4. /\ TabsTyped' /\ OnlyTab(t) /\ ~tab'[t].setsCookie
      /\ tab'[t].at \in {"ready", "sentBack"} /\ tab'[t].id \in {0, tab[t].id}
  <2>1. CASE SaveToken(t)
    <3>1. TabsTyped' /\ OnlyTab(t) /\ tab'[t] = [tab[t] EXCEPT !.at = "ready"]
      BY <1>1, <1>2, <1>3, <2>1, TabsGoto DEF SaveToken, Places, InServer
    <3>2. QED BY <1>3, <3>1 DEF TabStates
  <2>2. CASE StoreUser(t)
    <3>1. TabsTyped' /\ OnlyTab(t) /\ tab'[t] = Showing("sentBack")
      BY <1>1, <2>2, TabsAnswer DEF StoreUser, Places, InServer
    <3>2. QED BY <3>1 DEF Showing
  <2>3. QED BY <2>1, <2>2
<1>5. /\ Store(t)
      /\ UNCHANGED <<BrowserOf, cookie, sessions, made, gitea, approved, trouble>>
  BY DEF SaveToken, StoreUser
<1>6. Ids' /\ Own'
  BY <1>4, <1>5, IdsKept DEF SessionsInv
<1>7. Books'
  BY <1>1, <1>2, <1>4, <1>5, BooksStore DEF SessionsInv, Holding, gitea
<1>8. StoresTyped' /\ GiteaTyped'
  BY <1>1, <1>2, <1>3, <1>5, StoreTyped
<1>9. QED BY <1>4, <1>6, <1>7, <1>8, TypePartsNext DEF SessionsInv

LEMMA StoreSessionKeeps ==
  ASSUME SessionsInv, NEW t \in Tabs, StoreSession(t)
  PROVE  SessionsInv'
<1>1. /\ TabsTyped /\ StoresTyped /\ GiteaTyped /\ TabFits(tab[t])
      /\ tab[t].at = "exchanged"
  BY TypeParts DEF SessionsInv, TabsTyped, StoreSession, At
<1>2. tab[t].who \in Accounts /\ tab[t].token # 0 /\ tab[t] \in TabStates
  BY <1>1 DEF TabFits, InServer
<1>3. TabsTyped' /\ OnlyTab(t) /\ tab'[t] = [tab[t] EXCEPT !.at = "entered"]
  BY <1>1, <1>2, TabsGoto DEF StoreSession, Places, InServer
<1>4. /\ tab'[t].at = "entered" /\ tab'[t].who = tab[t].who /\ tab'[t].token = tab[t].token
      /\ \A u \in Tabs : tab'[u].who = tab[u].who /\ tab'[u].token = tab[u].token
  BY <1>2, <1>3 DEF TabStates, OnlyTab
<1>5. \A a \in Accounts : Holders(a)' = Holders(a)
  BY <1>1, <1>3, <1>4 DEF Holders, At, OnlyTab
<1>6. Books'
  BY <1>4, <1>5 DEF SessionsInv, Books, Clean, StoreSession, gitea
<1>7. /\ DOMAIN sessions' = DOMAIN sessions \cup {tab[t].id}
      /\ \A i \in DOMAIN sessions' :
           sessions'[i] = IF i = tab[t].id THEN tab[t].who ELSE sessions[i]
  BY DEF StoreSession
<1>8. StoresTyped'
  BY <1>1, <1>2, <1>7 DEF StoresTyped, StoreSession, TabStates
<1>9. GiteaTyped'
  BY <1>1 DEF GiteaTyped, StoreSession, gitea
<1>10. QED BY <1>3, <1>6, <1>8, <1>9, IdsStoreSession, TypePartsNext DEF SessionsInv

LEMMA StoreFailsKeeps ==
  ASSUME SessionsInv, NEW t \in Tabs, StoreFails(t)
  PROVE  SessionsInv'
<1>1. /\ TabsTyped /\ StoresTyped /\ GiteaTyped /\ TabFits(tab[t])
      /\ tab[t].at \in {"refreshed", "entered"}
  BY TypeParts DEF SessionsInv, TabsTyped, StoreFails, At
<1>2. PICK a \in Accounts : tab[t].who = a
  BY <1>1 DEF TabFits, InServer
<1>3. PICK p \in {"loginPage", "start"} : TabsTyped' /\ OnlyTab(t) /\ tab'[t] = Showing(p)
  BY <1>1, TabsAnswer DEF StoreFails, Places, InServer
<1>4. /\ UNCHANGED <<BrowserOf, cookie, sessions, users, made, gitea, approved>> /\ Trouble
      /\ why' = [why EXCEPT ![a] = @ \cup {"lost"}]
  BY <1>2 DEF StoreFails
<1>5. Ids' /\ Own'
  BY <1>3, <1>4, IdsKept DEF SessionsInv, Showing
<1>6. /\ why' \in [Accounts -> SUBSET Reasons] /\ why'[a] # {}
      /\ \A c \in Accounts : c # a => why'[c] = why[c]
  BY <1>1, <1>4 DEF GiteaTyped, Reasons
<1>7. ASSUME NEW c \in Accounts, c # a
      PROVE  Holders(c)' = Holders(c) /\ \A u \in Holders(c) : tab'[u] = tab[u]
  BY <1>2, <1>3, <1>7 DEF Holders, At, Showing, OnlyTab
<1>8. Books'
  BY <1>4, <1>6, <1>7 DEF SessionsInv, Books, Clean, gitea
<1>9. StoresTyped' /\ GiteaTyped'
  BY <1>1, <1>4, <1>6, TroubleTyped DEF StoresTyped, GiteaTyped, gitea
<1>10. QED BY <1>3, <1>5, <1>8, <1>9, TypePartsNext DEF SessionsInv

LEMMA BeginLoginKeeps ==
  ASSUME SessionsInv, NEW t \in Tabs, AskLogin(t) \/ TypeLogin(t)
  PROVE  SessionsInv'
<1> DEFINE c == cookie[BrowserOf[t]]
           r == [Showing("asked") EXCEPT !.id = IF c = 0 THEN made + 1 ELSE c,
                                         !.setsCookie = (c = 0)]
<1>1. TabsTyped /\ StoresTyped /\ GiteaTyped /\ BrowserOf \in [Tabs -> Browsers]
  BY TypeParts, BrowserType DEF SessionsInv
<1>2. BeginLogin(t) /\ tab[t].at \notin Holding /\ (Trouble \/ UNCHANGED trouble)
  BY DEF AskLogin, TypeLogin, At, Holding
<1>3. c \in Nat /\ made \in Nat
  BY <1>1 DEF StoresTyped
<1>4. TabFits(r) /\ r.at = "asked"
  <2>1. CASE c = 0
    <3>1. PICK n \in Nat : n = made + 1
      BY <1>3
    <3> DEFINE q == [Showing("asked") EXCEPT !.id = n, !.setsCookie = TRUE]
    <3>2. r = q
      BY <2>1, <3>1
    <3> HIDE DEF c, r
    <3>3. TabFits(q) /\ q.at = "asked"
      BY DEF TabFits, TabStates, Showing, Places, InServer
    <3> HIDE DEF q
    <3>4. QED BY <3>2, <3>3
  <2>2. CASE c # 0
    <3> DEFINE q == [Showing("asked") EXCEPT !.id = c, !.setsCookie = FALSE]
    <3>1. r = q
      BY <2>2
    <3> HIDE DEF c, r
    <3>2. TabFits(q) /\ q.at = "asked"
      BY <1>3 DEF TabFits, TabStates, Showing, Places, InServer
    <3> HIDE DEF q
    <3>3. QED BY <3>1, <3>2
  <2>3. QED BY <2>1, <2>2
<1>5. tab' = [tab EXCEPT ![t] = r]
  BY <1>2 DEF BeginLogin
<1> HIDE DEF r
<1>6. TabsTyped' /\ OnlyTab(t) /\ tab'[t].at = "asked"
  BY <1>1, <1>4, <1>5, TabsStep
<1>7. Ids' /\ Own'
  BY <1>2, IdsBeginLogin DEF SessionsInv
<1>8. Books'
  BY <1>2, <1>6, BooksKept DEF SessionsInv, BeginLogin, Holding, gitea
<1>9. StoresTyped' /\ GiteaTyped'
  BY <1>1, <1>2, <1>3, TroubleTyped DEF BeginLogin, StoresTyped, GiteaTyped, gitea
<1>10. QED BY <1>6, <1>7, <1>8, <1>9, TypePartsNext DEF SessionsInv

LEMMA LoginAnsweredKeeps ==
  ASSUME SessionsInv, NEW t \in Tabs, LoginAnswered(t)
  PROVE  SessionsInv'
<1> DEFINE r == [tab[t] EXCEPT !.at = "atGitea", !.setsCookie = FALSE]
<1>1. /\ TabsTyped /\ StoresTyped /\ GiteaTyped /\ tab[t] \in TabStates
      /\ tab[t].at = "asked"
  BY TypeParts DEF SessionsInv, TabsTyped, LoginAnswered, At
<1>2. TabFits(r) /\ r.at = "atGitea"
  BY <1>1 DEF TabFits, TabStates, Places, InServer
<1>3. tab' = [tab EXCEPT ![t] = r]
  BY <1>1 DEF LoginAnswered, TabsTyped
<1> HIDE DEF r
<1>4. TabsTyped' /\ OnlyTab(t) /\ tab'[t].at = "atGitea"
  BY <1>1, <1>2, <1>3, TabsStep
<1>5. Books'
  BY <1>1, <1>4, BooksKept DEF SessionsInv, LoginAnswered, Holding, gitea
<1>6. StoresTyped' /\ GiteaTyped'
  BY <1>1 DEF LoginAnswered, StoresTyped, GiteaTyped, gitea, TabStates
<1>7. QED BY <1>4, <1>5, <1>6, IdsLoginAnswered, TypePartsNext DEF SessionsInv

LEMMA ApproveKeeps ==
  ASSUME SessionsInv, NEW t \in Tabs, NEW a \in Accounts, Approve(t, a)
  PROVE  SessionsInv'
<1>1. TabsTyped /\ StoresTyped /\ GiteaTyped /\ BrowserOf \in [Tabs -> Browsers]
  BY TypeParts, BrowserType DEF SessionsInv
<1>2. tab[t].at \notin Holding /\ tab' = [tab EXCEPT ![t] = Called(t, a)]
  BY DEF Approve, At, Holding
<1>3. TabFits(Called(t, a)) /\ Called(t, a).at = "called"
  BY <1>1 DEF Called, Showing, TabFits, TabStates, StoresTyped, Places, InServer
<1>4. TabsTyped' /\ OnlyTab(t) /\ tab'[t].at = "called"
  BY <1>1, <1>2, <1>3, TabsStep
<1>5. Books'
  BY <1>2, <1>4, BooksKept DEF SessionsInv, Approve, Holding, gitea
<1>6. StoresTyped' /\ GiteaTyped'
  BY <1>1 DEF Approve, StoresTyped, GiteaTyped, gitea
<1>7. QED BY <1>4, <1>5, <1>6, IdsApprove, TypePartsNext DEF SessionsInv

LEMMA HandedOverKeeps ==
  ASSUME SessionsInv, NEW t \in Tabs, NEW u \in Tabs, NEW a \in Accounts, HandedOver(t, u, a)
  PROVE  SessionsInv'
<1>1. TabsTyped /\ StoresTyped /\ GiteaTyped /\ BrowserOf \in [Tabs -> Browsers]
  BY TypeParts, BrowserType DEF SessionsInv
<1>2. ~StateFits(tab[t].id, BrowserOf[u])
  BY <1>1 DEF SessionsInv, HandedOver, StateFits, Ids
<1>3. tab' = [tab EXCEPT ![t] = Showing("start"), ![u] = Showing("start")]
  BY <1>2 DEF HandedOver
<1>4. TabFits(Showing("start"))
  BY ShowingFits DEF Places, InServer
<1>5. \A v \in Tabs : tab'[v] = IF v \in {t, u} THEN Showing("start") ELSE tab[v]
  BY <1>1, <1>3 DEF TabsTyped
<1>6. TabsTyped'
  BY <1>1, <1>3, <1>4, <1>5 DEF TabsTyped, TabFits
<1>7. tab[t].at \notin Holding /\ tab[u].at \notin Holding
  BY DEF HandedOver, At, Holding, InServer
<1>8. \A c \in Accounts : Holders(c)' = Holders(c) /\ \A v \in Holders(c) : tab'[v] = tab[v]
  BY <1>5, <1>7 DEF Holders, At, Holding, Showing
<1>9. Books'
  BY <1>8 DEF SessionsInv, Books, Clean, HandedOver, gitea
<1>10. StoresTyped' /\ GiteaTyped'
  BY <1>1, TroubleTyped DEF HandedOver, StoresTyped, GiteaTyped, gitea
<1>11. QED BY <1>6, <1>9, <1>10, IdsHandedOver, TypePartsNext DEF SessionsInv

LEMMA LogoutKeeps ==
  ASSUME SessionsInv, NEW b \in Browsers, Logout(b)
  PROVE  SessionsInv'
<1>1. TabsTyped /\ StoresTyped /\ GiteaTyped
  BY TypeParts DEF SessionsInv
<1>2. TabsTyped' /\ StoresTyped' /\ GiteaTyped'
  BY <1>1, TroubleTyped DEF Logout, TabsTyped, StoresTyped, GiteaTyped, gitea
<1>3. Books'
  BY BooksIdle DEF SessionsInv, Logout, gitea
<1>4. QED BY <1>2, <1>3, IdsLogout, TypePartsNext DEF SessionsInv

LEMMA RestartKeeps ==
  ASSUME SessionsInv, Restart
  PROVE  SessionsInv'
<1>1. TabsTyped /\ StoresTyped /\ GiteaTyped
  BY TypeParts DEF SessionsInv
<1>2. \A t \in Tabs : tab'[t] = IF At(t) \in InServer THEN Showing("start") ELSE tab[t]
  BY DEF Restart
<1>3. TabsTyped'
  <2>1. TabFits(Showing("start"))
    BY ShowingFits DEF Places, InServer
  <2>2. QED BY <1>1, <1>2, <2>1 DEF Restart, TabsTyped, TabFits
<1>4. why' \in [Accounts -> SUBSET Reasons]
  BY <1>1 DEF Restart, GiteaTyped, Reasons
<1>5. StoresTyped' /\ GiteaTyped'
  BY <1>1, <1>4, TroubleTyped DEF Restart, StoresTyped, GiteaTyped, gitea
<1>6. ASSUME NEW a \in Accounts
      PROVE  why'[a] # {} \/ Clean(a)'
  <2>1. Holders(a)' = {}
    BY <1>2 DEF Holders, At, InServer, Showing
  <2>2. why'[a] = IF Holders(a) = {} THEN why[a] ELSE why[a] \cup {"lost"}
    BY DEF Restart
  <2>3. users' = users /\ valid' = valid
    BY DEF Restart, gitea
  <2>4. CASE Holders(a) # {}
    BY <2>2, <2>4
  <2>5. CASE Holders(a) = {}
    BY <2>1, <2>2, <2>3, <2>5 DEF SessionsInv, Books, Clean
  <2>6. QED BY <2>4, <2>5
<1>7. QED BY <1>3, <1>5, <1>6, IdsRestart, TypePartsNext DEF SessionsInv, Books

LEMMA ExpireKeeps ==
  ASSUME SessionsInv, NEW n \in Nat, Expire(n)
  PROVE  SessionsInv'
<1>1. TabsTyped' /\ StoresTyped' /\ GiteaTyped'
  BY TypeParts, TroubleTyped DEF SessionsInv, Expire, TabsTyped, StoresTyped, GiteaTyped
<1>2. Ids' /\ Own'
  BY IdsIdle DEF SessionsInv, Expire
<1>3. Books'
  BY BooksIdle DEF SessionsInv, Expire
<1>4. QED BY <1>1, <1>2, <1>3, TypePartsNext DEF SessionsInv

LEMMA RevokeKeeps ==
  ASSUME SessionsInv, NEW a \in Accounts, Revoke(a)
  PROVE  SessionsInv'
<1>1. TabsTyped /\ StoresTyped /\ GiteaTyped
  BY TypeParts DEF SessionsInv
<1>2. revoked' \subseteq Nat
  BY <1>1 DEF Revoke, GiteaTyped, StoresTyped, TabsTyped, TabStates, Token
<1>3. /\ why' \in [Accounts -> SUBSET Reasons] /\ valid' \in [Accounts -> Nat]
      /\ why'[a] # {}
      /\ \A c \in Accounts : c # a => why'[c] = why[c] /\ valid'[c] = valid[c]
  BY <1>1 DEF Revoke, GiteaTyped, Reasons
<1>4. TabsTyped' /\ StoresTyped' /\ GiteaTyped'
  BY <1>1, <1>2, <1>3, TroubleTyped DEF Revoke, TabsTyped, StoresTyped, GiteaTyped
<1>5. Ids' /\ Own'
  BY IdsIdle DEF SessionsInv, Revoke
<1>6. \A c \in Accounts : Holders(c)' = Holders(c)
  BY DEF Revoke, Holders, At
<1>7. Books'
  BY <1>3, <1>6 DEF SessionsInv, Books, Clean, Revoke
<1>8. QED BY <1>4, <1>5, <1>7, TypePartsNext DEF SessionsInv

LEMMA FaultKeeps ==
  ASSUME SessionsInv, Fault
  PROVE  SessionsInv'
<1>1. /\ \A t \in Tabs : Token(t) \in Nat
      /\ \A a \in Accounts : users[a] \in Nat
  BY TypeParts DEF SessionsInv, TabsTyped, TabStates, StoresTyped, Token
<1>2. QED
  BY <1>1, UnansweredKeeps, StoreFailsKeeps, BeginLoginKeeps, HandedOverKeeps, LogoutKeeps,
     RestartKeeps, ExpireKeeps, RevokeKeeps DEF Fault

LEMMA ServeKeeps ==
  ASSUME SessionsInv, NEW t \in Tabs, Serve(t)
  PROVE  SessionsInv'
  BY AnswersKeep, TokenFreshKeeps, NewTokenKeeps, StoringKeeps, ClientRefreshesKeeps,
     LoginAnsweredKeeps, StoreSessionKeeps DEF Serve

LEMMA ReadKeeps ==
  ASSUME SessionsInv, NEW t \in Tabs, Read(t)
  PROVE  SessionsInv'
  BY OpenPageKeeps, AnswersKeep, BeginLoginKeeps, ApproveKeeps DEF Read

LEMMA IdleKeeps == SessionsInv /\ UNCHANGED vars => SessionsInv'
<1> SUFFICES ASSUME SessionsInv, UNCHANGED vars PROVE SessionsInv'
  OBVIOUS
<1>1. TabsTyped' /\ StoresTyped' /\ GiteaTyped'
  BY TypeParts DEF SessionsInv, TabsTyped, StoresTyped, GiteaTyped, vars, server, gitea
<1>2. Ids' /\ Own' /\ Books'
  BY IdsIdle, BooksIdle DEF SessionsInv, vars, server, gitea
<1>3. QED BY <1>1, <1>2, TypePartsNext DEF SessionsInv

LEMMA SessionsInvariant == Spec => []SessionsInv
<1>1. SessionsInv /\ [Next]_vars => SessionsInv'
  BY FaultKeeps, ServeKeeps, ReadKeeps, IdleKeeps DEF Next
<1>2. QED BY InitSessions, <1>1, PTL DEF Spec

-----------------------------------------------------------------------------
(* Every reachable state of tabs, cookies and stores is well typed; in     *)
(* particular a handler past the middlewares works for a known account.    *)
THEOREM TypeCorrect == Spec => []TypeOK
  BY SessionsInvariant, PTL DEF SessionsInv

(* A stored token that Gitea would not refresh has one of three reasons:   *)
(* the grant was withdrawn, a new token got lost on its way to the store,  *)
(* or two handlers got new ones at the same time (main.go:416-431,         *)
(* auth.go:186-229).                                                       *)
THEOREM TokenCorrect == Spec => []DeadTokenExplained
<1>1. SessionsInv => DeadTokenExplained
  BY DEF SessionsInv, Books, Clean, DeadTokenExplained, Token
<1>2. QED BY SessionsInvariant, <1>1, PTL

(* No order of tabs, logins, logouts and restarts lets a request be made   *)
(* for an account that did not approve a login in that browser since its   *)
(* last logout (auth.go:66-238, database.go:162-190).                      *)
THEOREM AccountCorrect == Spec => OnlyOwnAccount
<1>1. ASSUME SessionsInv, NEW t \in Tabs, OpenPage(t), tab'[t].at = "loaded"
      PROVE  tab'[t].who \in approved[BrowserOf[t]]
  <2>1. TabsTyped /\ BrowserOf \in [Tabs -> Browsers]
    BY <1>1, TypeParts, BrowserType DEF SessionsInv
  <2>2. UserOf(t) # Nobody
    BY <1>1, <2>1 DEF OpenPage, Answer, Showing, TabsTyped
  <2>3. tab'[t].who = UserOf(t) /\ UserOf(t) = SessionOf(t) /\ UserOf(t) \in Accounts
    BY <1>1, <2>1, <2>2, UserOfTyped DEF OpenPage, Showing, TabsTyped
  <2>4. /\ cookie[BrowserOf[t]] \in DOMAIN sessions
        /\ SessionOf(t) = sessions[cookie[BrowserOf[t]]]
    BY <2>2, <2>3 DEF SessionOf
  <2>5. QED BY <1>1, <2>1, <2>3, <2>4 DEF SessionsInv, Own
<1>2. SessionsInv /\ [Next]_vars
        => [\A t \in Tabs : OpenPage(t) /\ tab'[t].at = "loaded"
              => tab'[t].who \in approved[BrowserOf[t]]]_vars
  BY <1>1
<1>3. QED BY SessionsInvariant, <1>2, PTL DEF Spec, OnlyOwnAccount
=============================================================================
