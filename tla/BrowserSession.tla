--------------------------- MODULE BrowserSession ---------------------------
(****************************************************************************)
(* The account each tab of one browser shows (the auth store), the session  *)
(* cookie and the logout mark the tabs share, and the requests between them *)
(* and the server.                                                          *)
(*                                                                          *)
(* A request carries the cookie of the moment it is sent, its answer comes  *)
(* at any later time, and answers overtake one another.  The browser stores *)
(* the cookie of a login's answer before the tab's code sees the answer.    *)
(* Notices to the other tabs (storage events) are handled later, in order.  *)
(* Storage works, and a tab is not closed with a login under way; recovery  *)
(* codes, registration (a login) and the loading state are left out.        *)
(****************************************************************************)
EXTENDS Naturals

CONSTANTS
  Tabs,
  Users,
  MaxActions, \* what the user does: page mounts, logins, logouts, requests
  Nobody

ASSUME BrowserSessionAssumption ==
  /\ Nobody \notin Users /\ MaxActions \in Nat
  /\ \A u \in Users \cup {Nobody} : u # "failed" /\ u # "denied"

VARIABLES
  cookie,   \* whom the server takes the browser's cookie for, or Nobody
  pending,  \* the logout mark in localStorage
  tab,      \* the auth store of each tab
  requests, \* sent and not yet handled
  notices,  \* storage events a tab has not handled
  actions   \* how much the user has done

browserVars == <<cookie, pending, tab, requests, notices, actions>>

\* user, sessionRevision, meRequestVersion and logoutPendingInMemory.
Store == [user: Users \cup {Nobody}, revision: Nat, meVersion: Nat, pending: BOOLEAN]

\* version is meRequestVersion and revision sessionRevision when it was sent;
\* answer is a user, "denied" (401) or "failed" (network, 5xx).
Request ==
  [tab: Tabs, kind: {"me", "login", "profile", "other", "logout"},
   version: Nat, revision: Nat, answer: Users \cup {"denied", "failed"},
   arrived: BOOLEAN]

BrowserInit ==
  /\ cookie \in Users \cup {Nobody}
  /\ pending = FALSE
  /\ tab = [t \in Tabs |-> [user |-> Nobody, revision |-> 0, meVersion |-> 0,
                            pending |-> FALSE]]
  /\ requests = {}
  /\ notices = [t \in Tabs |-> 0]
  /\ actions = 0

-----------------------------------------------------------------------------
(* The store.                                                                *)

\* A new session, or another user, makes a new revision: the pages and the
\* cached data of the former one are dropped.
WithUser(store, user, newSession) ==
  [store EXCEPT !.user = user,
                !.revision = IF newSession \/ store.user # user THEN @ + 1 ELSE @]

\* Every /auth/me still under way is out of date.
Outdated(store) == [store EXCEPT !.meVersion = @ + 1]

LocalLogoutPending(t) == tab[t].pending \/ pending

PublishedBy(t) == [u \in Tabs |-> IF u = t THEN notices[u] ELSE notices[u] + 1]

\* What the server may answer to a request sent now.
Answers == {"failed", IF cookie = Nobody THEN "denied" ELSE cookie}

Sent(t, store, kind, answer) ==
  [tab |-> t, kind |-> kind, version |-> store.meVersion,
   revision |-> store.revision, answer |-> answer, arrived |-> FALSE]

\* The store after fetchMe was called: behind the logout mark nothing is sent.
FetchMe(t, store) ==
  LET next == Outdated(store) IN
  IF LocalLogoutPending(t)
  THEN /\ tab' = [tab EXCEPT ![t] = WithUser(next, Nobody, FALSE)]
       /\ UNCHANGED requests
  ELSE /\ tab' = [tab EXCEPT ![t] = next]
       /\ \E a \in Answers : requests' = requests \cup {Sent(t, next, "me", a)}

-----------------------------------------------------------------------------
(* What the user does.                                                       *)

Acts == actions < MaxActions /\ actions' = actions + 1

MountPage(t) ==
  /\ Acts
  /\ FetchMe(t, tab[t])
  /\ UNCHANGED <<cookie, pending, notices>>

Login(t) ==
  LET next == Outdated(tab[t]) IN
  /\ Acts
  /\ tab[t].user = Nobody
  /\ tab' = [tab EXCEPT ![t] = next]
  /\ \E a \in Users \cup {"failed"} : requests' = requests \cup {Sent(t, next, "login", a)}
  /\ UNCHANGED <<cookie, pending, notices>>

\* A change of the profile, whose answer is the user, or any other request.
AskAsUser(t, kind) ==
  /\ Acts
  /\ tab[t].user # Nobody
  /\ \E a \in Answers : requests' = requests \cup {Sent(t, tab[t], kind, a)}
  /\ UNCHANGED <<cookie, pending, tab, notices>>

\* The store as logout leaves it before the server is asked.
LogoutStore(t) ==
  WithUser([Outdated(tab[t]) EXCEPT !.pending = TRUE], Nobody, TRUE)

Logout(t) ==
  /\ Acts
  /\ tab[t].user # Nobody
  /\ tab' = [tab EXCEPT ![t] = LogoutStore(t)]
  /\ pending' = TRUE
  /\ notices' = PublishedBy(t)
  /\ \E a \in Answers : requests' = requests \cup {Sent(t, LogoutStore(t), "logout", a)}
  /\ UNCHANGED cookie

-----------------------------------------------------------------------------
(* What arrives.                                                             *)

\* A tab sees what reaches it in the order it came: the answer whose cookie
\* the browser has just stored comes before anything later.
InOrder(t) == \A r \in requests : r.tab = t => ~r.arrived

\* The browser takes the cookie from the answer: a login's user, or none.
Arrive(r) ==
  /\ r.kind \in {"login", "logout"}
  /\ InOrder(r.tab)
  /\ requests' = (requests \ {r}) \cup {[r EXCEPT !.arrived = TRUE]}
  /\ cookie' = IF r.answer = "failed" THEN cookie
               ELSE IF r.kind = "login" THEN r.answer ELSE Nobody
  /\ UNCHANGED <<pending, tab, notices, actions>>

HandleLogin(r) ==
  LET t == r.tab IN
  /\ r.kind = "login" /\ r.arrived
  /\ requests' = requests \ {r}
  /\ IF r.answer = "failed" THEN UNCHANGED <<pending, tab, notices>>
     ELSE /\ pending' = FALSE
          /\ tab' = [tab EXCEPT ![t] =
               WithUser([Outdated(tab[t]) EXCEPT !.pending = FALSE], r.answer, TRUE)]
          /\ notices' = PublishedBy(t)
  /\ UNCHANGED <<cookie, actions>>

HandleLogout(r) ==
  /\ r.kind = "logout" /\ r.arrived
  /\ requests' = requests \ {r}
  /\ UNCHANGED <<cookie, pending, tab, notices, actions>>

\* A 401 ends the session the request belonged to, if the tab still has it.
EndsSession(r) ==
  r.answer = "denied" /\ r.revision = tab[r.tab].revision /\ tab[r.tab].user # Nobody

EndSession(t) ==
  /\ tab' = [tab EXCEPT ![t] = WithUser(Outdated(tab[t]), Nobody, FALSE)]
  /\ notices' = PublishedBy(t)

\* Faulty variant: an answer counts whatever happened since it was asked for.
AnyAnswerIsCurrent(r) == TRUE

AnswerIsCurrent(r) == r.version = tab[r.tab].meVersion

HandleMe(r) ==
  LET t == r.tab IN
  /\ r.kind = "me"
  /\ requests' = requests \ {r}
  /\ IF EndsSession(r) THEN EndSession(t)
     ELSE /\ tab' = IF ~AnswerIsCurrent(r) THEN tab
                    ELSE IF r.answer \in Users
                    THEN [tab EXCEPT ![t] = WithUser(@, r.answer, FALSE)]
                    ELSE IF r.answer = "denied" THEN [tab EXCEPT ![t] = WithUser(@, Nobody, FALSE)]
                    ELSE tab
          /\ UNCHANGED notices
  /\ UNCHANGED <<cookie, pending, actions>>

SameSession(r) == r.revision = tab[r.tab].revision

HandleOther(r) ==
  LET t == r.tab IN
  /\ r.kind \in {"profile", "other"}
  /\ requests' = requests \ {r}
  /\ IF EndsSession(r) THEN EndSession(t)
     ELSE /\ tab' = IF r.kind = "profile" /\ r.answer \in Users /\ SameSession(r)
                    THEN [tab EXCEPT ![t] = WithUser(@, r.answer, FALSE)] ELSE tab
          /\ UNCHANGED notices
  /\ UNCHANGED <<cookie, pending, actions>>

\* A notice from another tab: the account shown is dropped at once, and only
\* /auth/me can tell whose cookie it is now.
HandleNotice(t) ==
  /\ notices[t] > 0
  /\ InOrder(t)
  /\ notices' = [notices EXCEPT ![t] = @ - 1]
  /\ FetchMe(t, WithUser(Outdated(tab[t]), Nobody, TRUE))
  /\ UNCHANGED <<cookie, pending, actions>>

\* The session expires, or is revoked from elsewhere.
Expire ==
  /\ cookie # Nobody
  /\ cookie' = Nobody
  /\ UNCHANGED <<pending, tab, requests, notices, actions>>

-----------------------------------------------------------------------------

BrowserNext ==
  \/ \E t \in Tabs :
       \/ MountPage(t) \/ Login(t) \/ Logout(t) \/ HandleNotice(t)
       \/ \E kind \in {"profile", "other"} : AskAsUser(t, kind)
  \/ \E r \in requests :
       Arrive(r) \/ HandleLogin(r) \/ HandleLogout(r) \/ HandleMe(r) \/ HandleOther(r)
  \/ Expire

BrowserSpec == BrowserInit /\ [][BrowserNext]_browserVars

-----------------------------------------------------------------------------
(* Correctness.                                                              *)

\* A tab in which nothing is under way never acts for one account while it
\* shows another: the user it shows is the one the cookie stands for, unless
\* that session has ended.
SettledTabsShowTheCookiesUser ==
  \A t \in Tabs :
    /\ notices[t] = 0
    /\ \A r \in requests : r.tab # t /\ r.kind # "login"
    => tab[t].user \in {Nobody, cookie} \/ cookie = Nobody

\* After a logout, be the server reached or not, neither the tab that logged
\* out nor one that got its notice shows an account again before a login.
LoggedOutTabsShowNobody ==
  \A t \in Tabs :
    tab[t].pending \/ (pending /\ notices[t] = 0) => tab[t].user = Nobody

\* No late answer, in this tab or another, brings a former user back.
NoFormerUser == SettledTabsShowTheCookiesUser /\ LoggedOutTabsShowNobody

=============================================================================
