--------------------------- MODULE FrontendProofs ---------------------------
(****************************************************************************)
(* Theorems about the two parts of the frontend that outlive a page.        *)
(*                                                                          *)
(* The auth stores of any number of tabs and accounts (BrowserSession).     *)
(* BrowserInv says of every answer under way what it may still do: an       *)
(* answer that counts (its version or revision is the tab's) stands for the *)
(* cookie, or something that will make the tab ask again is on its way.     *)
(*                                                                          *)
(* The daily maintenance (DailyMaintenance), for any kinds, sessions, days  *)
(* and number of attempts.  Within a session the registered day of a kind   *)
(* only grows, so that a day is started at most once; a job has one attempt *)
(* under way, or one timer, or neither; and only the job that is registered *)
(* has a timer.                                                             *)
(****************************************************************************)
EXTENDS BrowserSession, DailyMaintenance, FiniteSetTheorems, TLAPS

-----------------------------------------------------------------------------
(* The auth stores.                                                          *)

BrowserTypes ==
  /\ cookie \in Users \cup {Nobody}
  /\ pending \in BOOLEAN
  /\ tab \in [Tabs -> Store]
  /\ requests \subseteq Request
  /\ notices \in [Tabs -> Nat]

\* The browser has stored the cookie of a login its tab has not seen yet.
Signed(r) == r.kind = "login" /\ r.arrived /\ r.answer \in Users

\* A notice has reached tab t, or a login will send one.
WillAsk(t) == notices[t] > 0 \/ \E r \in requests : Signed(r)

\* Tab t may show user u.
Vouched(t, u) == u \in {Nobody, cookie} \/ cookie = Nobody \/ WillAsk(t)

\* Tab t must show nobody.
LoggedOut(t) == tab[t].pending \/ (pending /\ notices[t] = 0)

Fresh(r) == r.kind = "me" /\ r.version = tab[r.tab].meVersion
SameUser(r) == r.kind \in {"profile", "other"} /\ r.revision = tab[r.tab].revision

\* What a request under way, and its answer, may still do.
RequestKnows(r) ==
  /\ r.version <= tab[r.tab].meVersion /\ r.revision <= tab[r.tab].revision
  /\ r.kind = "login" => r.answer # "denied"
  /\ Fresh(r) => ~LoggedOut(r.tab) /\ (r.answer \in Users => Vouched(r.tab, r.answer))
  /\ SameUser(r) => tab[r.tab].user # Nobody
                    /\ (r.answer \in Users => Vouched(r.tab, r.answer))
  /\ Signed(r) => \/ r.answer = cookie \/ cookie = Nobody \/ notices[r.tab] > 0
                  \/ \E s \in requests : Signed(s) /\ s # r

\* A tab has at most one answer that reached it and waits.
OneArrived ==
  \A r, s \in requests : r.arrived /\ s.arrived /\ r.tab = s.tab => r = s

BrowserInv ==
  /\ BrowserTypes
  /\ OneArrived
  /\ \A t \in Tabs : Vouched(t, tab[t].user)
  /\ LoggedOutTabsShowNobody
  /\ \A r \in requests : RequestKnows(r)

-----------------------------------------------------------------------------

LEMMA WithUserType ==
  ASSUME NEW s \in Store, NEW u \in Users \cup {Nobody}, NEW b \in BOOLEAN
  PROVE  /\ WithUser(s, u, b) \in Store
         /\ WithUser(s, u, b).user = u
         /\ WithUser(s, u, b).meVersion = s.meVersion
         /\ WithUser(s, u, b).pending = s.pending
         /\ WithUser(s, u, b).revision >= s.revision
         /\ b \/ s.user # u => WithUser(s, u, b).revision > s.revision
<1> DEFINE rev == IF b \/ s.user # u THEN s.revision + 1 ELSE s.revision
           next == [s EXCEPT !.user = u, !.revision = rev]
<1>1. rev \in Nat /\ rev >= s.revision /\ (b \/ s.user # u => rev > s.revision)
  BY DEF Store
<1>2. WithUser(s, u, b) = next
  <2>1. CASE b \/ s.user # u
    BY <2>1 DEF WithUser
  <2>2. CASE ~(b \/ s.user # u)
    BY <2>2 DEF WithUser
  <2> QED
    BY <2>1, <2>2
<1> HIDE DEF rev
<1>3. /\ next \in Store
      /\ next.user = u /\ next.revision = rev
      /\ next.meVersion = s.meVersion /\ next.pending = s.pending
  BY <1>1 DEF Store
<1> QED
  BY <1>1, <1>2, <1>3

LEMMA OutdatedType ==
  ASSUME NEW s \in Store
  PROVE  /\ Outdated(s) \in Store
         /\ Outdated(s).user = s.user
         /\ Outdated(s).meVersion > s.meVersion
         /\ Outdated(s).pending = s.pending
         /\ Outdated(s).revision = s.revision
BY DEF Outdated, Store

LEMMA SentType ==
  ASSUME NEW t \in Tabs, NEW s \in Store, NEW a \in Users \cup {"denied", "failed"},
         NEW k \in {"me", "login", "profile", "other", "logout"}
  PROVE  /\ Sent(t, s, k, a) \in Request
         /\ Sent(t, s, k, a).tab = t
         /\ Sent(t, s, k, a).kind = k
         /\ Sent(t, s, k, a).version = s.meVersion
         /\ Sent(t, s, k, a).revision = s.revision
         /\ Sent(t, s, k, a).answer = a
         /\ Sent(t, s, k, a).arrived = FALSE
BY DEF Sent, Store, Request

LEMMA AnswersType ==
  ASSUME BrowserTypes, NEW a \in Answers
  PROVE  a \in Users \cup {"denied", "failed"} /\ (a \in Users => a = cookie)
BY BrowserSessionAssumption DEF Answers, BrowserTypes

-----------------------------------------------------------------------------
(* What a step of one tab leaves as it was.                                  *)

\* Tab u is told of what happened, or what vouches for it is still there.
Calm(u) ==
  \/ notices'[u] > 0
  \/ /\ notices'[u] = notices[u] /\ cookie' \in {cookie, Nobody}
     /\ \A r \in requests : Signed(r) => r \in requests'

Unmarked(u) == notices'[u] > 0 \/ (pending' => pending)

LEMMA VouchedKept ==
  ASSUME BrowserInv, BrowserTypes', NEW u \in Tabs, Calm(u), NEW a, Vouched(u, a)
  PROVE  Vouched(u, a)'
BY DEF Vouched, WillAsk, Calm, BrowserInv, BrowserTypes, Signed

LEMMA LoggedOutKept ==
  ASSUME BrowserInv, BrowserTypes', NEW u \in Tabs, Calm(u), Unmarked(u),
         tab'[u].pending = tab[u].pending, LoggedOut(u)'
  PROVE  LoggedOut(u)
BY DEF LoggedOut, Calm, Unmarked, BrowserInv, BrowserTypes

LEMMA SignedKept ==
  ASSUME BrowserInv, BrowserTypes', NEW r \in requests, Calm(r.tab), Signed(r)
  PROVE  \/ r.answer = cookie' \/ cookie' = Nobody \/ notices'[r.tab] > 0
         \/ \E s \in requests' : Signed(s) /\ s # r
BY DEF Calm, BrowserInv, RequestKnows, BrowserTypes

\* The requests of a tab whose store changes.
LEMMA ChangedTab ==
  ASSUME BrowserInv, BrowserTypes', NEW t \in Tabs,
         tab'[t].meVersion >= tab[t].meVersion, tab'[t].revision >= tab[t].revision,
         tab'[t].user # tab[t].user => tab'[t].revision > tab[t].revision,
         \/ tab'[t].meVersion > tab[t].meVersion
         \/ Calm(t) /\ Unmarked(t) /\ tab'[t].pending = tab[t].pending,
         tab'[t].revision > tab[t].revision \/ Calm(t) \/ tab'[t].user = Nobody,
         Calm(t) \/ \A r \in requests' : Signed(r) => r.tab # t,
         NEW r \in requests, r \in requests', r.tab = t
  PROVE  RequestKnows(r)'
<1>0. /\ RequestKnows(r) /\ r \in Request /\ tab[t] \in Store /\ tab'[t] \in Store
  BY DEF BrowserInv, BrowserTypes
<1>1. r.version <= tab'[t].meVersion /\ r.revision <= tab'[t].revision
  BY <1>0 DEF RequestKnows, Request, Store
<1>2. r.kind = "login" => r.answer # "denied"
  BY <1>0 DEF RequestKnows
<1>3. ASSUME Fresh(r)' PROVE ~LoggedOut(t)' /\ (r.answer \in Users => Vouched(t, r.answer)')
  <2>1. ~(tab'[t].meVersion > tab[t].meVersion) /\ tab'[t].meVersion = tab[t].meVersion
    BY <1>0, <1>3 DEF Fresh, RequestKnows, Request, Store
  <2>2. Fresh(r)
    BY <1>3, <2>1 DEF Fresh
  <2>3. ~LoggedOut(t) /\ (r.answer \in Users => Vouched(t, r.answer))
    BY <1>0, <2>2 DEF RequestKnows
  <2> QED
    BY <2>1, <2>3, VouchedKept, LoggedOutKept
<1>4. ASSUME SameUser(r)'
      PROVE  tab'[t].user # Nobody /\ (r.answer \in Users => Vouched(t, r.answer)')
  <2>1. ~(tab'[t].revision > tab[t].revision) /\ tab'[t].revision = tab[t].revision
    BY <1>0, <1>4 DEF SameUser, RequestKnows, Request, Store
  <2>2. SameUser(r)
    BY <1>4, <2>1 DEF SameUser
  <2>3. tab[t].user # Nobody /\ (r.answer \in Users => Vouched(t, r.answer))
    BY <1>0, <2>2 DEF RequestKnows
  <2> QED
    BY <2>1, <2>3, VouchedKept
<1>5. ASSUME Signed(r)
      PROVE  \/ r.answer = cookie' \/ cookie' = Nobody \/ notices'[t] > 0
             \/ \E s \in requests' : Signed(s) /\ s # r
  BY <1>5, SignedKept
<1> QED
  BY <1>1, <1>2, <1>3, <1>4, <1>5 DEF RequestKnows, Fresh, SameUser, Signed

\* A tab whose store does not change.
LEMMA SameTab ==
  ASSUME BrowserInv, BrowserTypes', NEW u \in Tabs, tab'[u] = tab[u], Calm(u), Unmarked(u)
  PROVE  /\ Vouched(u, tab[u].user)'
         /\ LoggedOut(u)' => tab'[u].user = Nobody
         /\ \A r \in requests \cap requests' : r.tab = u => RequestKnows(r)'
<1>1. Vouched(u, tab[u].user)'
  BY VouchedKept DEF BrowserInv
<1>2. LoggedOut(u)' => tab'[u].user = Nobody
  BY LoggedOutKept DEF BrowserInv, LoggedOutTabsShowNobody, LoggedOut
<1>3. tab[u] \in Store
  BY DEF BrowserInv, BrowserTypes
<1>4. tab'[u].meVersion >= tab[u].meVersion /\ tab'[u].revision >= tab[u].revision
  BY <1>3 DEF Store
<1>5. ASSUME NEW r \in requests, r \in requests', r.tab = u
      PROVE  RequestKnows(r)'
  BY <1>4, <1>5, ChangedTab
<1> QED
  BY <1>1, <1>2, <1>5

\* What is left to show for a step that changes the store of tab t only.
LEMMA StepOfTab ==
  ASSUME BrowserInv, BrowserTypes', NEW t \in Tabs,
         \A u \in Tabs \ {t} : tab'[u] = tab[u] /\ Calm(u) /\ Unmarked(u),
         \A r \in requests' : r \in requests \/ (~r.arrived /\ RequestKnows(r)'),
         \A r \in requests \cap requests' : r.tab = t => RequestKnows(r)',
         Vouched(t, tab[t].user)', LoggedOut(t)' => tab'[t].user = Nobody
  PROVE  BrowserInv'
<1>1. OneArrived'
  BY DEF BrowserInv, OneArrived
<1>2. \A u \in Tabs : Vouched(u, tab[u].user)' /\ (LoggedOut(u)' => tab'[u].user = Nobody)
  BY SameTab
<1>3. LoggedOutTabsShowNobody'
  BY <1>2 DEF LoggedOutTabsShowNobody, LoggedOut
<1>4. ASSUME NEW r \in requests' PROVE RequestKnows(r)'
  <2>1. CASE r \notin requests
    BY <2>1
  <2>2. CASE r \in requests
    <3>1. r.tab \in Tabs
      BY <2>2 DEF BrowserInv, BrowserTypes, Request
    <3> QED
      BY <2>2, <3>1, SameTab
  <2> QED
    BY <2>1, <2>2
<1> QED
  BY <1>1, <1>2, <1>3, <1>4 DEF BrowserInv

LEMMA StepOfNoTab ==
  ASSUME BrowserInv, BrowserTypes', tab' = tab, \A u \in Tabs : Calm(u) /\ Unmarked(u),
         \A r \in requests' : r \in requests \/ (~r.arrived /\ RequestKnows(r)')
  PROVE  BrowserInv'
<1>1. OneArrived'
  BY DEF BrowserInv, OneArrived
<1>2. \A u \in Tabs : Vouched(u, tab[u].user)' /\ (LoggedOut(u)' => tab'[u].user = Nobody)
  BY SameTab
<1>3. LoggedOutTabsShowNobody'
  BY <1>2 DEF LoggedOutTabsShowNobody, LoggedOut
<1>4. ASSUME NEW r \in requests' PROVE RequestKnows(r)'
  <2>1. CASE r \notin requests
    BY <2>1
  <2>2. CASE r \in requests
    <3>1. r.tab \in Tabs
      BY <2>2 DEF BrowserInv, BrowserTypes, Request
    <3> QED
      BY <2>2, <3>1, SameTab
  <2> QED
    BY <2>1, <2>2
<1> QED
  BY <1>1, <1>2, <1>3, <1>4 DEF BrowserInv

-----------------------------------------------------------------------------
(* What the user does.                                                       *)

\* fetchMe, called with the store s, in which the session may be new.
LEMMA FetchMeKeeps ==
  ASSUME BrowserInv, NEW t \in Tabs, NEW s \in Store, FetchMe(t, s),
         s.pending = tab[t].pending,
         s.meVersion >= tab[t].meVersion, s.revision >= tab[t].revision,
         s.user # tab[t].user => s.revision > tab[t].revision,
         UNCHANGED <<cookie, pending>>, notices' \in [Tabs -> Nat],
         \A u \in Tabs \ {t} : notices'[u] = notices[u],
         \/ s = tab[t] /\ notices' = notices
         \/ /\ s.user = Nobody /\ s.revision > tab[t].revision
            /\ \A r \in requests : r.tab = t => ~r.arrived
  PROVE  BrowserInv'
<1> DEFINE next == Outdated(s)
           last == IF LocalLogoutPending(t) THEN WithUser(next, Nobody, FALSE) ELSE next
<1>1. BrowserTypes
  BY DEF BrowserInv
<1>2. tab[t] \in Store
  BY <1>1 DEF BrowserTypes
<1>3. /\ next \in Store /\ next.user = s.user /\ next.meVersion > s.meVersion
      /\ next.pending = s.pending /\ next.revision = s.revision
  BY OutdatedType
<1>4. /\ last \in Store /\ last.meVersion = next.meVersion /\ last.pending = s.pending
      /\ last.revision >= s.revision
      /\ last.user = IF LocalLogoutPending(t) THEN Nobody ELSE s.user
      /\ last.user # s.user => last.revision > s.revision
  <2>1. FALSE \in BOOLEAN /\ Nobody \in Users \cup {Nobody}
    OBVIOUS
  <2>2. CASE LocalLogoutPending(t)
    BY <1>3, <2>1, <2>2, WithUserType
  <2>3. CASE ~LocalLogoutPending(t)
    BY <1>3, <2>3 DEF Store
  <2> QED
    BY <2>2, <2>3
<1>5. tab' = [tab EXCEPT ![t] = last]
  BY DEF FetchMe
<1>6. PICK new \in SUBSET Request :
        /\ requests' = requests \cup new
        /\ \/ new = {}
           \/ ~LocalLogoutPending(t) /\ \E a \in Answers : new = {Sent(t, next, "me", a)}
  <2>1. CASE LocalLogoutPending(t)
    <3>1. requests' = requests \cup {}
      BY <2>1 DEF FetchMe
    <3> WITNESS {} \in SUBSET Request
    <3> QED
      BY <3>1
  <2>2. CASE ~LocalLogoutPending(t)
    <3>1. PICK a \in Answers : requests' = requests \cup {Sent(t, next, "me", a)}
      BY <2>2 DEF FetchMe
    <3>2. {Sent(t, next, "me", a)} \in SUBSET Request
      BY <1>1, <1>3, AnswersType DEF Sent, Request, Store
    <3> QED
      BY <2>2, <3>1, <3>2
  <2> QED
    BY <2>1, <2>2
<1> HIDE DEF next, last
<1>7. BrowserTypes'
  BY <1>1, <1>4, <1>5, <1>6 DEF BrowserTypes
<1>8. tab'[t] = last /\ \A u \in Tabs \ {t} : tab'[u] = tab[u]
  BY <1>1, <1>5 DEF BrowserTypes
<1>9. \A u \in Tabs \ {t} : Calm(u) /\ Unmarked(u)
  BY <1>6 DEF Calm, Unmarked
<1>10. ASSUME NEW r \in requests', r \notin requests
       PROVE  ~r.arrived /\ RequestKnows(r)'
  <2>1. PICK a \in Answers : r = Sent(t, next, "me", a) /\ ~LocalLogoutPending(t)
    BY <1>6, <1>10
  <2>2. a \in Users \cup {"denied", "failed"} /\ (a \in Users => a = cookie)
    BY <1>1, AnswersType
  <2>3. /\ r.tab = t /\ r.kind = "me" /\ r.version = next.meVersion
        /\ r.revision = next.revision /\ r.answer = a /\ r.arrived = FALSE
    BY <2>1 DEF Sent
  <2>4. r.version <= tab'[t].meVersion /\ r.revision <= tab'[t].revision
    BY <1>3, <1>4, <1>8, <2>3 DEF Store
  <2>5. ~LoggedOut(t)'
    BY <1>4, <1>8, <2>1 DEF LoggedOut, LocalLogoutPending
  <2>6. a \in Users => Vouched(t, a)'
    BY <2>2 DEF Vouched
  <2> QED
    BY <2>3, <2>4, <2>5, <2>6 DEF RequestKnows, Fresh, SameUser, Signed
<1>11. Vouched(t, tab[t].user)' /\ (LoggedOut(t)' => tab'[t].user = Nobody)
  <2>1. CASE LocalLogoutPending(t) \/ s.user = Nobody
    BY <1>4, <1>8, <2>1 DEF Vouched
  <2>2. CASE ~LocalLogoutPending(t) /\ s = tab[t] /\ notices' = notices
    <3>1. last.user = tab[t].user /\ Vouched(t, tab[t].user)
      BY <1>4, <2>2 DEF BrowserInv
    <3>2. Calm(t)
      BY <1>6, <2>2 DEF Calm
    <3>3. ~LoggedOut(t)'
      BY <1>4, <1>8, <2>2 DEF LoggedOut, LocalLogoutPending
    <3> QED
      BY <1>7, <1>8, <3>1, <3>2, <3>3, VouchedKept
  <2> QED
    BY <2>1, <2>2
<1>12. ASSUME NEW r \in requests, r \in requests', r.tab = t PROVE RequestKnows(r)'
  <2>1. /\ tab'[t].meVersion > tab[t].meVersion /\ tab'[t].meVersion >= tab[t].meVersion
        /\ tab'[t].revision >= tab[t].revision
        /\ tab'[t].user # tab[t].user => tab'[t].revision > tab[t].revision
    BY <1>2, <1>3, <1>4, <1>8 DEF Store
  <2>2. CASE s = tab[t] /\ notices' = notices
    <3>1. Calm(t)
      BY <1>6, <2>2 DEF Calm
    <3> QED
      BY <1>2, <1>7, <1>12, <2>1, <3>1, ChangedTab
  <2>3. CASE s.revision > tab[t].revision /\ \A q \in requests : q.tab = t => ~q.arrived
    <3>1. tab'[t].revision > tab[t].revision
      BY <1>2, <1>3, <1>4, <1>8, <2>3 DEF Store
    <3>2. \A q \in requests' : Signed(q) => q.tab # t
      BY <1>10, <2>3 DEF Signed
    <3> QED
      BY <1>2, <1>7, <1>12, <2>1, <3>1, <3>2, ChangedTab
  <2> QED
    BY <2>2, <2>3
<1> QED
  BY <1>7, <1>8, <1>9, <1>10, <1>11, <1>12, StepOfTab

LEMMA MountPageKeeps ==
  ASSUME BrowserInv, NEW t \in Tabs, MountPage(t) PROVE BrowserInv'
<1>1. tab[t] \in Store
  BY DEF BrowserInv, BrowserTypes
<1>2. tab[t].meVersion >= tab[t].meVersion /\ tab[t].revision >= tab[t].revision
  BY <1>1 DEF Store
<1>3. FetchMe(t, tab[t]) /\ UNCHANGED <<cookie, pending, notices>>
  BY DEF MountPage
<1> QED
  BY <1>1, <1>2, <1>3, FetchMeKeeps DEF BrowserInv, BrowserTypes

LEMMA HandleNoticeKeeps ==
  ASSUME BrowserInv, NEW t \in Tabs, HandleNotice(t) PROVE BrowserInv'
<1> DEFINE s == WithUser(Outdated(tab[t]), Nobody, TRUE)
<1>1. BrowserTypes /\ tab[t] \in Store
  BY DEF BrowserInv, BrowserTypes
<1>2. /\ s \in Store /\ s.user = Nobody /\ s.pending = tab[t].pending
      /\ s.meVersion > tab[t].meVersion /\ s.revision > tab[t].revision
  <2>1. TRUE \in BOOLEAN /\ Nobody \in Users \cup {Nobody}
    OBVIOUS
  <2> QED
    BY <1>1, <2>1, OutdatedType, WithUserType
<1>5. FetchMe(t, s)
  BY DEF HandleNotice
<1> HIDE DEF s
<1>3. s.meVersion >= tab[t].meVersion /\ s.revision >= tab[t].revision
  BY <1>1, <1>2 DEF Store
<1>4. /\ UNCHANGED <<cookie, pending>>
      /\ notices' \in [Tabs -> Nat]
      /\ \A u \in Tabs \ {t} : notices'[u] = notices[u]
      /\ \A r \in requests : r.tab = t => ~r.arrived
  BY <1>1 DEF HandleNotice, InOrder, BrowserTypes
<1> QED
  BY <1>1, <1>2, <1>3, <1>4, <1>5, FetchMeKeeps

LEMMA LoginKeeps ==
  ASSUME BrowserInv, NEW t \in Tabs, Login(t) PROVE BrowserInv'
<1> DEFINE next == Outdated(tab[t])
<1>1. BrowserTypes /\ tab[t] \in Store
  BY DEF BrowserInv, BrowserTypes
<1>2. /\ next \in Store /\ next.user = tab[t].user /\ next.meVersion > tab[t].meVersion
      /\ next.pending = tab[t].pending /\ next.revision = tab[t].revision
  BY <1>1, OutdatedType
<1>3. PICK a \in Users \cup {"failed"} :
        requests' = requests \cup {Sent(t, next, "login", a)}
  BY DEF Login
<1>4. /\ tab' = [tab EXCEPT ![t] = next] /\ tab[t].user = Nobody
      /\ UNCHANGED <<cookie, pending, notices>>
  BY DEF Login
<1>5. Sent(t, next, "login", a) \in Request
  BY <1>2 DEF Sent, Request, Store
<1> HIDE DEF next
<1>6. BrowserTypes' /\ tab'[t] = next /\ \A u \in Tabs \ {t} : tab'[u] = tab[u]
  BY <1>1, <1>2, <1>3, <1>4, <1>5 DEF BrowserTypes
<1>7. \A u \in Tabs : Calm(u) /\ Unmarked(u)
  BY <1>3, <1>4 DEF Calm, Unmarked
<1>8. ASSUME NEW r \in requests', r \notin requests
      PROVE  ~r.arrived /\ RequestKnows(r)'
  <2>1. /\ r.tab = t /\ r.kind = "login" /\ r.version = next.meVersion
        /\ r.revision = next.revision /\ r.answer = a /\ r.arrived = FALSE
    BY <1>3, <1>8 DEF Sent
  <2>2. a # "denied"
    BY BrowserSessionAssumption
  <2>3. r.version <= tab'[t].meVersion /\ r.revision <= tab'[t].revision
    BY <1>2, <1>6, <2>1 DEF Store
  <2> QED
    BY <2>1, <2>2, <2>3 DEF RequestKnows, Fresh, SameUser, Signed
<1>9. /\ tab'[t].meVersion > tab[t].meVersion /\ tab'[t].meVersion >= tab[t].meVersion
      /\ tab'[t].revision >= tab[t].revision /\ tab'[t].user = Nobody
      /\ tab[t].user = Nobody
  BY <1>1, <1>2, <1>4, <1>6 DEF Store
<1>10. \A r \in requests \cap requests' : r.tab = t => RequestKnows(r)'
  BY <1>6, <1>7, <1>9, ChangedTab
<1>11. Vouched(t, tab[t].user)' /\ (LoggedOut(t)' => tab'[t].user = Nobody)
  BY <1>9 DEF Vouched
<1> QED
  BY <1>6, <1>7, <1>8, <1>10, <1>11, StepOfTab

LEMMA AskAsUserKeeps ==
  ASSUME BrowserInv, NEW t \in Tabs, NEW kind \in {"profile", "other"}, AskAsUser(t, kind)
  PROVE  BrowserInv'
<1>1. BrowserTypes /\ tab[t] \in Store
  BY DEF BrowserInv, BrowserTypes
<1>2. PICK a \in Answers : requests' = requests \cup {Sent(t, tab[t], kind, a)}
  BY DEF AskAsUser
<1>3. tab[t].user # Nobody /\ UNCHANGED <<cookie, pending, tab, notices>>
  BY DEF AskAsUser
<1>4. a \in Users \cup {"denied", "failed"} /\ (a \in Users => a = cookie)
  BY <1>1, AnswersType
<1>5. Sent(t, tab[t], kind, a) \in Request
  BY <1>1, <1>4 DEF Sent, Request, Store
<1>6. BrowserTypes'
  BY <1>1, <1>2, <1>3, <1>5 DEF BrowserTypes
<1>7. \A u \in Tabs : Calm(u) /\ Unmarked(u)
  BY <1>2, <1>3 DEF Calm, Unmarked
<1>8. ASSUME NEW r \in requests', r \notin requests
      PROVE  ~r.arrived /\ RequestKnows(r)'
  <2>1. /\ r.tab = t /\ r.kind = kind /\ r.version = tab[t].meVersion
        /\ r.revision = tab[t].revision /\ r.answer = a /\ r.arrived = FALSE
    BY <1>2, <1>8 DEF Sent
  <2>2. r.version <= tab'[t].meVersion /\ r.revision <= tab'[t].revision
    BY <1>1, <1>3, <2>1 DEF Store
  <2>3. a \in Users => Vouched(t, a)'
    BY <1>3, <1>4 DEF Vouched
  <2> QED
    BY <1>3, <2>1, <2>2, <2>3 DEF RequestKnows, Fresh, SameUser, Signed
<1> QED
  BY <1>3, <1>6, <1>7, <1>8, StepOfNoTab

\* A tab that shows nobody from now on, in a new revision if it showed a user.
LEMMA ForgetKeeps ==
  ASSUME BrowserInv, BrowserTypes', NEW t \in Tabs,
         \A u \in Tabs \ {t} : tab'[u] = tab[u] /\ notices'[u] > 0,
         notices'[t] = notices[t], cookie' = cookie,
         tab'[t].user = Nobody, tab'[t].meVersion > tab[t].meVersion,
         tab'[t].revision > tab[t].revision,
         \A r \in requests : Signed(r) => r \in requests',
         \A r \in requests' : r \in requests \/ (~r.arrived /\ RequestKnows(r)')
  PROVE  BrowserInv'
<1>1. tab[t] \in Store /\ tab'[t] \in Store
  BY DEF BrowserInv, BrowserTypes
<1>2. tab'[t].meVersion >= tab[t].meVersion /\ tab'[t].revision >= tab[t].revision
  BY <1>1 DEF Store
<1>3. /\ \A u \in Tabs : Calm(u)
      /\ \A u \in Tabs \ {t} : Unmarked(u)
  BY DEF Calm, Unmarked
<1>4. \A r \in requests \cap requests' : r.tab = t => RequestKnows(r)'
  BY <1>2, <1>3, ChangedTab
<1>5. Vouched(t, tab[t].user)' /\ (LoggedOut(t)' => tab'[t].user = Nobody)
  BY DEF Vouched
<1> QED
  BY <1>3, <1>4, <1>5, StepOfTab

LEMMA LogoutKeeps ==
  ASSUME BrowserInv, NEW t \in Tabs, Logout(t) PROVE BrowserInv'
<1> DEFINE s == [Outdated(tab[t]) EXCEPT !.pending = TRUE]
           last == LogoutStore(t)
<1>1. BrowserTypes /\ tab[t] \in Store
  BY DEF BrowserInv, BrowserTypes
<1>2. /\ s \in Store /\ s.user = tab[t].user /\ s.meVersion > tab[t].meVersion
      /\ s.revision = tab[t].revision
  <2> DEFINE next == Outdated(tab[t])
  <2>1. /\ next \in Store /\ next.user = tab[t].user /\ next.meVersion > tab[t].meVersion
        /\ next.revision = tab[t].revision
    BY <1>1, OutdatedType
  <2> HIDE DEF next
  <2>2. /\ [next EXCEPT !.pending = TRUE] \in Store
        /\ [next EXCEPT !.pending = TRUE].user = next.user
        /\ [next EXCEPT !.pending = TRUE].meVersion = next.meVersion
        /\ [next EXCEPT !.pending = TRUE].revision = next.revision
    BY <2>1 DEF Store
  <2> QED
    BY <2>1, <2>2 DEF next
<1>3. /\ last \in Store /\ last.user = Nobody /\ last.meVersion > tab[t].meVersion
      /\ last.revision > tab[t].revision
  <2>1. TRUE \in BOOLEAN /\ Nobody \in Users \cup {Nobody}
    OBVIOUS
  <2>2. last = WithUser(s, Nobody, TRUE)
    BY DEF LogoutStore
  <2> HIDE DEF s, last
  <2> QED
    BY <1>2, <2>1, <2>2, WithUserType
<1>4. PICK a \in Answers : requests' = requests \cup {Sent(t, last, "logout", a)}
  BY DEF Logout
<1>5. /\ tab' = [tab EXCEPT ![t] = last] /\ notices' = PublishedBy(t)
      /\ pending' = TRUE /\ cookie' = cookie
  BY DEF Logout
<1> HIDE DEF s, last
<1>6. a \in Users \cup {"denied", "failed"}
  BY <1>1, AnswersType
<1>7. Sent(t, last, "logout", a) \in Request
  BY <1>3, <1>6 DEF Sent, Request, Store
<1>8. /\ BrowserTypes' /\ tab'[t] = last /\ notices'[t] = notices[t]
      /\ \A u \in Tabs \ {t} : tab'[u] = tab[u] /\ notices'[u] > 0
  BY <1>1, <1>3, <1>4, <1>5, <1>7 DEF BrowserTypes, PublishedBy
<1>9. ASSUME NEW r \in requests', r \notin requests
      PROVE  ~r.arrived /\ RequestKnows(r)'
  <2>1. /\ r.tab = t /\ r.kind = "logout" /\ r.version = last.meVersion
        /\ r.revision = last.revision /\ r.arrived = FALSE
    BY <1>4, <1>9 DEF Sent
  <2>2. r.version <= tab'[t].meVersion /\ r.revision <= tab'[t].revision
    BY <1>3, <1>8, <2>1 DEF Store
  <2> QED
    BY <2>1, <2>2 DEF RequestKnows, Fresh, SameUser, Signed
<1> QED
  BY <1>3, <1>4, <1>5, <1>8, <1>9, ForgetKeeps

-----------------------------------------------------------------------------
(* What arrives.                                                             *)

LEMMA ArriveKeeps ==
  ASSUME BrowserInv, NEW r \in requests, Arrive(r) PROVE BrowserInv'
<1> DEFINE new == [r EXCEPT !.arrived = TRUE]
<1>1. /\ BrowserTypes /\ r \in Request /\ RequestKnows(r)
      /\ r.kind \in {"login", "logout"} /\ InOrder(r.tab)
      /\ requests' = (requests \ {r}) \cup {new}
      /\ UNCHANGED <<pending, tab, notices>>
  BY DEF BrowserInv, BrowserTypes, Arrive
<1>2. /\ new \in Request /\ new.tab = r.tab /\ new.kind = r.kind /\ new.answer = r.answer
      /\ new.version = r.version /\ new.revision = r.revision /\ new.arrived = TRUE
  BY <1>1 DEF Request
<1> HIDE DEF new
<1>3. \A q \in requests : q.arrived => q.tab # r.tab
  BY <1>1 DEF InOrder
<1>4. cookie' \in Users \cup {Nobody} /\ (cookie' \in {cookie, Nobody} \/ Signed(new))
  <2>1. CASE r.answer = "failed" \/ r.kind = "logout"
    BY <1>1, <2>1 DEF Arrive, BrowserTypes
  <2>2. CASE r.answer # "failed" /\ r.kind = "login"
    <3>1. r.answer \in Users /\ cookie' = r.answer
      BY <1>1, <2>2 DEF Arrive, RequestKnows, Request
    <3> QED
      BY <1>2, <2>2, <3>1 DEF Signed
  <2> QED
    BY <1>1, <2>1, <2>2
<1>5. BrowserTypes'
  BY <1>1, <1>2, <1>4 DEF BrowserTypes
<1>6. OneArrived'
  BY <1>1, <1>2, <1>3 DEF BrowserInv, OneArrived
<1>7. /\ \A q \in requests : Signed(q) => q \in requests' /\ q # new
      /\ new \in requests'
  BY <1>1, <1>2, <1>3 DEF Signed
<1>8. ASSUME NEW u \in Tabs, NEW a, Vouched(u, a) PROVE Vouched(u, a)'
  BY <1>1, <1>4, <1>7, <1>8 DEF Vouched, WillAsk, Signed
<1>9. \A u \in Tabs : LoggedOut(u)' <=> LoggedOut(u)
  BY <1>1 DEF LoggedOut
<1>10. LoggedOutTabsShowNobody'
  BY <1>1 DEF BrowserInv, LoggedOutTabsShowNobody
<1>11. \A u \in Tabs : Vouched(u, tab[u].user)'
  BY <1>1, <1>8 DEF BrowserInv
<1>12. ASSUME NEW q \in requests' PROVE RequestKnows(q)'
  <2>1. CASE q = new
    <3>1. Signed(new) => r.answer = cookie'
      BY <1>1, <1>2, BrowserSessionAssumption DEF Signed, Arrive
    <3> QED
      BY <1>1, <1>2, <2>1, <3>1 DEF RequestKnows, Fresh, SameUser, Signed
  <2>2. CASE q # new
    <3>1. q \in requests /\ RequestKnows(q) /\ q.tab \in Tabs
      BY <1>1, <2>2 DEF BrowserInv, BrowserTypes, Request
    <3>2. Fresh(q)' => ~LoggedOut(q.tab)' /\ (q.answer \in Users => Vouched(q.tab, q.answer)')
      BY <1>1, <1>8, <1>9, <3>1 DEF Fresh, RequestKnows
    <3>3. SameUser(q)' => tab[q.tab].user # Nobody
                           /\ (q.answer \in Users => Vouched(q.tab, q.answer)')
      BY <1>1, <1>8, <3>1 DEF SameUser, RequestKnows
    <3>4. Signed(q) => \/ q.answer = cookie' \/ cookie' = Nobody \/ notices[q.tab] > 0
                       \/ \E s \in requests' : Signed(s) /\ s # q
      BY <1>4, <1>7, <3>1 DEF RequestKnows
    <3> QED
      BY <1>1, <3>1, <3>2, <3>3, <3>4 DEF RequestKnows, Fresh, SameUser, Signed
  <2> QED
    BY <2>1, <2>2
<1> QED
  BY <1>5, <1>6, <1>10, <1>11, <1>12 DEF BrowserInv

LEMMA HandleLoginKeeps ==
  ASSUME BrowserInv, NEW r \in requests, HandleLogin(r) PROVE BrowserInv'
<1> DEFINE t == r.tab
           s == [Outdated(tab[t]) EXCEPT !.pending = FALSE]
           last == WithUser(s, r.answer, TRUE)
<1>1. /\ BrowserTypes /\ r \in Request /\ RequestKnows(r) /\ t \in Tabs /\ tab[t] \in Store
      /\ r.kind = "login" /\ r.arrived
      /\ requests' = requests \ {r} /\ cookie' = cookie
  BY DEF BrowserInv, BrowserTypes, HandleLogin, Request
<1>2. CASE r.answer = "failed"
  <2>1. ~Signed(r) /\ UNCHANGED <<pending, tab, notices>>
    BY <1>2, BrowserSessionAssumption DEF Signed, HandleLogin
  <2>2. BrowserTypes'
    BY <1>1, <2>1 DEF BrowserTypes
  <2>3. \A u \in Tabs : Calm(u) /\ Unmarked(u)
    BY <1>1, <2>1 DEF Calm, Unmarked
  <2> QED
    BY <1>1, <2>1, <2>2, <2>3, StepOfNoTab
<1>3. CASE r.answer # "failed"
  <2>1. r.answer \in Users /\ Signed(r)
    BY <1>1, <1>3 DEF Request, RequestKnows, Signed
  <2>2. pending' = FALSE /\ tab' = [tab EXCEPT ![t] = last] /\ notices' = PublishedBy(t)
    BY <1>3 DEF HandleLogin
  <2>3. /\ s \in Store /\ s.meVersion > tab[t].meVersion /\ s.pending = FALSE
        /\ s.revision = tab[t].revision
    <3> DEFINE next == Outdated(tab[t])
    <3>1. /\ next \in Store /\ next.meVersion > tab[t].meVersion
          /\ next.revision = tab[t].revision
      BY <1>1, OutdatedType
    <3> HIDE DEF next
    <3>2. /\ [next EXCEPT !.pending = FALSE] \in Store
          /\ [next EXCEPT !.pending = FALSE].pending = FALSE
          /\ [next EXCEPT !.pending = FALSE].meVersion = next.meVersion
          /\ [next EXCEPT !.pending = FALSE].revision = next.revision
      BY <3>1 DEF Store
    <3> QED
      BY <3>1, <3>2 DEF next
  <2> HIDE DEF s
  <2>4. /\ last \in Store /\ last.user = r.answer /\ last.meVersion > tab[t].meVersion
        /\ last.pending = FALSE /\ last.revision > tab[t].revision
    <3>1. TRUE \in BOOLEAN /\ r.answer \in Users \cup {Nobody}
      BY <2>1
    <3> QED
      BY <2>3, <3>1, WithUserType
  <2> HIDE DEF last
  <2>5. /\ BrowserTypes' /\ tab'[t] = last /\ notices'[t] = notices[t]
        /\ \A u \in Tabs \ {t} : tab'[u] = tab[u] /\ notices'[u] > 0
    <3>1. PublishedBy(t) \in [Tabs -> Nat]
      BY <1>1 DEF BrowserTypes, PublishedBy
    <3>2. tab' \in [Tabs -> Store] /\ tab'[t] = last
          /\ \A u \in Tabs \ {t} : tab'[u] = tab[u]
      BY <1>1, <2>2, <2>4 DEF BrowserTypes
    <3>3. notices'[t] = notices[t] /\ \A u \in Tabs \ {t} : notices'[u] > 0
      BY <1>1, <2>2 DEF BrowserTypes, PublishedBy
    <3> QED
      BY <1>1, <2>2, <3>1, <3>2, <3>3 DEF BrowserTypes
  <2>6. \A u \in Tabs \ {t} : Calm(u) /\ Unmarked(u)
    BY <2>5 DEF Calm, Unmarked
  <2>7. \A q \in requests' : Signed(q) => q.tab # t
    BY <1>1 DEF BrowserInv, OneArrived, Signed
  <2>8. /\ tab'[t].meVersion > tab[t].meVersion /\ tab'[t].meVersion >= tab[t].meVersion
        /\ tab'[t].revision > tab[t].revision /\ tab'[t].revision >= tab[t].revision
    BY <1>1, <2>4, <2>5 DEF Store
  <2>9. \A q \in requests \cap requests' : q.tab = t => RequestKnows(q)'
    BY <1>1, <2>5, <2>7, <2>8, ChangedTab
  <2>10. Vouched(t, tab[t].user)'
    <3>1. \/ r.answer = cookie \/ cookie = Nobody \/ notices[t] > 0
          \/ \E q \in requests' : Signed(q)
      BY <1>1, <2>1 DEF RequestKnows
    <3> QED
      BY <1>1, <2>4, <2>5, <3>1 DEF Vouched, WillAsk, Signed
  <2>11. ~LoggedOut(t)'
    BY <2>2, <2>4, <2>5 DEF LoggedOut
  <2> HIDE DEF t
  <2> QED
    BY <1>1, <2>5, <2>6, <2>9, <2>10, <2>11, StepOfTab
<1> QED
  BY <1>2, <1>3

LEMMA HandleLogoutKeeps ==
  ASSUME BrowserInv, NEW r \in requests, HandleLogout(r) PROVE BrowserInv'
<1>1. /\ BrowserTypes /\ requests' = requests \ {r} /\ ~Signed(r)
      /\ UNCHANGED <<cookie, pending, tab, notices>>
  BY DEF BrowserInv, HandleLogout, Signed
<1>2. BrowserTypes' /\ \A u \in Tabs : Calm(u) /\ Unmarked(u)
  BY <1>1 DEF BrowserTypes, Calm, Unmarked
<1> QED
  BY <1>1, <1>2, StepOfNoTab

\* The answer of r, which ends the session or shows user u, is handled.
LEMMA EndSessionKeeps ==
  ASSUME BrowserInv, NEW r \in requests, r.kind # "login", EndsSession(r), EndSession(r.tab),
         requests' = requests \ {r}, UNCHANGED <<cookie, pending>>
  PROVE  BrowserInv'
<1> DEFINE t == r.tab
           last == WithUser(Outdated(tab[t]), Nobody, FALSE)
<1>1. BrowserTypes /\ t \in Tabs /\ tab[t] \in Store /\ tab[t].user # Nobody
  BY DEF BrowserInv, BrowserTypes, Request, EndsSession
<1>2. /\ last \in Store /\ last.user = Nobody /\ last.meVersion > tab[t].meVersion
      /\ last.revision > tab[t].revision
  <2>1. FALSE \in BOOLEAN /\ Nobody \in Users \cup {Nobody}
    OBVIOUS
  <2> QED
    BY <1>1, <2>1, OutdatedType, WithUserType
<1>3. tab' = [tab EXCEPT ![t] = last] /\ notices' = PublishedBy(t)
  BY DEF EndSession
<1> HIDE DEF last
<1>4. /\ BrowserTypes' /\ tab'[t] = last /\ notices'[t] = notices[t]
      /\ \A u \in Tabs \ {t} : tab'[u] = tab[u] /\ notices'[u] > 0
  BY <1>1, <1>2, <1>3 DEF BrowserTypes, PublishedBy
<1>5. \A q \in requests : Signed(q) => q \in requests'
  BY DEF Signed
<1> HIDE DEF t
<1> QED
  BY <1>1, <1>2, <1>4, <1>5, ForgetKeeps

LEMMA ShowKeeps ==
  ASSUME BrowserInv, NEW r \in requests, r.kind # "login", requests' = requests \ {r},
         UNCHANGED <<cookie, pending, notices>>, NEW t \in Tabs,
         NEW u \in Users \cup {Nobody}, u # Nobody => ~LoggedOut(t) /\ Vouched(t, u),
         tab' = [tab EXCEPT ![t] = WithUser(@, u, FALSE)]
  PROVE  BrowserInv'
<1> DEFINE last == WithUser(tab[t], u, FALSE)
<1>1. BrowserTypes /\ tab[t] \in Store
  BY DEF BrowserInv, BrowserTypes
<1>2. /\ last \in Store /\ last.user = u /\ last.meVersion = tab[t].meVersion
      /\ last.pending = tab[t].pending /\ last.revision >= tab[t].revision
      /\ tab[t].user # u => last.revision > tab[t].revision
  <2>1. FALSE \in BOOLEAN
    OBVIOUS
  <2> QED
    BY <1>1, <2>1, WithUserType
<1>3. tab' = [tab EXCEPT ![t] = last]
  OBVIOUS
<1> HIDE DEF last
<1>4. BrowserTypes' /\ tab'[t] = last /\ \A v \in Tabs \ {t} : tab'[v] = tab[v]
  BY <1>1, <1>2, <1>3 DEF BrowserTypes
<1>5. \A v \in Tabs : Calm(v) /\ Unmarked(v)
  BY DEF Calm, Unmarked, Signed
<1>6. tab'[t].meVersion >= tab[t].meVersion
  <2>1. tab[t].meVersion \in Nat
    BY <1>1 DEF Store
  <2>2. tab'[t].meVersion = tab[t].meVersion
    BY <1>2, <1>4
  <2>3. \A n \in Nat : n >= n
    OBVIOUS
  <2> QED
    BY <2>1, <2>2, <2>3
<1>7. \A q \in requests \cap requests' : q.tab = t => RequestKnows(q)'
  BY <1>2, <1>4, <1>5, <1>6, ChangedTab
<1>8. Vouched(t, tab[t].user)'
  <2>1. CASE u = Nobody
    BY <1>2, <1>4, <2>1 DEF Vouched
  <2>2. CASE u # Nobody
    <3>1. Vouched(t, u)'
      BY <1>4, <1>5, <2>2, VouchedKept
    <3> QED
      BY <1>2, <1>4, <3>1
  <2> QED
    BY <2>1, <2>2
<1>9. LoggedOut(t)' => tab'[t].user = Nobody
  BY <1>2, <1>4, <1>5, LoggedOutKept
<1> QED
  BY <1>4, <1>5, <1>7, <1>8, <1>9, StepOfTab

\* An answer that is not shown.
LEMMA IgnoreKeeps ==
  ASSUME BrowserInv, NEW r \in requests, r.kind # "login", requests' = requests \ {r},
         UNCHANGED <<cookie, pending, notices, tab>>
  PROVE  BrowserInv'
<1>1. BrowserTypes' /\ \A u \in Tabs : Calm(u) /\ Unmarked(u)
  BY DEF BrowserInv, BrowserTypes, Calm, Unmarked, Signed
<1> QED
  BY <1>1, StepOfNoTab

LEMMA HandleMeKeeps ==
  ASSUME BrowserInv, NEW r \in requests, HandleMe(r) PROVE BrowserInv'
<1>1. /\ r.kind = "me" /\ r.kind # "login" /\ requests' = requests \ {r}
      /\ UNCHANGED <<cookie, pending>> /\ r.tab \in Tabs /\ RequestKnows(r)
  BY DEF BrowserInv, BrowserTypes, Request, HandleMe
<1>2. CASE EndsSession(r)
  BY <1>1, <1>2, EndSessionKeeps DEF HandleMe
<1>3. CASE ~EndsSession(r) /\ AnswerIsCurrent(r) /\ r.answer \in Users
  <2>1. /\ tab' = [tab EXCEPT ![r.tab] = WithUser(@, r.answer, FALSE)]
        /\ notices' = notices
    BY <1>3 DEF HandleMe
  <2>2. ~LoggedOut(r.tab) /\ Vouched(r.tab, r.answer)
    BY <1>1, <1>3 DEF RequestKnows, Fresh, AnswerIsCurrent
  <2>3. r.answer \in Users \cup {Nobody}
    BY <1>3
  <2> QED
    BY <1>1, <2>1, <2>2, <2>3, ShowKeeps
<1>4. CASE /\ ~EndsSession(r) /\ AnswerIsCurrent(r)
           /\ r.answer \notin Users /\ r.answer = "denied"
  <2>1. /\ tab' = [tab EXCEPT ![r.tab] = WithUser(@, Nobody, FALSE)]
        /\ notices' = notices
    BY <1>4 DEF HandleMe
  <2>2. Nobody \in Users \cup {Nobody}
    OBVIOUS
  <2> QED
    BY <1>1, <2>1, <2>2, ShowKeeps
<1>5. CASE ~EndsSession(r) /\ ~AnswerIsCurrent(r)
  BY <1>1, <1>5, IgnoreKeeps DEF HandleMe
<1>6. CASE /\ ~EndsSession(r) /\ AnswerIsCurrent(r)
           /\ r.answer \notin Users /\ r.answer # "denied"
  BY <1>1, <1>6, IgnoreKeeps DEF HandleMe
<1> QED
  BY <1>2, <1>3, <1>4, <1>5, <1>6

LEMMA HandleOtherKeeps ==
  ASSUME BrowserInv, NEW r \in requests, HandleOther(r) PROVE BrowserInv'
<1> DEFINE Shown == r.kind = "profile" /\ r.answer \in Users /\ SameSession(r)
<1>1. /\ r.kind \in {"profile", "other"} /\ r.kind # "login"
      /\ requests' = requests \ {r}
      /\ UNCHANGED <<cookie, pending>> /\ r.tab \in Tabs /\ RequestKnows(r)
  BY DEF BrowserInv, BrowserTypes, Request, HandleOther
<1>2. CASE EndsSession(r)
  BY <1>1, <1>2, EndSessionKeeps DEF HandleOther
<1>3. CASE ~EndsSession(r) /\ Shown
  <2>1. /\ tab' = [tab EXCEPT ![r.tab] = WithUser(@, r.answer, FALSE)]
        /\ notices' = notices
    BY <1>3 DEF HandleOther
  <2>2. tab[r.tab].user # Nobody /\ Vouched(r.tab, r.answer)
    BY <1>1, <1>3 DEF RequestKnows, SameUser, SameSession
  <2>3. ~LoggedOut(r.tab)
    BY <1>1, <2>2 DEF BrowserInv, LoggedOutTabsShowNobody, LoggedOut
  <2>4. r.answer \in Users \cup {Nobody}
    BY <1>3
  <2> QED
    BY <1>1, <2>1, <2>2, <2>3, <2>4, ShowKeeps
<1>4. CASE ~EndsSession(r) /\ ~Shown
  BY <1>1, <1>4, IgnoreKeeps DEF HandleOther
<1> QED
  BY <1>2, <1>3, <1>4

LEMMA ExpireKeeps ==
  ASSUME BrowserInv, Expire PROVE BrowserInv'
<1>1. /\ BrowserTypes /\ cookie' = Nobody /\ UNCHANGED <<pending, tab, requests, notices>>
  BY DEF BrowserInv, Expire
<1>2. BrowserTypes' /\ \A u \in Tabs : Calm(u) /\ Unmarked(u)
  BY <1>1 DEF BrowserTypes, Calm, Unmarked
<1> QED
  BY <1>1, <1>2, StepOfNoTab

-----------------------------------------------------------------------------

\* What every answer under way may still do, for any number of tabs, accounts
\* and requests.
THEOREM BrowserInvariant == BrowserSpec => []BrowserInv
<1>1. BrowserInit => BrowserInv
  <2> SUFFICES ASSUME BrowserInit PROVE BrowserInv
    OBVIOUS
  <2>1. BrowserTypes
    BY DEF BrowserInit, BrowserTypes, Store
  <2>2. \A t \in Tabs : tab[t].user = Nobody
    BY DEF BrowserInit
  <2> QED
    BY <2>1, <2>2 DEF BrowserInit, BrowserInv, OneArrived, Vouched, LoggedOutTabsShowNobody
<1>2. BrowserInv /\ [BrowserNext]_browserVars => BrowserInv'
  <2> SUFFICES ASSUME BrowserInv, [BrowserNext]_browserVars PROVE BrowserInv'
    OBVIOUS
  <2>1. CASE UNCHANGED browserVars
    BY <2>1 DEF browserVars, BrowserInv, BrowserTypes, OneArrived, Vouched, WillAsk, Signed,
       LoggedOutTabsShowNobody, LoggedOut, RequestKnows, Fresh, SameUser
  <2>2. ASSUME NEW t \in Tabs,
               \/ MountPage(t) \/ Login(t) \/ Logout(t) \/ HandleNotice(t)
               \/ \E kind \in {"profile", "other"} : AskAsUser(t, kind)
        PROVE  BrowserInv'
    BY <2>2, MountPageKeeps, LoginKeeps, LogoutKeeps, HandleNoticeKeeps, AskAsUserKeeps
  <2>3. ASSUME NEW r \in requests,
               \/ Arrive(r) \/ HandleLogin(r) \/ HandleLogout(r)
               \/ HandleMe(r) \/ HandleOther(r)
        PROVE  BrowserInv'
    BY <2>3, ArriveKeeps, HandleLoginKeeps, HandleLogoutKeeps, HandleMeKeeps,
       HandleOtherKeeps
  <2> QED
    BY <2>1, <2>2, <2>3, ExpireKeeps DEF BrowserNext
<1> QED
  BY <1>1, <1>2, PTL DEF BrowserSpec

\* No late answer and no notice, in any tab, brings a former user back.
THEOREM NoFormerUserComesBack == BrowserSpec => []NoFormerUser
<1>1. BrowserInv => NoFormerUser
  <2> SUFFICES ASSUME BrowserInv, NEW t \in Tabs, notices[t] = 0,
                      \A r \in requests : r.tab # t /\ r.kind # "login"
               PROVE  tab[t].user \in {Nobody, cookie} \/ cookie = Nobody
    BY DEF BrowserInv, NoFormerUser, SettledTabsShowTheCookiesUser
  <2> QED
    BY DEF BrowserInv, Vouched, WillAsk, Signed, BrowserTypes
<1> QED
  BY <1>1, BrowserInvariant, PTL

-----------------------------------------------------------------------------
(* The daily maintenance.                                                    *)

Jobs == [Sessions -> [Kinds -> [Days -> JobState]]]

\* Attempt a belongs to the job of session s, kind k and day d.
Belongs(a, s, k, d) == a.s = s /\ a.k = k /\ a.d = d

\* A job has one attempt under way at most.
Alone ==
  \A a, b \in flight : Belongs(a, b.s, b.k, b.d) => a = b

\* A timer belongs to the current job, which has attempts left and none under
\* way.
TimersWait ==
  \A s \in Sessions, k \in Kinds, d \in Days : job[s][k][d].timer =>
    /\ IsCurrent(s, k, d)
    /\ job[s][k][d].attempts < MaxAttempts
    /\ \A a \in flight : ~Belongs(a, s, k, d)

\* A job counts its own calls, all that are made for its day.
Counted ==
  \A s \in Sessions, k \in Kinds, d \in Days :
    calls[s][k][d] = job[s][k][d].attempts /\ calls[s][k][d] <= MaxAttempts

\* No job of a former session, or of one to come, is registered.
OthersEnded ==
  \A s \in Sessions, k \in Kinds : s # session => registry[s][k] = NoDay

\* Days after the registered one, and sessions to come, have not begun.
ToCome(s, k, d) == s > session \/ (s = session /\ d > registry[s][k])

Unbegun ==
  \A s \in Sessions, k \in Kinds, d \in Days : ToCome(s, k, d) =>
    calls[s][k][d] = 0 /\ \A a \in flight : ~Belongs(a, s, k, d)

IInv == TypeOK /\ Alone /\ TimersWait /\ Counted /\ OthersEnded /\ Unbegun

-----------------------------------------------------------------------------
(* What the operations do to one job.                                        *)

\* Sessions and days are numbers.
LEMMA Numbers ==
  /\ Sessions \subseteq Nat
  /\ Days \subseteq Nat /\ NoDay \notin Days /\ NoDay \in Nat
  /\ \A d \in Days : d > NoDay
  /\ MaxAttempts \in Nat \ {0}
  BY MaintenanceAssumption DEF Days, NoDay

\* One entry of a table of jobs is replaced, and no other.
LEMMA OneEntry ==
  ASSUME NEW V, NEW f \in [Sessions -> [Kinds -> [Days -> V]]],
         NEW s0 \in Sessions, NEW k0 \in Kinds, NEW d0 \in Days, NEW v \in V
  PROVE  /\ [f EXCEPT ![s0][k0][d0] = v] \in [Sessions -> [Kinds -> [Days -> V]]]
         /\ [f EXCEPT ![s0][k0][d0] = v][s0][k0][d0] = v
         /\ \A s \in Sessions, k \in Kinds, d \in Days :
              ~(s = s0 /\ k = k0 /\ d = d0) =>
                [f EXCEPT ![s0][k0][d0] = v][s][k][d] = f[s][k][d]
<1> DEFINE byDay == [f[s0][k0] EXCEPT ![d0] = v]
           byKind == [f[s0] EXCEPT ![k0] = byDay]
           g == [f EXCEPT ![s0] = byKind]
<1>1. byDay \in [Days -> V] /\ byDay[d0] = v
      /\ \A d \in Days : d # d0 => byDay[d] = f[s0][k0][d]
  OBVIOUS
<1>2. byKind \in [Kinds -> [Days -> V]] /\ byKind[k0] = byDay
      /\ \A k \in Kinds : k # k0 => byKind[k] = f[s0][k]
  <2> HIDE DEF byDay
  <2> QED
    BY <1>1
<1>3. g \in [Sessions -> [Kinds -> [Days -> V]]] /\ g[s0] = byKind
      /\ \A s \in Sessions : s # s0 => g[s] = f[s]
  <2> HIDE DEF byKind
  <2> QED
    BY <1>2
<1>4. [f EXCEPT ![s0][k0][d0] = v] = g
  OBVIOUS
<1> HIDE DEF byDay, byKind, g
<1> QED
  BY <1>1, <1>2, <1>3, <1>4

LEMMA NewJobType == NewJob \in JobState
  BY DEF NewJob, JobState

\* retry() gives a timer to the job of the attempt, if it is current and has
\* attempts left, and changes nothing else.
LEMMA RetryEffect ==
  ASSUME TypeOK, NEW a \in flight
  PROVE  /\ Retry(a, job) \in Jobs
         /\ \A s \in Sessions, k \in Kinds, d \in Days :
              /\ Retry(a, job)[s][k][d].attempts = job[s][k][d].attempts
              /\ Retry(a, job)[s][k][d].retired = job[s][k][d].retired
              /\ Retry(a, job)[s][k][d].timer =>
                   \/ job[s][k][d].timer
                   \/ /\ Belongs(a, s, k, d) /\ IsCurrent(s, k, d)
                      /\ job[s][k][d].attempts < MaxAttempts
<1>1. a.s \in Sessions /\ a.k \in Kinds /\ a.d \in Days /\ job \in Jobs
  BY DEF TypeOK, Attempt, Jobs
<1>2. CASE IsCurrent(a.s, a.k, a.d) /\ job[a.s][a.k][a.d].attempts < MaxAttempts
  <2> DEFINE old == job[a.s][a.k][a.d]
             new == [old EXCEPT !.timer = TRUE]
             jobs == [job EXCEPT ![a.s][a.k][a.d] = new]
  <2>1. Retry(a, job) = jobs
    BY <1>2 DEF Retry
  <2>2. old \in JobState
    BY <1>1 DEF Jobs
  <2>3. new \in JobState /\ new.attempts = old.attempts /\ new.retired = old.retired
    BY <2>2 DEF JobState
  <2> HIDE DEF new
  <2>4. /\ jobs \in Jobs /\ jobs[a.s][a.k][a.d] = new
        /\ \A s \in Sessions, k \in Kinds, d \in Days :
             ~Belongs(a, s, k, d) => jobs[s][k][d] = job[s][k][d]
    BY <1>1, <2>3, OneEntry DEF Jobs, Belongs
  <2> HIDE DEF jobs
  <2>5. ASSUME NEW s \in Sessions, NEW k \in Kinds, NEW d \in Days, Belongs(a, s, k, d)
        PROVE  /\ jobs[s][k][d] = new /\ job[s][k][d] = old
               /\ IsCurrent(s, k, d) /\ job[s][k][d].attempts < MaxAttempts
    BY <1>2, <2>4, <2>5 DEF Belongs
  <2> HIDE DEF old
  <2> QED
    BY <2>1, <2>3, <2>4, <2>5
<1>3. CASE ~(IsCurrent(a.s, a.k, a.d) /\ job[a.s][a.k][a.d].attempts < MaxAttempts)
  <2>1. Retry(a, job) = job
    BY <1>3 DEF Retry
  <2> QED
    BY <1>1, <2>1
<1> QED
  BY <1>2, <1>3

\* Retiring the job of a day clears its timer.
LEMMA RetiredEffect ==
  ASSUME TypeOK, NEW s0 \in Sessions, NEW k0 \in Kinds, NEW d0 \in Days \cup {NoDay}
  PROVE  /\ Retired(job, s0, k0, d0) \in Jobs
         /\ \A s \in Sessions, k \in Kinds, d \in Days :
              /\ Retired(job, s0, k0, d0)[s][k][d].attempts = job[s][k][d].attempts
              /\ s = s0 /\ k = k0 /\ d = d0 =>
                   Retired(job, s0, k0, d0)[s][k][d].timer = FALSE
              /\ ~(s = s0 /\ k = k0 /\ d = d0) =>
                   Retired(job, s0, k0, d0)[s][k][d] = job[s][k][d]
<1>1. job \in Jobs
  BY DEF TypeOK, Jobs
<1>2. CASE d0 = NoDay
  BY <1>1, <1>2, Numbers DEF Retired
<1>3. CASE d0 # NoDay
  <2> DEFINE old == job[s0][k0][d0]
             half == [old EXCEPT !.retired = TRUE]
             new == [half EXCEPT !.timer = FALSE]
             first == [job EXCEPT ![s0][k0][d0] = half]
             jobs == [first EXCEPT ![s0][k0][d0] = new]
  <2>1. d0 \in Days /\ old \in JobState
    BY <1>1, <1>3 DEF Jobs
  <2>2. half \in JobState /\ new \in JobState /\ new.attempts = old.attempts
        /\ new.timer = FALSE
    BY <2>1 DEF JobState
  <2>3. first \in Jobs /\ first[s0][k0][d0] = half
        /\ \A s \in Sessions, k \in Kinds, d \in Days :
             ~(s = s0 /\ k = k0 /\ d = d0) => first[s][k][d] = job[s][k][d]
    <3> HIDE DEF half
    <3> QED
      BY <1>1, <2>1, <2>2, OneEntry DEF Jobs
  <2>4. jobs \in Jobs /\ jobs[s0][k0][d0] = new
        /\ \A s \in Sessions, k \in Kinds, d \in Days :
             ~(s = s0 /\ k = k0 /\ d = d0) => jobs[s][k][d] = first[s][k][d]
    <3> HIDE DEF new, first
    <3> QED
      BY <2>1, <2>2, <2>3, OneEntry DEF Jobs
  <2>5. Retired(job, s0, k0, d0) =
          [first EXCEPT ![s0][k0][d0].timer = FALSE]
    BY <1>3 DEF Retired
  <2>6. Retired(job, s0, k0, d0) = jobs
    BY <2>3, <2>5
  <2> HIDE DEF half, new, first, jobs
  <2> QED
    BY <1>3, <2>1, <2>2, <2>3, <2>4, <2>6
<1> QED
  BY <1>2, <1>3

\* A call counts once, in its job and in the calls, and is under way.
LEMMA CallEffect ==
  ASSUME TypeOK, NEW jobs \in Jobs,
         NEW s0 \in Sessions, NEW k0 \in Kinds, NEW d0 \in Days,
         Call(s0, k0, d0, jobs)
  PROVE  /\ job' \in Jobs
         /\ calls' \in [Sessions -> [Kinds -> [Days -> Nat]]]
         /\ \E a \in Attempt :
              Belongs(a, s0, k0, d0) /\ flight' = flight \cup {a}
         /\ \A s \in Sessions, k \in Kinds, d \in Days :
              /\ s = s0 /\ k = k0 /\ d = d0 =>
                   /\ job'[s][k][d].attempts = jobs[s][k][d].attempts + 1
                   /\ job'[s][k][d].retired = jobs[s][k][d].retired
                   /\ job'[s][k][d].timer = jobs[s][k][d].timer
                   /\ calls'[s][k][d] = calls[s][k][d] + 1
              /\ ~(s = s0 /\ k = k0 /\ d = d0) =>
                   job'[s][k][d] = jobs[s][k][d] /\ calls'[s][k][d] = calls[s][k][d]
<1> DEFINE a == [s |-> s0, k |-> k0, d |-> d0, n |-> jobs[s0][k0][d0].attempts + 1,
                 step |-> "run", partial |-> FALSE]
<1>1. /\ job' = [jobs EXCEPT ![s0][k0][d0].attempts = @ + 1]
      /\ flight' = flight \cup {a}
      /\ calls' = [calls EXCEPT ![s0][k0][d0] = @ + 1]
  BY DEF Call
<1>2. jobs[s0][k0][d0].attempts \in Nat
  BY DEF Jobs, JobState
<1>3. a \in Attempt /\ Belongs(a, s0, k0, d0)
  BY <1>2 DEF Attempt, Belongs
<1> DEFINE old == jobs[s0][k0][d0]
           new == [old EXCEPT !.attempts = @ + 1]
<1>2a. job' = [jobs EXCEPT ![s0][k0][d0] = new]
  BY <1>1
<1>2b. new \in JobState /\ new.attempts = old.attempts + 1
       /\ new.retired = old.retired /\ new.timer = old.timer
  BY <1>2 DEF Jobs, JobState
<1> HIDE DEF new
<1>4. job' \in Jobs /\ \A s \in Sessions, k \in Kinds, d \in Days :
        /\ s = s0 /\ k = k0 /\ d = d0 =>
             /\ job'[s][k][d].attempts = jobs[s][k][d].attempts + 1
             /\ job'[s][k][d].retired = jobs[s][k][d].retired
             /\ job'[s][k][d].timer = jobs[s][k][d].timer
        /\ ~(s = s0 /\ k = k0 /\ d = d0) => job'[s][k][d] = jobs[s][k][d]
  BY <1>2a, <1>2b, OneEntry DEF Jobs
<1>5. calls \in [Sessions -> [Kinds -> [Days -> Nat]]]
  BY DEF TypeOK
<1>6. calls' \in [Sessions -> [Kinds -> [Days -> Nat]]]
      /\ \A s \in Sessions, k \in Kinds, d \in Days :
        /\ s = s0 /\ k = k0 /\ d = d0 => calls'[s][k][d] = calls[s][k][d] + 1
        /\ ~(s = s0 /\ k = k0 /\ d = d0) => calls'[s][k][d] = calls[s][k][d]
  BY <1>1, <1>5, OneEntry
<1> HIDE DEF a
<1> QED
  BY <1>1, <1>3, <1>4, <1>6

-----------------------------------------------------------------------------
LEMMA InitInvariant == Init => IInv
<1> SUFFICES ASSUME Init PROVE IInv
  OBVIOUS
<1>1. TypeOK
  BY Numbers, NewJobType, MaintenanceAssumption DEF Init, TypeOK
<1>2. Alone /\ OthersEnded
  BY DEF Init, Alone, OthersEnded
<1>3. TimersWait /\ Counted
  BY Numbers DEF Init, TimersWait, Counted, NewJob
<1>4. Unbegun
  BY DEF Init, Unbegun
<1> QED
  BY <1>1, <1>2, <1>3, <1>4 DEF IInv

\* A new day: its job is begun for the first time, and the one before retired.
LEMMA ObserveStep ==
  ASSUME IInv, NEW k0 \in Kinds, NEW d0 \in Days, Observe(k0, d0)
  PROVE  IInv'
<1> DEFINE old == registry[session][k0]
           left == Retired(job, session, k0, old)
           fresh == [left EXCEPT ![session][k0][d0] = NewJob]
<1>1. TypeOK /\ session \in Sessions /\ old \in Days \cup {NoDay} /\ old < d0
  BY DEF IInv, TypeOK, Observe, MayStart
<1>2. /\ registry' = [registry EXCEPT ![session][k0] = d0]
      /\ Call(session, k0, d0, fresh)
      /\ report' = {} /\ today' = today /\ session' = session /\ served' = served
  BY DEF Observe, Silent
<1>3. /\ registry' \in [Sessions -> [Kinds -> Days \cup {NoDay}]]
      /\ registry'[session][k0] = d0
      /\ \A s \in Sessions, k \in Kinds :
           ~(s = session /\ k = k0) => registry'[s][k] = registry[s][k]
  BY <1>1, <1>2 DEF TypeOK
<1>4. /\ left \in Jobs
      /\ \A s \in Sessions, k \in Kinds, d \in Days :
           /\ s = session /\ k = k0 /\ d = old => left[s][k][d].timer = FALSE
           /\ left[s][k][d].attempts = job[s][k][d].attempts
           /\ ~(s = session /\ k = k0 /\ d = old) => left[s][k][d] = job[s][k][d]
  <2> HIDE DEF old
  <2>1. /\ left \in Jobs
        /\ \A s \in Sessions, k \in Kinds, d \in Days :
             /\ left[s][k][d].attempts = job[s][k][d].attempts
             /\ s = session /\ k = k0 /\ d = old => left[s][k][d].timer = FALSE
             /\ ~(s = session /\ k = k0 /\ d = old) => left[s][k][d] = job[s][k][d]
    BY <1>1, RetiredEffect, Zenon
  <2> QED
    BY <2>1
<1> HIDE DEF left
<1>5. /\ fresh \in Jobs /\ fresh[session][k0][d0] = NewJob
      /\ \A s \in Sessions, k \in Kinds, d \in Days :
           ~(s = session /\ k = k0 /\ d = d0) => fresh[s][k][d] = left[s][k][d]
  BY <1>1, <1>4, NewJobType, OneEntry DEF Jobs
<1> HIDE DEF fresh
<1>6. /\ job' \in Jobs
      /\ calls' \in [Sessions -> [Kinds -> [Days -> Nat]]]
      /\ \A s \in Sessions, k \in Kinds, d \in Days :
           /\ s = session /\ k = k0 /\ d = d0 =>
                /\ job'[s][k][d].attempts = fresh[s][k][d].attempts + 1
                /\ job'[s][k][d].timer = fresh[s][k][d].timer
                /\ calls'[s][k][d] = calls[s][k][d] + 1
           /\ ~(s = session /\ k = k0 /\ d = d0) =>
                job'[s][k][d] = fresh[s][k][d] /\ calls'[s][k][d] = calls[s][k][d]
  BY <1>1, <1>2, <1>5, CallEffect
<1>7. PICK a \in Attempt : Belongs(a, session, k0, d0) /\ flight' = flight \cup {a}
  BY <1>1, <1>2, <1>5, CallEffect
<1>8. /\ calls[session][k0][d0] = 0
      /\ \A b \in flight : ~Belongs(b, session, k0, d0)
  BY <1>1 DEF IInv, Unbegun, ToCome
<1>9. TypeOK'
  BY <1>1, <1>2, <1>3, <1>6, <1>7 DEF TypeOK, Jobs
<1>10. Alone'
  BY <1>7, <1>8 DEF IInv, Alone, Belongs
<1>11. TimersWait'
  <2> SUFFICES ASSUME NEW s \in Sessions, NEW k \in Kinds, NEW d \in Days,
                      job'[s][k][d].timer
               PROVE  /\ IsCurrent(s, k, d)'
                      /\ job'[s][k][d].attempts < MaxAttempts
                      /\ \A b \in flight' : ~Belongs(b, s, k, d)
    BY DEF TimersWait
  <2>1. ~(s = session /\ k = k0 /\ d = d0)
    BY <1>5, <1>6 DEF NewJob
  <2>2. ~(s = session /\ k = k0 /\ d = old)
    BY <1>4, <1>5, <1>6, <2>1
  <2>3. job'[s][k][d] = job[s][k][d]
    BY <1>4, <1>5, <1>6, <2>1, <2>2
  <2>4. /\ IsCurrent(s, k, d) /\ job[s][k][d].attempts < MaxAttempts
        /\ \A b \in flight : ~Belongs(b, s, k, d)
    BY <2>3 DEF IInv, TimersWait
  <2>5. ~(s = session /\ k = k0)
    BY <2>2, <2>4 DEF IsCurrent
  <2> QED
    BY <1>3, <1>7, <2>3, <2>4, <2>5 DEF IsCurrent, Belongs
<1>12. Counted'
  <2> SUFFICES ASSUME NEW s \in Sessions, NEW k \in Kinds, NEW d \in Days
               PROVE  calls'[s][k][d] = job'[s][k][d].attempts
                      /\ calls'[s][k][d] <= MaxAttempts
    BY DEF Counted
  <2>1. CASE s = session /\ k = k0 /\ d = d0
    <3>1. calls'[s][k][d] = 0 + 1
      BY <1>6, <1>8, <2>1
    <3>2. fresh[s][k][d].attempts = 0
      BY <1>5, <2>1 DEF NewJob
    <3>3. job'[s][k][d].attempts = fresh[s][k][d].attempts + 1
      BY <1>6, <2>1
    <3> QED
      BY <3>1, <3>2, <3>3, Numbers
  <2>2. CASE ~(s = session /\ k = k0 /\ d = d0)
    <3>1. job'[s][k][d] = fresh[s][k][d] /\ calls'[s][k][d] = calls[s][k][d]
      BY <1>6, <2>2
    <3>2. fresh[s][k][d].attempts = job[s][k][d].attempts
      BY <1>4, <1>5, <2>2
    <3> QED
      BY <3>1, <3>2 DEF IInv, Counted
  <2> QED
    BY <2>1, <2>2
<1>13. OthersEnded'
  BY <1>2, <1>3 DEF IInv, OthersEnded
<1>14. Unbegun'
  <2> SUFFICES ASSUME NEW s \in Sessions, NEW k \in Kinds, NEW d \in Days,
                      ToCome(s, k, d)'
               PROVE  calls'[s][k][d] = 0 /\ \A b \in flight' : ~Belongs(b, s, k, d)
    BY DEF Unbegun
  <2>1. ~(s = session /\ k = k0 /\ d = d0)
    BY <1>1, <1>2, <1>3, Numbers DEF ToCome
  <2>2. registry[s][k] \in Nat /\ registry[s][k] <= registry'[s][k]
        /\ registry'[s][k] \in Nat /\ d \in Nat
    <3>1. registry[s][k] \in Days \cup {NoDay} /\ registry'[s][k] \in Days \cup {NoDay}
      BY <1>1, <1>3 DEF TypeOK
    <3>2. registry[s][k] \in Nat /\ registry'[s][k] \in Nat /\ d \in Nat /\ d0 \in Nat
      BY <3>1, Numbers
    <3> QED
      BY <1>1, <1>3, <3>2
  <2>3. ToCome(s, k, d)
    BY <1>2, <2>2 DEF ToCome
  <2> QED
    BY <1>6, <1>7, <2>1, <2>3 DEF IInv, Unbegun, Belongs
<1> QED
  BY <1>9, <1>10, <1>11, <1>12, <1>13, <1>14 DEF IInv

\* A timer: only the current job, without an attempt under way, has one.
LEMMA TimerStep ==
  ASSUME IInv, NEW s0 \in Sessions, NEW k0 \in Kinds, NEW d0 \in Days,
         TimerFires(s0, k0, d0)
  PROVE  IInv' /\ s0 = session /\ registry[s0][k0] = d0
         /\ \A s \in Sessions, k \in Kinds, d \in Days :
              calls'[s][k][d] # calls[s][k][d] => s = s0 /\ k = k0 /\ d = d0
<1> DEFINE old == job[s0][k0][d0]
           new == [old EXCEPT !.timer = FALSE]
           fired == [job EXCEPT ![s0][k0][d0] = new]
<1>1. /\ IsCurrent(s0, k0, d0) /\ old.attempts < MaxAttempts
      /\ \A b \in flight : ~Belongs(b, s0, k0, d0)
  BY DEF IInv, TimersWait, TimerFires
<1>2. TypeOK /\ job \in Jobs /\ old \in JobState
  BY DEF IInv, TypeOK, Jobs
<1>3. registry[s0][k0] = d0 /\ s0 = session
  BY <1>1, Numbers DEF IsCurrent, IInv, OthersEnded
<1>4. [job EXCEPT ![s0][k0][d0].timer = FALSE] = fired
  OBVIOUS
<1>5. /\ Call(s0, k0, d0, fired) /\ report' = {}
      /\ today' = today /\ session' = session /\ registry' = registry /\ served' = served
  BY <1>1, <1>4 DEF TimerFires, Silent
<1>6. new \in JobState /\ new.attempts = old.attempts /\ new.timer = FALSE
  BY <1>2 DEF JobState
<1> HIDE DEF new
<1>7. /\ fired \in Jobs /\ fired[s0][k0][d0] = new
      /\ \A s \in Sessions, k \in Kinds, d \in Days :
           ~(s = s0 /\ k = k0 /\ d = d0) => fired[s][k][d] = job[s][k][d]
  BY <1>2, <1>6, OneEntry DEF Jobs
<1> HIDE DEF fired
<1>8. /\ job' \in Jobs
      /\ calls' \in [Sessions -> [Kinds -> [Days -> Nat]]]
      /\ \A s \in Sessions, k \in Kinds, d \in Days :
           /\ s = s0 /\ k = k0 /\ d = d0 =>
                /\ job'[s][k][d].attempts = fired[s][k][d].attempts + 1
                /\ job'[s][k][d].timer = fired[s][k][d].timer
                /\ calls'[s][k][d] = calls[s][k][d] + 1
           /\ ~(s = s0 /\ k = k0 /\ d = d0) =>
                job'[s][k][d] = fired[s][k][d] /\ calls'[s][k][d] = calls[s][k][d]
  BY <1>2, <1>5, <1>7, CallEffect
<1>9. PICK a \in Attempt : Belongs(a, s0, k0, d0) /\ flight' = flight \cup {a}
  BY <1>2, <1>5, <1>7, CallEffect
<1>10. TypeOK'
  BY <1>2, <1>5, <1>8, <1>9 DEF TypeOK, Jobs
<1>11. Alone'
  BY <1>1, <1>9 DEF IInv, Alone, Belongs
<1>12. TimersWait'
  <2> SUFFICES ASSUME NEW s \in Sessions, NEW k \in Kinds, NEW d \in Days,
                      job'[s][k][d].timer
               PROVE  /\ IsCurrent(s, k, d)'
                      /\ job'[s][k][d].attempts < MaxAttempts
                      /\ \A b \in flight' : ~Belongs(b, s, k, d)
    BY DEF TimersWait
  <2>1. ~(s = s0 /\ k = k0 /\ d = d0)
    BY <1>6, <1>7, <1>8
  <2>2. job'[s][k][d] = job[s][k][d]
    BY <1>7, <1>8, <2>1
  <2>3. /\ IsCurrent(s, k, d) /\ job[s][k][d].attempts < MaxAttempts
        /\ \A b \in flight : ~Belongs(b, s, k, d)
    BY <2>2 DEF IInv, TimersWait
  <2> QED
    BY <1>5, <1>9, <2>1, <2>2, <2>3 DEF IsCurrent, Belongs
<1>13. Counted'
  <2> SUFFICES ASSUME NEW s \in Sessions, NEW k \in Kinds, NEW d \in Days
               PROVE  calls'[s][k][d] = job'[s][k][d].attempts
                      /\ calls'[s][k][d] <= MaxAttempts
    BY DEF Counted
  <2>1. CASE s = s0 /\ k = k0 /\ d = d0
    <3>1. calls[s][k][d] = old.attempts /\ old.attempts \in Nat
      BY <1>2, <2>1 DEF IInv, Counted, JobState
    <3>2. fired[s][k][d].attempts = old.attempts
      BY <1>6, <1>7, <2>1
    <3>3. /\ job'[s][k][d].attempts = fired[s][k][d].attempts + 1
          /\ calls'[s][k][d] = calls[s][k][d] + 1
      BY <1>8, <2>1
    <3> QED
      BY <1>1, <3>1, <3>2, <3>3, Numbers
  <2>2. CASE ~(s = s0 /\ k = k0 /\ d = d0)
    <3>1. job'[s][k][d] = job[s][k][d] /\ calls'[s][k][d] = calls[s][k][d]
      BY <1>7, <1>8, <2>2
    <3> QED
      BY <3>1 DEF IInv, Counted
  <2> QED
    BY <2>1, <2>2
<1>14. OthersEnded'
  BY <1>5 DEF IInv, OthersEnded
<1>15. Unbegun'
  <2> SUFFICES ASSUME NEW s \in Sessions, NEW k \in Kinds, NEW d \in Days,
                      ToCome(s, k, d)
               PROVE  calls'[s][k][d] = 0 /\ \A b \in flight' : ~Belongs(b, s, k, d)
    BY <1>5 DEF Unbegun, ToCome
  <2>1. ~(s = s0 /\ k = k0 /\ d = d0)
    BY <1>3, Numbers DEF ToCome
  <2>2. calls'[s][k][d] = calls[s][k][d]
    BY <1>8, <2>1
  <2>3. calls[s][k][d] = 0 /\ \A b \in flight : ~Belongs(b, s, k, d)
    BY DEF IInv, Unbegun
  <2> QED
    BY <1>9, <2>1, <2>2, <2>3 DEF Belongs
<1> QED
  BY <1>3, <1>8, <1>10, <1>11, <1>12, <1>13, <1>14, <1>15 DEF IInv

\* What an attempt does after an await keeps the invariant, and it tells
\* something only about the registered job of the session on screen.
LEMMA AttemptStep ==
  ASSUME IInv, NEW a \in flight,
         Fail(a) \/ EndReport(a) \/ \E p \in BOOLEAN : Answer(a, p)
  PROVE  /\ IInv'
         /\ calls' = calls /\ registry' = registry /\ session' = session
         /\ \A r \in report' : r.s = session /\ r.d = registry[session][r.k]
<1>1. /\ TypeOK /\ job \in Jobs
      /\ a \in Attempt /\ a.s \in Sessions /\ a.k \in Kinds /\ a.d \in Days
  BY DEF IInv, TypeOK, Jobs, Attempt
<1>2. calls' = calls /\ registry' = registry /\ session' = session /\ today' = today
  BY DEF Fail, EndReport, Answer
<1>3. \/ flight' = flight \ {a}
      \/ /\ job' = job
         /\ \E b \in Attempt : Belongs(b, a.s, a.k, a.d) /\ flight' = (flight \ {a}) \cup {b}
  <2>1. CASE Fail(a) \/ EndReport(a)
    BY <2>1 DEF Fail, EndReport
  <2>2. ASSUME NEW p \in BOOLEAN, Answer(a, p) PROVE <1>3!1 \/ <1>3!2
    <3> DEFINE b == [a EXCEPT !.step = "report", !.partial = p]
    <3>1. b \in Attempt /\ Belongs(b, a.s, a.k, a.d)
      BY <1>1 DEF Attempt, Belongs
    <3>2. job' = job /\ (flight' = flight \ {a} \/ flight' = (flight \ {a}) \cup {b})
      BY <2>2 DEF Answer
    <3> HIDE DEF b
    <3> QED
      BY <3>1, <3>2
  <2> QED
    BY <2>1, <2>2
<1>4. \/ job' = job
      \/ job' = Retry(a, job) /\ flight' = flight \ {a}
  BY DEF Fail, EndReport, Answer
<1>5. /\ job' \in Jobs
      /\ \A s \in Sessions, k \in Kinds, d \in Days :
           /\ job'[s][k][d].attempts = job[s][k][d].attempts
           /\ job'[s][k][d].retired = job[s][k][d].retired
           /\ job'[s][k][d].timer =>
                \/ job[s][k][d].timer
                \/ /\ Belongs(a, s, k, d) /\ IsCurrent(s, k, d)
                   /\ job[s][k][d].attempts < MaxAttempts
                   /\ flight' = flight \ {a}
  <2>1. CASE job' = job
    BY <1>1, <2>1
  <2>2. CASE job' = Retry(a, job) /\ flight' = flight \ {a}
    <3>1. /\ Retry(a, job) \in Jobs
          /\ \A s \in Sessions, k \in Kinds, d \in Days :
               /\ Retry(a, job)[s][k][d].attempts = job[s][k][d].attempts
               /\ Retry(a, job)[s][k][d].retired = job[s][k][d].retired
               /\ Retry(a, job)[s][k][d].timer =>
                    \/ job[s][k][d].timer
                    \/ /\ Belongs(a, s, k, d) /\ IsCurrent(s, k, d)
                       /\ job[s][k][d].attempts < MaxAttempts
      BY <1>1, RetryEffect, Zenon
    <3> QED
      BY <2>2, <3>1
  <2> QED
    BY <1>4, <2>1, <2>2
<1>6. \/ report' = {}
      \/ report' = {Id(a.s, a.k, a.d)} /\ IsCurrent(a.s, a.k, a.d)
  BY DEF Fail, EndReport, Answer, Tell, Silent, MayGoOn
<1>7. Id(a.s, a.k, a.d) \in Ids
  BY <1>1 DEF Id, Ids
<1>8. served' = served \/ served' = served \cup {Id(a.s, a.k, a.d)}
  BY DEF Fail, EndReport, Answer
<1>9. TypeOK'
  BY <1>1, <1>2, <1>3, <1>5, <1>6, <1>7, <1>8 DEF TypeOK, Jobs
<1>10. Alone'
  BY <1>3 DEF IInv, Alone, Belongs
<1>11. TimersWait'
  <2> SUFFICES ASSUME NEW s \in Sessions, NEW k \in Kinds, NEW d \in Days,
                      job'[s][k][d].timer
               PROVE  /\ IsCurrent(s, k, d)'
                      /\ job'[s][k][d].attempts < MaxAttempts
                      /\ \A b \in flight' : ~Belongs(b, s, k, d)
    BY DEF TimersWait
  <2>1. IsCurrent(s, k, d) /\ job[s][k][d].attempts < MaxAttempts
    BY <1>5 DEF IInv, TimersWait
  <2>2. \A b \in flight' : ~Belongs(b, s, k, d)
    <3>1. CASE job[s][k][d].timer
      <4>1. \A b \in flight : ~Belongs(b, s, k, d)
        BY <3>1 DEF IInv, TimersWait
      <4> QED
        BY <1>3, <4>1 DEF Belongs
    <3>2. CASE Belongs(a, s, k, d) /\ flight' = flight \ {a}
      BY <3>2 DEF IInv, Alone, Belongs
    <3> QED
      BY <1>5, <3>1, <3>2
  <2> QED
    BY <1>2, <1>5, <2>1, <2>2 DEF IsCurrent
<1>12. Counted'
  BY <1>2, <1>5 DEF IInv, Counted
<1>13. OthersEnded'
  BY <1>2 DEF IInv, OthersEnded
<1>14. Unbegun'
  BY <1>2, <1>3 DEF IInv, Unbegun, ToCome, Belongs
<1>15. \A r \in report' : r.s = session /\ r.d = registry[session][r.k]
  <2>1. CASE IsCurrent(a.s, a.k, a.d)
    <3>1. registry[a.s][a.k] = a.d
      BY <2>1 DEF IsCurrent
    <3>2. a.s = session
      BY <1>1, <3>1, Numbers DEF IInv, OthersEnded
    <3> QED
      BY <1>6, <3>1, <3>2 DEF Id
  <2> QED
    BY <1>6, <2>1
<1> QED
  BY <1>2, <1>9, <1>10, <1>11, <1>12, <1>13, <1>14, <1>15 DEF IInv

\* The end of a session: what it had registered is retired.
LEMMA NewSessionStep ==
  ASSUME IInv, NewSession
  PROVE  IInv' /\ report' = {} /\ calls' = calls
<1> DEFINE left(k) == registry[session][k]
           row == [k \in Kinds |-> IF left(k) = NoDay THEN job[session][k]
                                   ELSE Retired(job, session, k, left(k))[session][k]]
           none == [k \in Kinds |-> NoDay]
<1>1. /\ TypeOK /\ job \in Jobs /\ session \in Sessions
      /\ \A k \in Kinds : left(k) \in Days \cup {NoDay}
  BY DEF IInv, TypeOK, Jobs
<1>2. /\ session' = session + 1 /\ session' \in Sessions
      /\ job' = [job EXCEPT ![session] = row]
      /\ registry' = [registry EXCEPT ![session] = none]
      /\ report' = {} /\ today' = today /\ flight' = flight
      /\ calls' = calls /\ served' = served
  BY DEF NewSession, Silent
<1>3. \A k \in Kinds :
        /\ row[k] \in [Days -> JobState]
        /\ \A d \in Days :
             /\ row[k][d].attempts = job[session][k][d].attempts
             /\ d = left(k) => row[k][d].timer = FALSE
             /\ d # left(k) => row[k][d] = job[session][k][d]
  <2> SUFFICES ASSUME NEW k \in Kinds
               PROVE  /\ row[k] \in [Days -> JobState]
                      /\ \A d \in Days :
                           /\ row[k][d].attempts = job[session][k][d].attempts
                           /\ d = left(k) => row[k][d].timer = FALSE
                           /\ d # left(k) => row[k][d] = job[session][k][d]
    OBVIOUS
  <2>1. CASE left(k) = NoDay
    BY <1>1, <2>1, Numbers DEF Jobs
  <2>2. CASE left(k) # NoDay
    <3> DEFINE after == Retired(job, session, k, left(k))
    <3>1. row[k] = after[session][k]
      BY <2>2
    <3>2. /\ after \in Jobs
          /\ \A s \in Sessions, q \in Kinds, d \in Days :
               /\ after[s][q][d].attempts = job[s][q][d].attempts
               /\ s = session /\ q = k /\ d = left(k) => after[s][q][d].timer = FALSE
               /\ ~(s = session /\ q = k /\ d = left(k)) => after[s][q][d] = job[s][q][d]
      BY <1>1, RetiredEffect, Zenon
    <3> HIDE DEF after, row
    <3> QED
      BY <1>1, <3>1, <3>2 DEF Jobs
  <2> QED
    BY <2>1, <2>2
<1>4. row \in [Kinds -> [Days -> JobState]]
  <2>1. row = [k \in Kinds |-> row[k]]
    OBVIOUS
  <2> HIDE DEF row
  <2> QED
    BY <1>3, <2>1
<1> HIDE DEF row
<1>5. /\ job' \in Jobs
      /\ \A s \in Sessions, k \in Kinds, d \in Days :
           /\ job'[s][k][d].attempts = job[s][k][d].attempts
           /\ s = session /\ d = left(k) => job'[s][k][d].timer = FALSE
           /\ ~(s = session /\ d = left(k)) => job'[s][k][d] = job[s][k][d]
  <2>1. /\ job' \in Jobs /\ job'[session] = row
        /\ \A s \in Sessions : s # session => job'[s] = job[s]
    BY <1>1, <1>2, <1>4 DEF Jobs
  <2> QED
    BY <1>3, <2>1
<1>6. /\ registry' \in [Sessions -> [Kinds -> Days \cup {NoDay}]]
      /\ \A k \in Kinds : registry'[session][k] = NoDay
      /\ \A s \in Sessions : s # session => registry'[s] = registry[s]
  BY <1>1, <1>2 DEF TypeOK
<1>7. TypeOK'
  BY <1>1, <1>2, <1>5, <1>6 DEF TypeOK, Jobs
<1>8. Alone'
  BY <1>2 DEF IInv, Alone
<1>9. TimersWait'
  <2> SUFFICES ASSUME NEW s \in Sessions, NEW k \in Kinds, NEW d \in Days,
                      job'[s][k][d].timer
               PROVE  /\ IsCurrent(s, k, d)'
                      /\ job'[s][k][d].attempts < MaxAttempts
                      /\ \A b \in flight' : ~Belongs(b, s, k, d)
    BY DEF TimersWait
  <2>1. ~(s = session /\ d = left(k))
    BY <1>5
  <2>2. job'[s][k][d] = job[s][k][d]
    BY <1>5, <2>1
  <2>3. /\ IsCurrent(s, k, d) /\ job[s][k][d].attempts < MaxAttempts
        /\ \A b \in flight : ~Belongs(b, s, k, d)
    BY <2>2 DEF IInv, TimersWait
  <2>4. s # session
    BY <2>1, <2>3 DEF IsCurrent
  <2> QED
    BY <1>2, <1>6, <2>2, <2>3, <2>4 DEF IsCurrent
<1>10. Counted'
  BY <1>2, <1>5 DEF IInv, Counted
<1>11. OthersEnded'
  BY <1>6 DEF IInv, OthersEnded
<1>12. Unbegun'
  <2> SUFFICES ASSUME NEW s \in Sessions, NEW k \in Kinds, NEW d \in Days,
                      ToCome(s, k, d)'
               PROVE  calls[s][k][d] = 0 /\ \A b \in flight : ~Belongs(b, s, k, d)
    BY <1>2 DEF Unbegun
  <2>1. s > session
    BY <1>1, <1>2, Numbers DEF ToCome
  <2> QED
    BY <2>1 DEF IInv, Unbegun, ToCome
<1> QED
  BY <1>2, <1>7, <1>8, <1>9, <1>10, <1>11, <1>12 DEF IInv

\* Midnight and steps that change nothing.
LEMMA FrameStep ==
  ASSUME IInv, Midnight \/ UNCHANGED vars
  PROVE  IInv' /\ calls' = calls
<1>1. /\ session' = session /\ registry' = registry /\ job' = job /\ flight' = flight
      /\ calls' = calls /\ served' = served /\ today' \in Nat
      /\ (report' = {} \/ report' = report)
  BY DEF Midnight, Silent, vars, IInv, TypeOK
<1>2. TypeOK'
  BY <1>1 DEF IInv, TypeOK
<1>3. Alone' /\ OthersEnded'
  BY <1>1 DEF IInv, Alone, OthersEnded
<1>4. TimersWait' /\ Counted'
  BY <1>1 DEF IInv, TimersWait, Counted, IsCurrent
<1>5. Unbegun'
  BY <1>1 DEF IInv, Unbegun, ToCome
<1> QED
  BY <1>1, <1>2, <1>3, <1>4, <1>5 DEF IInv

LEMMA Inductive == IInv /\ [Next]_vars => IInv'
<1> SUFFICES ASSUME IInv, [Next]_vars PROVE IInv'
  OBVIOUS
<1>1. ASSUME NEW k \in Kinds, NEW d \in Days, Observe(k, d) PROVE IInv'
  BY <1>1, ObserveStep
<1>2. CASE Attempts
  BY <1>2, AttemptStep DEF Attempts
<1>3. CASE Timers
  BY <1>3, TimerStep DEF Timers
<1>4. CASE NewSession
  BY <1>4, NewSessionStep
<1>5. CASE Midnight \/ UNCHANGED vars
  BY <1>5, FrameStep
<1> QED
  BY <1>1, <1>2, <1>3, <1>4, <1>5 DEF Next

-----------------------------------------------------------------------------
\* The invariant holds in every reachable state of the maintenance
\* (daily-maintenance.ts).
THEOREM Invariant == Spec => []IInv
<1>1. Init => IInv
  BY InitInvariant
<1>2. IInv /\ [Next]_vars => IInv'
  BY Inductive
<1> QED
  BY <1>1, <1>2, PTL DEF Spec

\* Every variable keeps its type.
THEOREM TypeCorrect == Spec => []TypeOK
<1>1. IInv => TypeOK
  BY DEF IInv
<1> QED
  BY <1>1, Invariant, PTL

\* The server is called at most MaxAttempts times for one day of a session,
\* whatever observers come and go and whenever answers and timers arrive
\* (MAX_ATTEMPTS_PER_DAY).
THEOREM CallsBounded == Spec => []CallsAreBounded
<1>1. IInv => CallsAreBounded
  BY DEF IInv, Counted, CallsAreBounded
<1> QED
  BY <1>1, Invariant, PTL

\* A day's calls follow one another: a call under way, a report under way and a
\* timer exclude one another (the timer is set in retry(), after the awaits).
THEOREM OneCallAtATime == Spec => []OneAtATime
<1>1. ASSUME IInv PROVE OneAtATime
  <2> SUFFICES ASSUME NEW s \in Sessions, NEW k \in Kinds, NEW d \in Days
               PROVE  Cardinality({a \in flight : a.s = s /\ a.k = k /\ a.d = d})
                        + (IF job[s][k][d].timer THEN 1 ELSE 0) <= 1
    BY DEF OneAtATime
  <2> DEFINE attempts == {a \in flight : a.s = s /\ a.k = k /\ a.d = d}
  <2>1. CASE attempts = {}
    <3>1. Cardinality(attempts) = 0
      BY <2>1, FS_EmptySet
    <3> QED
      BY <3>1
  <2>2. CASE attempts # {}
    <3>1. PICK a \in attempts : TRUE
      BY <2>2
    <3>2. attempts = {a}
      BY <1>1, <3>1 DEF IInv, Alone, Belongs
    <3>3. Cardinality(attempts) = 1
      <4> HIDE DEF attempts
      <4> QED
        BY <3>2, FS_Singleton
    <3>4. ~job[s][k][d].timer
      BY <1>1, <3>1 DEF IInv, TimersWait, Belongs
    <3> QED
      BY <3>3, <3>4
  <2> QED
    BY <2>1, <2>2
<1> QED
  BY <1>1, Invariant, PTL

\* What a late answer or a timer reports or calls is the business of the session
\* on screen and of the latest day its pages have shown (isCurrent after every
\* await; cancelDailyMaintenance with the QueryClient).
THEOREM LiveJobActs == Spec => OnlyTheLiveJobActs
<1> DEFINE Live ==
      /\ \A r \in report' : r.s = session' /\ r.d = registry'[session'][r.k]
      /\ \A s \in Sessions, k \in Kinds, d \in Days :
           calls'[s][k][d] # calls[s][k][d] =>
             s = session' /\ \A e \in Days : e > d => calls[s][k][e] = 0
<1>1. ASSUME IInv, Next PROVE Live
  <2>1. ASSUME NEW k \in Kinds, NEW d \in Days, Observe(k, d) PROVE Live
    <3>1. /\ report' = {} /\ session' = session
          /\ \A s \in Sessions, q \in Kinds, e \in Days :
               calls'[s][q][e] # calls[s][q][e] => s = session /\ q = k /\ e = d
      BY <1>1, <2>1 DEF Observe, Call, Silent, IInv, TypeOK
    <3>2. \A e \in Days : e > d => calls[session][k][e] = 0
      <4>1. registry[session][k] \in Nat /\ registry[session][k] < d /\ session \in Sessions
        BY <1>1, <2>1, Numbers DEF Observe, MayStart, IInv, TypeOK
      <4> QED
        BY <1>1, <4>1, Numbers DEF IInv, Unbegun, ToCome
    <3> QED
      BY <3>1, <3>2
  <2>2. CASE Attempts
    BY <1>1, <2>2, AttemptStep DEF Attempts
  <2>3. ASSUME NEW s0 \in Sessions, NEW k0 \in Kinds, NEW d0 \in Days,
               TimerFires(s0, k0, d0)
        PROVE  Live
    <3>1. /\ s0 = session /\ registry[s0][k0] = d0
          /\ \A s \in Sessions, k \in Kinds, d \in Days :
               calls'[s][k][d] # calls[s][k][d] => s = s0 /\ k = k0 /\ d = d0
      BY <1>1, <2>3, TimerStep
    <3>2. report' = {} /\ session' = session
      BY <2>3 DEF TimerFires, Silent
    <3>3. \A e \in Days : e > d0 => calls[session][k0][e] = 0
      BY <1>1, <3>1 DEF IInv, Unbegun, ToCome
    <3> QED
      BY <3>1, <3>2, <3>3
  <2>4. CASE NewSession
    BY <1>1, <2>4, NewSessionStep
  <2>5. CASE Midnight
    BY <2>5 DEF Midnight, Silent
  <2> QED
    BY <1>1, <2>1, <2>2, <2>3, <2>4, <2>5 DEF Next, Timers
<1>2. IInv /\ [Next]_vars => [Live]_vars
  BY <1>1
<1> QED
  BY <1>2, Invariant, PTL DEF Spec, OnlyTheLiveJobActs

=============================================================================
