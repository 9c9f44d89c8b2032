--------------------------- MODULE AccountAccess ---------------------------
(***************************************************************************)
(* Everything that gives access to one account: sessions (JWT cookies),    *)
(* the offline recovery code, trusted devices with their challenges, and   *)
(* the OAuth connection of one external client.  Requests overlap: what    *)
(* one read or checked may be out of date when it writes.                  *)
(*                                                                         *)
(* Abstractions.  Secrets are numbers: recovery n of the account sets      *)
(* password n, and every recovery code published is a new number.  A       *)
(* password typed is the right one of that moment, or wrong.  There is no  *)
(* clock: a challenge, a device and a failure window may run out at any    *)
(* time.  JWTs and access tokens do not expire, which allows more.         *)
(***************************************************************************)
EXTENDS Integers, FiniteSets

CONSTANTS
  Requests,       \* requests in progress at the same time
  Devices,        \* rows of TrustedLoginDevice
  Challenges,     \* rows of TrustedLoginChallenge
  Account,        \* names the account's own failure budget
  None,           \* absent
  FailureLimit,   \* FAILURE_LIMIT
  MaxDevices,     \* MAX_DEVICES
  MaxOpen,        \* outstanding challenges of a device
  MaxVersion,     \* bound: logouts and recoveries
  MaxRecoveries,  \* bound: recoveries
  MaxCodes,       \* bound: recovery codes published
  MaxGrants       \* bound: consents

ASSUME AccessAssumption ==
  /\ Account \notin Devices /\ None \notin Devices \cup Challenges
  /\ {FailureLimit, MaxDevices, MaxOpen} \subseteq Nat /\ FailureLimit > 0
  /\ {MaxVersion, MaxRecoveries, MaxCodes, MaxGrants} \subseteq Nat

VARIABLES
  user,       \* the User row
  sessions,   \* JWTs handed out
  device,     \* device[d]: its TrustedLoginDevice row
  challenge,  \* challenge[x]: its TrustedLoginChallenge row
  budget,     \* budget[b]: failures and whether their window still runs
  connection, \* the OAuthConnection row
  grants,     \* Grant artifacts stored; they are numbered as they are saved
  saved,      \* number of the last Grant saved
  code,       \* code[g]: the authorization code of grant g
  tokens,     \* grants with an access token stored
  req,        \* req[r]: the request
  hist        \* history: what happened, for the properties

credentials == <<user, sessions>>
trusted == <<device, challenge, budget>>
oauth == <<connection, grants, saved, code, tokens>>
vars == <<user, sessions, device, challenge, budget, connection, grants,
          saved, code, tokens, req, hist>>

-----------------------------------------------------------------------------

Passwords == 0 .. MaxRecoveries
Wrong == -1
Codes == 0 .. MaxCodes
Versions == 0 .. MaxVersion
Grants == 1 .. MaxGrants
Budgets == {Account} \cup Devices

User == [password : Passwords, code : Codes, version : Versions,
         deviceVersion : Passwords]

\* `password' of a session, a device or a connection is history: the password
\* whose proof it goes back to.
Session == [version : Versions, password : Passwords]

Device ==
  [state : {"none", "enrolled", "revoked", "expired"},
   version : Passwords, password : Passwords]

Challenge == [state : {"none", "open", "expired", "used", "deleted"},
              device : Devices \cup {None}]

Connection ==
  [grant : {0} \cup Grants, revoked : BOOLEAN, connected : BOOLEAN,
   password : Passwords]

Request ==
  [pc : {"idle", "sign", "recover", "rotate", "enroll", "revoke", "claim",
         "device", "consent", "finish", "exchange", "issue"},
   version   : Versions,                \* of its session, or of the row read
   password  : Passwords \cup {Wrong},  \* typed; a consent's: its session's
   code      : Codes,
   device    : Devices \cup {None},
   challenge : Challenges \cup {None},
   inTime    : BOOLEAN,                 \* the challenge, when the row was read
   grant     : {0} \cup Grants]

NoRequest ==
  [pc |-> "idle", version |-> 0, password |-> 0, code |-> 0, device |-> None,
   challenge |-> None, inTime |-> FALSE, grant |-> 0]

History ==
  [wrong   : [Budgets -> Nat],      \* wrong passwords in the current window
   claims  : [Challenges -> Nat],   \* logins that burned a challenge
   spent   : [Codes -> Nat],        \* recoveries with a code
   issued  : [Grants -> Nat],       \* token exchanges of a grant
   retired : SUBSET Grants]         \* replaced, revoked or recovered away

NoFailures == [failures |-> 0, live |-> FALSE]

Init ==
  /\ user = [password |-> 0, code |-> 0, version |-> 0, deviceVersion |-> 0]
  /\ sessions = {[version |-> 0, password |-> 0]}
  /\ device = [d \in Devices |-> [state |-> "none", version |-> 0, password |-> 0]]
  /\ challenge = [x \in Challenges |-> [state |-> "none", device |-> None]]
  /\ budget = [b \in Budgets |-> NoFailures]
  /\ connection = [grant |-> 0, revoked |-> FALSE, connected |-> FALSE, password |-> 0]
  /\ grants = {} /\ saved = 0
  /\ code = [g \in Grants |-> "none"]
  /\ tokens = {}
  /\ req = [r \in Requests |-> NoRequest]
  /\ hist = [wrong |-> [b \in Budgets |-> 0], claims |-> [x \in Challenges |-> 0],
             spent |-> [c \in Codes |-> 0], issued |-> [g \in Grants |-> 0],
             retired |-> {}]

-----------------------------------------------------------------------------

Start(r, asked) ==
  /\ req[r].pc = "idle"
  /\ req' = [req EXCEPT ![r] = asked]

Go(r, pc) == req' = [req EXCEPT ![r].pc = pc]
Finish(r) == req' = [req EXCEPT ![r] = NoRequest]

\* requireAuth: the cookie's version is the account's.
Live(s) == s.version = user.version

Typed == {user.password, Wrong}
PasswordIsRight(r) == req[r].password = user.password

-----------------------------------------------------------------------------
(* Sessions.                                                                 *)

\* POST /auth/login reads the account once and compares the password with what
\* it read; the comparison takes long.
Login(r) ==
  /\ Start(r, [NoRequest EXCEPT !.pc = "sign", !.version = user.version,
                                !.password = user.password])
  /\ UNCHANGED <<credentials, trusted, oauth, hist>>

\* The version a session is signed with: the one the proof was checked against,
\* although the row may be read again for the answer.
SignedVersionNow(r) == user.version
SignedVersion(r) == req[r].version

Sign(r) ==
  /\ req[r].pc = "sign"
  /\ sessions' = sessions \cup {[version |-> SignedVersion(r), password |-> req[r].password]}
  /\ Finish(r)
  /\ UNCHANGED <<user, trusted, oauth, hist>>

\* revokeAuthToken; a session that is no longer the current one does nothing.
Logout(s) ==
  /\ Live(s) /\ user.version < MaxVersion
  /\ user' = [user EXCEPT !.version = @ + 1]
  /\ UNCHANGED <<sessions, trusted, oauth, req, hist>>

-----------------------------------------------------------------------------
(* The recovery code.                                                        *)

\* In a live session the row is read again and the password compared with it.
AskRotation(r) ==
  /\ \E s \in sessions : Live(s)
  /\ Start(r, [NoRequest EXCEPT !.pc = "rotate", !.version = user.version,
                                !.password = user.password, !.code = user.code])
  /\ UNCHANGED <<credentials, trusted, oauth, hist>>

\* Nothing of what was read has changed.
RotationStillHolds(r) ==
  /\ PasswordIsRight(r)
  /\ req[r].version = user.version
  /\ req[r].code = user.code

Rotate(r) ==
  /\ req[r].pc = "rotate"
  /\ IF RotationStillHolds(r)
     THEN user.code < MaxCodes /\ user' = [user EXCEPT !.code = @ + 1]
     ELSE user' = user
  /\ Finish(r)
  /\ UNCHANGED <<sessions, trusted, oauth, hist>>

\* recoverPasswordWithSession reads the account and verifies the code.
AskRecovery(r) ==
  /\ Start(r, [NoRequest EXCEPT !.pc = "recover", !.version = user.version,
                                !.code = user.code])
  /\ UNCHANGED <<credentials, trusted, oauth, hist>>

RecoveryStillHoldsAnyhow(r) == TRUE
RecoveryStillHolds(r) == req[r].code = user.code /\ req[r].version = user.version

\* What recovery leaves of the account and of its trusted devices.
AfterRecovery ==
  [user |-> [password |-> user.password + 1, code |-> user.code + 1,
             version |-> user.version + 1, deviceVersion |-> user.deviceVersion + 1],
   device |-> [d \in Devices |->
                 IF device[d].state = "none" THEN device[d]
                 ELSE [device[d] EXCEPT !.state = "revoked"]]]

\* Revokes the connection and deletes the artifacts of its grant.
CutConnection ==
  /\ connection' = [connection EXCEPT !.revoked = TRUE]
  /\ grants' = grants \ {connection.grant}
  /\ tokens' = tokens \ {connection.grant}
  /\ code' = [g \in Grants |-> IF g = connection.grant THEN "deleted" ELSE code[g]]
  /\ saved' = saved

\* The session signed for the answer has the version this very update made.
Recover(r) ==
  /\ req[r].pc = "recover"
  /\ \/ /\ ~RecoveryStillHolds(r)
        /\ Finish(r)
        /\ UNCHANGED <<credentials, trusted, oauth, hist>>
     \/ /\ RecoveryStillHolds(r)
        /\ user.password < MaxRecoveries
        /\ user.code < MaxCodes
        /\ user.version < MaxVersion
        /\ user' = AfterRecovery.user
        /\ device' = AfterRecovery.device
        /\ budget' = [budget EXCEPT ![Account] = NoFailures]
        /\ CutConnection
        /\ req' = [req EXCEPT ![r].pc = "sign", ![r].version = @ + 1,
                              ![r].password = user.password + 1]
        /\ hist' = [hist EXCEPT !.wrong[Account] = 0, !.spent[req[r].code] = @ + 1,
                                !.retired = @ \cup ({connection.grant} \ {0})]
        /\ UNCHANGED <<sessions, challenge>>

-----------------------------------------------------------------------------
(* Trusted devices.                                                          *)

ValidDevice(d) ==
  /\ device[d].state = "enrolled"
  /\ device[d].version = user.deviceVersion

LimitedLate(b) == budget[b].live /\ budget[b].failures > FailureLimit
Limited(b) == budget[b].live /\ budget[b].failures >= FailureLimit

\* A wrong password counts in the running window or opens a new one.
CountFailure(b) ==
  /\ budget' = [budget EXCEPT ![b] = [failures |-> IF @.live THEN @.failures + 1 ELSE 1,
                                      live |-> TRUE]]
  /\ hist' = [hist EXCEPT !.wrong[b] = @ + 1]

Forgive(b) ==
  /\ budget' = [budget EXCEPT ![b] = NoFailures]
  /\ hist' = [hist EXCEPT !.wrong[b] = 0]

WindowEnds(b) ==
  /\ budget[b].live
  /\ budget' = [budget EXCEPT ![b].live = FALSE]
  /\ hist' = [hist EXCEPT !.wrong[b] = 0]
  /\ UNCHANGED <<credentials, device, challenge, oauth, req>>

DeviceExpires(d) ==
  /\ device[d].state = "enrolled"
  /\ device' = [device EXCEPT ![d].state = "expired"]
  /\ UNCHANGED <<credentials, challenge, budget, oauth, req, hist>>

AskEnrollment(r) ==
  /\ \E s \in sessions, p \in Typed :
       /\ Live(s)
       /\ Start(r, [NoRequest EXCEPT !.pc = "enroll", !.version = s.version,
                                     !.password = p])
  /\ UNCHANGED <<credentials, trusted, oauth, hist>>

MayEnroll(r) == req[r].version = user.version

\* One transaction under the account's row lock; a full list of devices aborts
\* it, the forgiven failures included.
Enroll(r) ==
  /\ req[r].pc = "enroll"
  /\ Finish(r)
  /\ \/ /\ ~MayEnroll(r) \/ Limited(Account)
        /\ UNCHANGED <<device, budget, hist>>
     \/ /\ MayEnroll(r) /\ ~Limited(Account)
        /\ ~PasswordIsRight(r)
        /\ CountFailure(Account)
        /\ device' = device
     \/ /\ MayEnroll(r) /\ ~Limited(Account)
        /\ PasswordIsRight(r)
        /\ IF Cardinality({d \in Devices : ValidDevice(d)}) >= MaxDevices
           THEN UNCHANGED <<device, budget, hist>>
           ELSE /\ \E d \in Devices :
                     /\ device[d].state = "none"
                     /\ device' = [device EXCEPT ![d] =
                          [state |-> "enrolled", version |-> user.deviceVersion,
                           password |-> req[r].password]]
                /\ Forgive(Account)
  /\ UNCHANGED <<credentials, challenge, oauth>>

AskDeviceRevocation(r) ==
  /\ \E s \in sessions, d \in Devices, p \in Typed :
       /\ Live(s)
       /\ device[d].state # "none"
       /\ Start(r, [NoRequest EXCEPT !.pc = "revoke", !.device = d, !.password = p])
  /\ UNCHANGED <<credentials, trusted, oauth, hist>>

RevokeDevice(r) ==
  /\ req[r].pc = "revoke"
  /\ Finish(r)
  /\ \/ /\ Limited(Account)
        /\ UNCHANGED <<device, budget, hist>>
     \/ /\ ~Limited(Account) /\ ~PasswordIsRight(r)
        /\ CountFailure(Account)
        /\ device' = device
     \/ /\ ~Limited(Account) /\ PasswordIsRight(r)
        /\ Forgive(Account)
        /\ device' = [device EXCEPT ![req[r].device].state = "revoked"]
  /\ UNCHANGED <<credentials, challenge, oauth>>

\* Under the device's row lock: used and expired challenges go, and a new one
\* comes unless too many are open.
BeginChallenge(d) ==
  LET kept == [x \in Challenges |->
                 IF challenge[x].device = d /\ challenge[x].state \in {"used", "expired"}
                 THEN [challenge[x] EXCEPT !.state = "deleted"] ELSE challenge[x]]
      open == {x \in Challenges : kept[x] = [state |-> "open", device |-> d]}
  IN /\ ValidDevice(d)
     /\ IF Cardinality(open) >= MaxOpen
        THEN challenge' = kept
        ELSE \E x \in Challenges :
               /\ challenge[x].state = "none"
               /\ challenge' = [kept EXCEPT ![x] = [state |-> "open", device |-> d]]
     /\ UNCHANGED <<credentials, device, budget, oauth, req, hist>>

ChallengeExpires(x) ==
  /\ challenge[x].state = "open"
  /\ challenge' = [challenge EXCEPT ![x].state = "expired"]
  /\ UNCHANGED <<credentials, device, budget, oauth, req, hist>>

\* authenticateTrustedDevice, 1: the device as read without a lock, and the
\* time every later comparison with the challenge uses.
ReadDevice(r) ==
  /\ \E x \in Challenges, p \in Typed :
       /\ challenge[x].state # "none"
       /\ ValidDevice(challenge[x].device)
       /\ Start(r, [NoRequest EXCEPT !.pc = "claim", !.device = challenge[x].device,
                                     !.challenge = x, !.password = p,
                                     !.inTime = challenge[x].state # "expired"])
  /\ UNCHANGED <<credentials, trusted, oauth, hist>>

\* The challenge has not been used, nor had it expired when the request began.
MayClaim(r) ==
  /\ challenge[req[r].challenge].state \in {"open", "expired"}
  /\ req[r].inTime

\* 2: one conditional update burns the challenge, whatever follows.
Claim(r) ==
  /\ req[r].pc = "claim"
  /\ IF MayClaim(r)
     THEN /\ challenge' = [challenge EXCEPT ![req[r].challenge].state = "used"]
          /\ hist' = [hist EXCEPT !.claims[req[r].challenge] = @ + 1]
          /\ Go(r, "device")
     ELSE /\ UNCHANGED <<challenge, hist>>
          /\ Finish(r)
  /\ UNCHANGED <<credentials, device, budget, oauth>>

\* 3: under the device's row lock; the device is looked at again.
DeviceLogin(r) ==
  /\ req[r].pc = "device"
  /\ LET d == req[r].device IN
     \/ /\ ~ValidDevice(d) \/ Limited(d)
        /\ Finish(r)
        /\ UNCHANGED <<budget, hist>>
     \/ /\ ValidDevice(d) /\ ~Limited(d) /\ ~PasswordIsRight(r)
        /\ CountFailure(d)
        /\ Finish(r)
     \/ /\ ValidDevice(d) /\ ~Limited(d) /\ PasswordIsRight(r)
        /\ Forgive(d)
        /\ req' = [req EXCEPT ![r] = [NoRequest EXCEPT !.pc = "sign",
                     !.version = user.version, !.password = req[r].password]]
  /\ UNCHANGED <<credentials, device, challenge, oauth>>

-----------------------------------------------------------------------------
(* The OAuth connection of one client.                                       *)

\* The user accepts, in a session that is live when the request arrives; a new
\* Grant is saved first.
AskConsent(r) ==
  /\ saved < MaxGrants
  /\ \E s \in sessions :
       /\ Live(s)
       /\ Start(r, [NoRequest EXCEPT !.pc = "consent", !.version = s.version,
                                     !.password = s.password, !.grant = saved + 1])
  /\ saved' = saved + 1
  /\ grants' = grants \cup {saved + 1}
  /\ UNCHANGED <<credentials, trusted, connection, code, tokens, hist>>

\* persistOAuthConsentForSession, under the user's lock.
MayPersist(r) == req[r].version = user.version

PersistConsent(r) ==
  /\ req[r].pc = "consent"
  /\ IF MayPersist(r)
     THEN /\ connection' = [grant |-> req[r].grant, revoked |-> FALSE,
                            connected |-> FALSE, password |-> req[r].password]
          /\ hist' = [hist EXCEPT !.retired = @ \cup ({connection.grant} \ {0})]
          /\ Go(r, "finish")
     ELSE /\ UNCHANGED <<connection, hist>>
          /\ Finish(r)
  /\ UNCHANGED <<credentials, trusted, grants, saved, code, tokens>>

\* The browser is sent back with an authorization code.
IssueCode(r) ==
  /\ req[r].pc = "finish"
  /\ code' = IF req[r].grant \in grants THEN [code EXCEPT ![req[r].grant] = "fresh"]
                                        ELSE code
  /\ Finish(r)
  /\ UNCHANGED <<credentials, trusted, connection, grants, saved, tokens, hist>>

\* A token exchange loads the code and its grant, consumes the code and then
\* stores an access token.
LoadCode(r) ==
  /\ \E g \in grants :
       /\ code[g] = "fresh"
       /\ Start(r, [NoRequest EXCEPT !.pc = "exchange", !.grant = g])
  /\ UNCHANGED <<credentials, trusted, oauth, hist>>

Consume(r) ==
  /\ req[r].pc = "exchange"
  /\ IF code[req[r].grant] = "fresh"
     THEN /\ code' = [code EXCEPT ![req[r].grant] = "consumed"]
          /\ Go(r, "issue")
     ELSE /\ code' = code
          /\ Finish(r)
  /\ UNCHANGED <<credentials, trusted, connection, grants, saved, tokens, hist>>

\* The connection counts as connected only by a token of its present grant.
MarksConnectedByClient(g) == connection.grant # 0 /\ ~connection.revoked
MarksConnected(g) == connection.grant = g /\ ~connection.revoked

IssueToken(r) ==
  /\ req[r].pc = "issue"
  /\ tokens' = tokens \cup {req[r].grant}
  /\ connection' = IF MarksConnected(req[r].grant)
                   THEN [connection EXCEPT !.connected = TRUE] ELSE connection
  /\ hist' = [hist EXCEPT !.issued[req[r].grant] = @ + 1]
  /\ Finish(r)
  /\ UNCHANGED <<credentials, trusted, grants, saved, code>>

\* revokeClientGrant, under the user's lock.
Disconnect ==
  /\ \E s \in sessions : Live(s)
  /\ connection.grant # 0 /\ ~connection.revoked
  /\ CutConnection
  /\ hist' = [hist EXCEPT !.retired = @ \cup {connection.grant}]
  /\ UNCHANGED <<credentials, trusted, req>>

\* getOAuthGrantSubject accepts a token of grant g.
Accepted(g) ==
  /\ g \in tokens /\ g \in grants
  /\ connection.grant = g /\ ~connection.revoked

-----------------------------------------------------------------------------

Next ==
  \/ \E r \in Requests :
       \/ Login(r) \/ Sign(r)
       \/ AskRotation(r) \/ Rotate(r)
       \/ AskRecovery(r) \/ Recover(r)
       \/ AskEnrollment(r) \/ Enroll(r)
       \/ AskDeviceRevocation(r) \/ RevokeDevice(r)
       \/ ReadDevice(r) \/ Claim(r) \/ DeviceLogin(r)
       \/ AskConsent(r) \/ PersistConsent(r) \/ IssueCode(r)
       \/ LoadCode(r) \/ Consume(r) \/ IssueToken(r)
  \/ \E s \in sessions : Logout(s)
  \/ Disconnect
  \/ \E d \in Devices : BeginChallenge(d) \/ DeviceExpires(d)
  \/ \E x \in Challenges : ChallengeExpires(x)
  \/ \E b \in Budgets : WindowEnds(b)

Spec == Init /\ [][Next]_vars

-----------------------------------------------------------------------------

\* Every variable keeps its type, and versions count what they should: the
\* device version is the number of recoveries, which is also the password's.
TypeOK ==
  /\ user \in User /\ user.deviceVersion = user.password
  /\ user.password <= user.version /\ user.password <= user.code
  /\ sessions \subseteq Session
  /\ device \in [Devices -> Device]
  /\ challenge \in [Challenges -> Challenge]
  /\ \A b \in Budgets : budget[b].failures \in 0 .. FailureLimit /\ budget[b].live \in BOOLEAN
  /\ connection \in Connection
  /\ grants \subseteq 1 .. saved /\ saved \in 0 .. MaxGrants
  /\ code \in [Grants -> {"none", "fresh", "consumed", "deleted"}]
  /\ tokens \subseteq 1 .. saved
  /\ req \in [Requests -> Request]
  /\ hist \in History

\* After a recovery nothing opened with the former password works any more,
\* also when it was begun before: no session signed late, no device, no
\* connection consented to (services/auth.ts, lib/trusted-device-login.ts,
\* oauth/connection.ts).
AccessNeedsThePassword ==
  /\ \A s \in sessions : Live(s) => s.password = user.password
  /\ \A d \in Devices : ValidDevice(d) => device[d].password = user.password
  /\ ~connection.revoked => connection.grant = 0 \/ connection.password = user.password

\* A challenge lets one login try its password, a recovery code recovers once,
\* and the authorization code of a consent gives one token.
ProofsWorkOnce ==
  /\ \A x \in Challenges : hist.claims[x] <= 1
  /\ \A c \in Codes : hist.spent[c] <= 1
  /\ \A g \in Grants : hist.issued[g] <= 1

\* However the requests of a window overlap, enrolment and revocation together
\* compare at most FAILURE_LIMIT wrong passwords, and so does each device.
GuessesAreLimited == \A b \in Budgets : hist.wrong[b] <= FailureLimit

\* A consent that was replaced or cut stays without effect, although its tokens
\* may be stored later, and a connection shown as connected has had a token of
\* its own consent (oauth/adapter.ts).
TokensFollowTheConsent ==
  /\ \A g \in hist.retired : ~Accepted(g)
  /\ connection.connected => hist.issued[connection.grant] > 0

=============================================================================
