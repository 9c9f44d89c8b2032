------------------------ MODULE AccountAccessProofs ------------------------
(****************************************************************************)
(* Theorems about the access to one account, for any number of overlapping  *)
(* requests, devices, challenges and consents.  The inductive invariant     *)
(* says of everything read earlier how old it may be: what carries the      *)
(* account's present version was proved with the present password, and what *)
(* carries the number of a consent belongs to one request only.             *)
(****************************************************************************)
EXTENDS AccountAccess, TLAPS

Budget == [failures : 0 .. FailureLimit, live : BOOLEAN]

\* What a request at a given step has in its fields.
RequestType(q) ==
  /\ q.pc \in {"sign", "consent"} => q.password \in Passwords
  /\ q.pc \in {"claim", "device", "revoke"} => q.device \in Devices
  /\ q.pc = "claim" => q.challenge \in Challenges
  /\ q.pc \in {"consent", "finish", "exchange", "issue"} => q.grant \in 1 .. saved

AccountTypes ==
  /\ user \in User /\ user.deviceVersion = user.password
  /\ user.password <= user.version /\ user.password <= user.code
  /\ sessions \subseteq Session

DeviceTypes ==
  /\ device \in [Devices -> Device]
  /\ challenge \in [Challenges -> Challenge]
  /\ \A x \in Challenges : challenge[x].state # "none" => challenge[x].device \in Devices
  /\ budget \in [Budgets -> Budget]

ConsentTypes ==
  /\ connection \in Connection /\ connection.grant <= saved
  /\ saved \in 0 .. MaxGrants /\ grants \subseteq 1 .. saved
  /\ code \in [Grants -> {"none", "fresh", "consumed", "deleted"}]
  /\ tokens \subseteq 1 .. saved

Types ==
  /\ AccountTypes
  /\ DeviceTypes
  /\ ConsentTypes
  /\ req \in [Requests -> Request] /\ \A r \in Requests : RequestType(req[r])
  /\ hist \in History

\* A proof of version v given with password p: not newer than the account, and
\* given with the present password when it is as new.
Dated(v, p, now) == v <= now /\ (v = now => p = user.password)

Credentials ==
  /\ \A s \in sessions : Dated(s.version, s.password, user.version)
  /\ \A r \in Requests : req[r].pc \in {"sign", "consent"} =>
                           Dated(req[r].version, req[r].password, user.version)
  /\ \A d \in Devices : device[d].state = "enrolled" =>
                          Dated(device[d].version, device[d].password, user.deviceVersion)
  /\ ~connection.revoked => connection.grant = 0 \/ connection.password = user.password

\* The wrong passwords of a window are the failures its budget counts.
Guesses ==
  \A b \in Budgets : hist.wrong[b] = IF budget[b].live THEN budget[b].failures ELSE 0

\* Only a challenge that is used or gone has been claimed, and only a code that
\* was replaced has been spent.
Burned ==
  /\ \A x \in Challenges :
       /\ hist.claims[x] <= 1
       /\ challenge[x].state \in {"none", "open", "expired"} => hist.claims[x] = 0
  /\ \A c \in Codes :
       /\ hist.spent[c] <= 1
       /\ c >= user.code => hist.spent[c] = 0

Consenting(q) == q.pc \in {"consent", "finish"}

\* Only one request carries a consent that has no code yet, and only one the
\* consumed code of a grant.
CodesOnce ==
  /\ \A g \in Grants :
       /\ hist.issued[g] <= 1
       /\ g > saved => code[g] = "none"
       /\ code[g] \in {"none", "fresh"} => hist.issued[g] = 0
       /\ code[g] = "deleted" => g \notin grants
  /\ \A r \in Requests :
       /\ Consenting(req[r]) => code[req[r].grant] \in {"none", "deleted"}
       /\ req[r].pc = "issue" => /\ code[req[r].grant] \in {"consumed", "deleted"}
                                 /\ hist.issued[req[r].grant] = 0
  /\ \A r, q \in Requests :
       /\ req[r].grant = req[q].grant
       /\ \/ Consenting(req[r]) /\ Consenting(req[q])
          \/ req[r].pc = "issue" /\ req[q].pc = "issue"
       => r = q

\* A retired consent is not the connection's, nor can it become it.
Retired ==
  /\ \A g \in hist.retired : g <= saved /\ (connection.grant = g => connection.revoked)
  /\ \A r \in Requests : req[r].pc = "consent" =>
       req[r].grant # connection.grant /\ req[r].grant \notin hist.retired
  /\ connection.connected => connection.grant # 0 /\ hist.issued[connection.grant] > 0

IInv == Types /\ Credentials /\ Guesses /\ Burned /\ CodesOnce /\ Retired

-----------------------------------------------------------------------------

LEMMA Bounds ==
  /\ FailureLimit \in Nat /\ FailureLimit > 0
  /\ MaxVersion \in Nat /\ MaxRecoveries \in Nat /\ MaxCodes \in Nat /\ MaxGrants \in Nat
BY AccessAssumption

LEMMA NoRequestType == NoRequest \in Request /\ NoRequest.pc = "idle" /\ RequestType(NoRequest)
BY Bounds DEF NoRequest, Request, RequestType, Passwords, Versions, Codes

LEMMA PutType ==
  ASSUME Types, NEW r \in Requests, NEW q \in Request, RequestType(q),
         req' = [req EXCEPT ![r] = q], saved' = saved
  PROVE  req' \in [Requests -> Request] /\ \A s \in Requests : RequestType(req[s])'
BY DEF Types, RequestType, Passwords

LEMMA StartType ==
  ASSUME Types, NEW r \in Requests, NEW q \in Request, RequestType(q), Start(r, q), saved' = saved
  PROVE  req' \in [Requests -> Request] /\ \A s \in Requests : RequestType(req[s])'
BY PutType DEF Start

LEMMA FinishType ==
  ASSUME Types, NEW r \in Requests, Finish(r), saved' = saved
  PROVE  req' \in [Requests -> Request] /\ \A s \in Requests : RequestType(req[s])'
BY PutType, NoRequestType DEF Finish

LEMMA GoType ==
  ASSUME Types, NEW r \in Requests, NEW pc \in {"device", "finish", "issue"}, Go(r, pc),
         pc = "device" => req[r].device \in Devices,
         pc \in {"finish", "issue"} => req[r].grant \in 1 .. saved,
         saved' = saved
  PROVE  req' \in [Requests -> Request] /\ \A s \in Requests : RequestType(req[s])'
<1> DEFINE q == [req[r] EXCEPT !.pc = pc]
<1>1. q \in Request /\ q.pc = pc /\ q.device = req[r].device /\ q.grant = req[r].grant
  BY DEF Types, Request
<1>2. RequestType(q)
  BY <1>1 DEF RequestType
<1>3. req' = [req EXCEPT ![r] = q]
  BY DEF Go
<1> QED
  BY <1>1, <1>2, <1>3, PutType

ReqTypes == req \in [Requests -> Request] /\ \A r \in Requests : RequestType(req[r])

LEMMA CutTypes ==
  ASSUME Types, CutConnection
  PROVE  ConsentTypes' /\ saved' = saved
BY DEF CutConnection, Types, ConsentTypes, Connection

\* The history changes one number at a time.
LEMMA WrongIs ==
  ASSUME NEW h \in History, NEW b \in Budgets, NEW n \in Nat
  PROVE  /\ [h EXCEPT !.wrong[b] = n] \in History
         /\ [h EXCEPT !.wrong[b] = n].wrong = [h.wrong EXCEPT ![b] = n]
         /\ [h EXCEPT !.wrong[b] = n].claims = h.claims
         /\ [h EXCEPT !.wrong[b] = n].spent = h.spent
         /\ [h EXCEPT !.wrong[b] = n].issued = h.issued
         /\ [h EXCEPT !.wrong[b] = n].retired = h.retired
<1> DEFINE w == [h.wrong EXCEPT ![b] = n]
<1>1. w \in [Budgets -> Nat]
  BY DEF History
<1>2. [h EXCEPT !.wrong[b] = n] = [h EXCEPT !.wrong = w]
  BY DEF History
<1> HIDE DEF w
<1>3. /\ [h EXCEPT !.wrong = w] \in History
      /\ [h EXCEPT !.wrong = w].wrong = w
      /\ [h EXCEPT !.wrong = w].claims = h.claims
      /\ [h EXCEPT !.wrong = w].spent = h.spent
      /\ [h EXCEPT !.wrong = w].issued = h.issued
      /\ [h EXCEPT !.wrong = w].retired = h.retired
  BY <1>1 DEF History
<1> QED
  BY <1>2, <1>3 DEF w

\* What counting a failure does to the budget and to the history.
LEMMA FailureTypes ==
  ASSUME Types, NEW b \in Budgets, ~Limited(b), CountFailure(b)
  PROVE  /\ budget' \in [Budgets -> Budget] /\ hist' \in History
         /\ hist'.wrong = [hist.wrong EXCEPT ![b] = @ + 1]
         /\ hist'.claims = hist.claims /\ hist'.spent = hist.spent
         /\ hist'.issued = hist.issued /\ hist'.retired = hist.retired
<1> DEFINE n == IF budget[b].live THEN budget[b].failures + 1 ELSE 1
<1>1. budget[b] \in Budget /\ hist \in History /\ hist.wrong[b] \in Nat
  BY DEF Types, DeviceTypes, History
<1>2. n \in 0 .. FailureLimit
  BY <1>1, Bounds DEF Budget, Limited
<1>3. budget' = [budget EXCEPT ![b] = [failures |-> n, live |-> TRUE]]
  BY DEF CountFailure
<1>4. [failures |-> n, live |-> TRUE] \in Budget
  BY <1>2 DEF Budget
<1>5. hist' = [hist EXCEPT !.wrong[b] = hist.wrong[b] + 1]
  BY DEF CountFailure
<1>6. hist.wrong[b] + 1 \in Nat
  BY <1>1
<1> QED
  BY <1>1, <1>3, <1>4, <1>5, <1>6, WrongIs DEF Types, DeviceTypes

LEMMA ForgiveTypes ==
  ASSUME Types, NEW b \in Budgets, Forgive(b)
  PROVE  /\ budget' \in [Budgets -> Budget] /\ hist' \in History
         /\ hist'.wrong = [hist.wrong EXCEPT ![b] = 0]
         /\ hist'.claims = hist.claims /\ hist'.spent = hist.spent
         /\ hist'.issued = hist.issued /\ hist'.retired = hist.retired
<1>1. NoFailures \in Budget
  BY Bounds DEF NoFailures, Budget
<1>2. budget' \in [Budgets -> Budget]
  BY <1>1 DEF Forgive, Types, DeviceTypes
<1> QED
  BY <1>2, WrongIs DEF Forgive, Types

LEMMA SessionTypes ==
  ASSUME Types, NEW r \in Requests,
         Login(r) \/ Sign(r) \/ AskRotation(r) \/ Rotate(r) \/ AskRecovery(r)
  PROVE  Types'
<1>1. CASE Login(r)
  <2> DEFINE q == [NoRequest EXCEPT !.pc = "sign", !.version = user.version,
                                    !.password = user.password]
  <2>1. q \in Request /\ RequestType(q)
    BY NoRequestType DEF Types, AccountTypes, User, Request, RequestType
  <2>2. ReqTypes'
    BY <1>1, <2>1, StartType DEF Login, oauth, ReqTypes
  <2> QED
    BY <1>1, <2>2 DEF Login, credentials, trusted, oauth, Types, AccountTypes, DeviceTypes,
                      ConsentTypes, ReqTypes
<1>2. CASE Sign(r)
  <2>1. ReqTypes'
    BY <1>2, FinishType DEF Sign, oauth, ReqTypes
  <2>2. [version |-> SignedVersion(r), password |-> req[r].password] \in Session
    BY <1>2 DEF Sign, SignedVersion, Types, Request, RequestType, Session
  <2>3. AccountTypes'
    BY <1>2, <2>2 DEF Sign, Types, AccountTypes
  <2> QED
    BY <1>2, <2>1, <2>3 DEF Sign, trusted, oauth, Types, DeviceTypes, ConsentTypes, ReqTypes
<1>3. CASE AskRotation(r)
  <2> DEFINE q == [NoRequest EXCEPT !.pc = "rotate", !.version = user.version,
                                    !.password = user.password, !.code = user.code]
  <2>1. q \in Request /\ RequestType(q)
    BY NoRequestType DEF Types, AccountTypes, User, Request, RequestType
  <2>2. ReqTypes'
    BY <1>3, <2>1, StartType DEF AskRotation, oauth, ReqTypes
  <2> QED
    BY <1>3, <2>2 DEF AskRotation, credentials, trusted, oauth, Types, AccountTypes, DeviceTypes,
                      ConsentTypes, ReqTypes
<1>4. CASE Rotate(r)
  <2>1. ReqTypes'
    BY <1>4, FinishType DEF Rotate, oauth, ReqTypes
  <2>2. AccountTypes'
    BY <1>4, Bounds DEF Rotate, Types, AccountTypes, User, Codes, Passwords, Versions
  <2> QED
    BY <1>4, <2>1, <2>2 DEF Rotate, trusted, oauth, Types, DeviceTypes, ConsentTypes, ReqTypes
<1>5. CASE AskRecovery(r)
  <2> DEFINE q == [NoRequest EXCEPT !.pc = "recover", !.version = user.version,
                                    !.code = user.code]
  <2>1. q \in Request /\ RequestType(q)
    BY NoRequestType DEF Types, AccountTypes, User, Request, RequestType
  <2>2. ReqTypes'
    BY <1>5, <2>1, StartType DEF AskRecovery, oauth, ReqTypes
  <2> QED
    BY <1>5, <2>2 DEF AskRecovery, credentials, trusted, oauth, Types, AccountTypes, DeviceTypes,
                      ConsentTypes, ReqTypes
<1> QED
  BY <1>1, <1>2, <1>3, <1>4, <1>5

LEMMA RecoverHistory ==
  ASSUME Types, NEW r \in Requests, Recover(r), RecoveryStillHolds(r)
  PROVE  /\ hist' \in History
         /\ hist'.wrong = [hist.wrong EXCEPT ![Account] = 0]
         /\ hist'.spent = [hist.spent EXCEPT ![user.code] = @ + 1]
         /\ hist'.retired = hist.retired \cup ({connection.grant} \ {0})
         /\ hist'.claims = hist.claims /\ hist'.issued = hist.issued
<1> DEFINE w == [hist.wrong EXCEPT ![Account] = 0]
           s == [hist.spent EXCEPT ![user.code] = @ + 1]
           t == hist.retired \cup ({connection.grant} \ {0})
<1>1. w \in [Budgets -> Nat]
  BY DEF Types, History, Budgets
<1>2. s \in [Codes -> Nat]
  BY DEF Types, AccountTypes, User, History
<1>3. t \subseteq Grants
  BY DEF Types, History, ConsentTypes, Connection
<1>4. hist' = [hist EXCEPT !.wrong = w, !.spent = s, !.retired = t]
  BY DEF Recover, RecoveryStillHolds, Types, History
<1> HIDE DEF w, s, t
<1>5. /\ hist' \in History
      /\ hist'.wrong = w /\ hist'.spent = s /\ hist'.retired = t
      /\ hist'.claims = hist.claims /\ hist'.issued = hist.issued
  BY <1>1, <1>2, <1>3, <1>4 DEF Types, History
<1> QED
  BY <1>5 DEF w, s, t

LEMMA RecoverTypes ==
  ASSUME Types, NEW r \in Requests, Recover(r)
  PROVE  Types'
<1>1. CASE ~RecoveryStillHolds(r)
  <2>1. ReqTypes'
    BY <1>1, FinishType DEF Recover, oauth, ReqTypes
  <2> QED
    BY <1>1, <2>1 DEF Recover, credentials, trusted, oauth, Types, AccountTypes, DeviceTypes,
                      ConsentTypes, ReqTypes
<1>2. CASE RecoveryStillHolds(r)
  <2>1. AccountTypes'
    BY <1>2, Bounds DEF Recover, AfterRecovery, Types, AccountTypes, User, Codes, Passwords, Versions
  <2>2. ConsentTypes' /\ saved' = saved
    BY <1>2, CutTypes DEF Recover
  <2>3. DeviceTypes'
    <3>1. device' \in [Devices -> Device]
      BY <1>2 DEF Recover, AfterRecovery, Types, DeviceTypes, Device
    <3>2. NoFailures \in Budget
      BY Bounds DEF NoFailures, Budget
    <3> QED
      BY <1>2, <3>1, <3>2 DEF Recover, Types, DeviceTypes
  <2>4. ReqTypes'
    <3> DEFINE q == [req[r] EXCEPT !.pc = "sign", !.version = @ + 1, !.password = user.password + 1]
    <3>1. q \in Request /\ RequestType(q)
      BY <1>2, Bounds DEF Recover, RecoveryStillHolds, Types, AccountTypes, User, Request,
                          RequestType, Passwords, Versions
    <3>2. req' = [req EXCEPT ![r] = q]
      BY <1>2 DEF Recover
    <3> QED
      BY <2>2, <3>1, <3>2, PutType DEF ReqTypes
  <2>5. hist' \in History
    BY <1>2, RecoverHistory
  <2> QED
    BY <2>1, <2>2, <2>3, <2>4, <2>5 DEF Types, ReqTypes
<1> QED
  BY <1>1, <1>2

LEMMA ClaimHistory ==
  ASSUME Types, NEW x \in Challenges, hist' = [hist EXCEPT !.claims[x] = @ + 1]
  PROVE  /\ hist' \in History
         /\ hist'.claims = [hist.claims EXCEPT ![x] = @ + 1]
         /\ hist'.wrong = hist.wrong /\ hist'.spent = hist.spent
         /\ hist'.issued = hist.issued /\ hist'.retired = hist.retired
<1> DEFINE c == [hist.claims EXCEPT ![x] = @ + 1]
<1>1. c \in [Challenges -> Nat]
  BY DEF Types, History
<1>2. hist' = [hist EXCEPT !.claims = c]
  BY DEF Types, History
<1> HIDE DEF c
<1>3. /\ hist' \in History /\ hist'.claims = c
      /\ hist'.wrong = hist.wrong /\ hist'.spent = hist.spent
      /\ hist'.issued = hist.issued /\ hist'.retired = hist.retired
  BY <1>1, <1>2 DEF Types, History
<1> QED
  BY <1>3 DEF c

LEMMA IssueHistory ==
  ASSUME Types, NEW g \in Grants, hist' = [hist EXCEPT !.issued[g] = @ + 1]
  PROVE  /\ hist' \in History
         /\ hist'.issued = [hist.issued EXCEPT ![g] = @ + 1]
         /\ hist'.wrong = hist.wrong /\ hist'.spent = hist.spent
         /\ hist'.claims = hist.claims /\ hist'.retired = hist.retired
<1> DEFINE c == [hist.issued EXCEPT ![g] = @ + 1]
<1>1. c \in [Grants -> Nat]
  BY DEF Types, History
<1>2. hist' = [hist EXCEPT !.issued = c]
  BY DEF Types, History
<1> HIDE DEF c
<1>3. /\ hist' \in History /\ hist'.issued = c
      /\ hist'.wrong = hist.wrong /\ hist'.spent = hist.spent
      /\ hist'.claims = hist.claims /\ hist'.retired = hist.retired
  BY <1>1, <1>2 DEF Types, History
<1> QED
  BY <1>3 DEF c

LEMMA RetireHistory ==
  ASSUME Types, NEW S \in SUBSET Grants, hist' = [hist EXCEPT !.retired = @ \cup S]
  PROVE  /\ hist' \in History /\ hist'.retired = hist.retired \cup S
         /\ hist'.wrong = hist.wrong /\ hist'.spent = hist.spent
         /\ hist'.claims = hist.claims /\ hist'.issued = hist.issued
BY DEF Types, History

LEMMA EnrollmentTypes ==
  ASSUME Types, NEW r \in Requests,
         AskEnrollment(r) \/ Enroll(r) \/ AskDeviceRevocation(r) \/ RevokeDevice(r)
  PROVE  Types'
<1>a. Account \in Budgets
  BY DEF Budgets
<1>1. CASE AskEnrollment(r)
  <2>1. PICK s \in sessions, p \in Typed :
          Start(r, [NoRequest EXCEPT !.pc = "enroll", !.version = s.version, !.password = p])
    BY <1>1 DEF AskEnrollment
  <2> DEFINE q == [NoRequest EXCEPT !.pc = "enroll", !.version = s.version, !.password = p]
  <2>2. q \in Request /\ RequestType(q)
    BY NoRequestType DEF Types, AccountTypes, User, Session, Typed, Request, RequestType
  <2>3. ReqTypes'
    BY <1>1, <2>1, <2>2, StartType DEF AskEnrollment, oauth, ReqTypes
  <2> QED
    BY <1>1, <2>3 DEF AskEnrollment, credentials, trusted, oauth, Types, AccountTypes,
                      DeviceTypes, ConsentTypes, ReqTypes
<1>2. CASE Enroll(r)
  <2>1. ReqTypes'
    BY <1>2, FinishType DEF Enroll, oauth, ReqTypes
  <2>2. budget' \in [Budgets -> Budget] /\ hist' \in History
    BY <1>2, <1>a, FailureTypes, ForgiveTypes DEF Enroll, Types, DeviceTypes
  <2>3. device' \in [Devices -> Device]
    <3>1. CASE device' = device
      BY <3>1 DEF Types, DeviceTypes
    <3>2. ASSUME NEW d \in Devices, PasswordIsRight(r),
                 device' = [device EXCEPT ![d] =
                   [state |-> "enrolled", version |-> user.deviceVersion,
                    password |-> req[r].password]]
          PROVE  device' \in [Devices -> Device]
      BY <3>2 DEF Types, DeviceTypes, AccountTypes, User, Device, PasswordIsRight
    <3> QED
      BY <1>2, <3>1, <3>2 DEF Enroll
  <2> QED
    BY <1>2, <2>1, <2>2, <2>3 DEF Enroll, credentials, oauth, Types, AccountTypes,
                                  DeviceTypes, ConsentTypes, ReqTypes
<1>3. CASE AskDeviceRevocation(r)
  <2>1. PICK d \in Devices, p \in Typed :
          Start(r, [NoRequest EXCEPT !.pc = "revoke", !.device = d, !.password = p])
    BY <1>3 DEF AskDeviceRevocation
  <2> DEFINE q == [NoRequest EXCEPT !.pc = "revoke", !.device = d, !.password = p]
  <2>2. q \in Request /\ RequestType(q)
    BY NoRequestType DEF Types, AccountTypes, User, Typed, Request, RequestType
  <2>3. ReqTypes'
    BY <1>3, <2>1, <2>2, StartType DEF AskDeviceRevocation, oauth, ReqTypes
  <2> QED
    BY <1>3, <2>3 DEF AskDeviceRevocation, credentials, trusted, oauth, Types, AccountTypes,
                      DeviceTypes, ConsentTypes, ReqTypes
<1>4. CASE RevokeDevice(r)
  <2>1. ReqTypes'
    BY <1>4, FinishType DEF RevokeDevice, oauth, ReqTypes
  <2>2. budget' \in [Budgets -> Budget] /\ hist' \in History
    BY <1>4, <1>a, FailureTypes, ForgiveTypes DEF RevokeDevice, Types, DeviceTypes
  <2>3. device' \in [Devices -> Device]
    BY <1>4 DEF RevokeDevice, Types, DeviceTypes, Device
  <2> QED
    BY <1>4, <2>1, <2>2, <2>3 DEF RevokeDevice, credentials, oauth, Types, AccountTypes,
                                  DeviceTypes, ConsentTypes, ReqTypes
<1> QED
  BY <1>1, <1>2, <1>3, <1>4

LEMMA DeviceLoginTypes ==
  ASSUME Types, NEW r \in Requests, ReadDevice(r) \/ Claim(r) \/ DeviceLogin(r)
  PROVE  Types'
<1>1. CASE ReadDevice(r)
  <2>1. PICK x \in Challenges, p \in Typed :
          /\ challenge[x].state # "none"
          /\ Start(r, [NoRequest EXCEPT !.pc = "claim", !.device = challenge[x].device,
                         !.challenge = x, !.password = p,
                         !.inTime = challenge[x].state # "expired"])
    BY <1>1 DEF ReadDevice
  <2> DEFINE late == challenge[x].state # "expired"
             q == [NoRequest EXCEPT !.pc = "claim", !.device = challenge[x].device,
                     !.challenge = x, !.password = p, !.inTime = late]
  <2>2. q \in Request /\ RequestType(q)
    <3>1. late \in BOOLEAN
      OBVIOUS
    <3>2. challenge[x].device \in Devices /\ p \in Passwords \cup {Wrong}
      BY <2>1 DEF Types, AccountTypes, DeviceTypes, User, Typed
    <3> HIDE DEF late
    <3> QED
      BY <3>1, <3>2, NoRequestType DEF Request, RequestType
  <2>3. ReqTypes'
    BY <1>1, <2>1, <2>2, StartType DEF ReadDevice, oauth, ReqTypes
  <2> QED
    BY <1>1, <2>3 DEF ReadDevice, credentials, trusted, oauth, Types, AccountTypes,
                      DeviceTypes, ConsentTypes, ReqTypes
<1>2. CASE Claim(r)
  <2>1. ReqTypes'
    BY <1>2, FinishType, GoType DEF Claim, oauth, ReqTypes, Types, RequestType
  <2>2. req[r].challenge \in Challenges
    BY <1>2 DEF Claim, Types, RequestType
  <2>3. hist' \in History
    BY <1>2, <2>2, ClaimHistory DEF Claim, Types
  <2>4. /\ challenge' \in [Challenges -> Challenge]
        /\ \A x \in Challenges : challenge'[x].state # "none" => challenge'[x].device \in Devices
    BY <1>2, <2>2 DEF Claim, MayClaim, Types, DeviceTypes, Challenge
  <2> QED
    BY <1>2, <2>1, <2>3, <2>4 DEF Claim, credentials, oauth, Types, AccountTypes,
                                  DeviceTypes, ConsentTypes, ReqTypes
<1>3. CASE DeviceLogin(r)
  <2> DEFINE q == [NoRequest EXCEPT !.pc = "sign", !.version = user.version,
                                    !.password = req[r].password]
  <2>1. req[r].device \in Budgets
    BY <1>3 DEF DeviceLogin, Types, RequestType, Budgets
  <2>2. PasswordIsRight(r) => q \in Request /\ RequestType(q)
    BY NoRequestType DEF PasswordIsRight, Types, AccountTypes, User, Request, RequestType
  <2>3. ReqTypes'
    BY <1>3, <2>2, FinishType, PutType DEF DeviceLogin, oauth, ReqTypes
  <2>4. budget' \in [Budgets -> Budget] /\ hist' \in History
    BY <1>3, <2>1, FailureTypes, ForgiveTypes DEF DeviceLogin, Types, DeviceTypes
  <2> QED
    BY <1>3, <2>3, <2>4 DEF DeviceLogin, credentials, oauth, Types, AccountTypes,
                            DeviceTypes, ConsentTypes, ReqTypes
<1> QED
  BY <1>1, <1>2, <1>3

LEMMA ConsentRequestTypes ==
  ASSUME Types, NEW r \in Requests, AskConsent(r) \/ PersistConsent(r) \/ IssueCode(r)
  PROVE  Types'
<1>1. CASE AskConsent(r)
  <2>1. PICK s \in sessions :
          Start(r, [NoRequest EXCEPT !.pc = "consent", !.version = s.version,
                                     !.password = s.password, !.grant = saved + 1])
    BY <1>1 DEF AskConsent
  <2> DEFINE q == [NoRequest EXCEPT !.pc = "consent", !.version = s.version,
                                    !.password = s.password, !.grant = saved + 1]
  <2>a. saved \in 0 .. MaxGrants /\ saved < MaxGrants /\ saved' = saved + 1
    BY <1>1 DEF AskConsent, Types, ConsentTypes
  <2>2. saved + 1 \in Grants /\ saved' = saved + 1 /\ saved \in Nat
    BY <2>a, Bounds DEF Grants
  <2>3. q \in Request /\ q.pc = "consent" /\ q.password \in Passwords /\ q.grant = saved + 1
    BY <2>2, NoRequestType DEF Types, AccountTypes, Session, Request
  <2> HIDE DEF q
  <2>4. req' = [req EXCEPT ![r] = q]
    BY <2>1 DEF Start, q
  <2>5. ReqTypes'
    <3>1. \A n : n \in 1 .. saved => n \in 1 .. saved'
      BY <2>2
    <3>2. saved + 1 \in 1 .. saved'
      BY <2>2
    <3> QED
      BY <2>3, <2>4, <3>1, <3>2 DEF ReqTypes, Types, RequestType
  <2>6. ConsentTypes'
    <3>1. saved' \in 0 .. MaxGrants
      BY <2>a, <2>2, Bounds
    <3>2. connection' \in Connection /\ connection'.grant <= saved'
      <4>1. connection \in Connection /\ connection.grant <= saved /\ connection' = connection
        BY <1>1 DEF AskConsent, Types, ConsentTypes
      <4>2. connection.grant \in Int
        BY <4>1 DEF Connection, Grants
      <4> QED
        BY <2>2, <4>1, <4>2
    <3>3. grants' \subseteq 1 .. saved' /\ tokens' \subseteq 1 .. saved'
      <4>1. /\ grants \subseteq 1 .. saved /\ tokens \subseteq 1 .. saved
            /\ grants' = grants \cup {saved + 1} /\ tokens' = tokens
        BY <1>1 DEF AskConsent, Types, ConsentTypes
      <4> QED
        BY <2>2, <4>1
    <3> QED
      BY <1>1, <3>1, <3>2, <3>3 DEF AskConsent, Types, ConsentTypes
  <2> QED
    BY <1>1, <2>5, <2>6 DEF AskConsent, credentials, trusted, Types, AccountTypes,
                            DeviceTypes, ReqTypes
<1>2. CASE PersistConsent(r)
  <2>1. req[r].grant \in 1 .. saved /\ req[r].password \in Passwords /\ req[r].grant \in Grants
    BY <1>2, Bounds DEF PersistConsent, Types, RequestType, ConsentTypes, Grants
  <2>2. ReqTypes'
    BY <1>2, <2>1, FinishType, GoType DEF PersistConsent, ReqTypes
  <2>3. hist' \in History
    <3>1. {connection.grant} \ {0} \in SUBSET Grants
      BY DEF Types, ConsentTypes, Connection
    <3> QED
      BY <1>2, <3>1, RetireHistory DEF PersistConsent, Types
  <2>4. connection' \in Connection /\ connection'.grant <= saved
    <3>1. CASE MayPersist(r)
      <4>1. connection' = [grant |-> req[r].grant, revoked |-> FALSE,
                           connected |-> FALSE, password |-> req[r].password]
        BY <1>2, <3>1 DEF PersistConsent
      <4> QED
        BY <2>1, <4>1 DEF Connection
    <3>2. CASE ~MayPersist(r)
      BY <1>2, <3>2 DEF PersistConsent, Types, ConsentTypes
    <3> QED
      BY <3>1, <3>2
  <2> QED
    BY <1>2, <2>2, <2>3, <2>4 DEF PersistConsent, credentials, trusted, Types, AccountTypes,
                                  DeviceTypes, ConsentTypes, ReqTypes
<1>3. CASE IssueCode(r)
  <2>1. ReqTypes'
    BY <1>3, FinishType DEF IssueCode, ReqTypes
  <2>2. ConsentTypes'
    BY <1>3 DEF IssueCode, Types, ConsentTypes
  <2> QED
    BY <1>3, <2>1, <2>2 DEF IssueCode, credentials, trusted, Types, AccountTypes,
                            DeviceTypes, ReqTypes
<1> QED
  BY <1>1, <1>2, <1>3

LEMMA TokenTypes ==
  ASSUME Types, NEW r \in Requests, LoadCode(r) \/ Consume(r) \/ IssueToken(r)
  PROVE  Types'
<1>1. CASE LoadCode(r)
  <2>1. PICK g \in grants : Start(r, [NoRequest EXCEPT !.pc = "exchange", !.grant = g])
    BY <1>1 DEF LoadCode
  <2> DEFINE q == [NoRequest EXCEPT !.pc = "exchange", !.grant = g]
  <2>2. g \in 1 .. saved /\ g \in Grants
    BY Bounds DEF Types, ConsentTypes, Grants
  <2>3. q \in Request /\ RequestType(q)
    BY <2>2, NoRequestType DEF Request, RequestType
  <2>4. ReqTypes'
    BY <1>1, <2>1, <2>3, StartType DEF LoadCode, oauth, ReqTypes
  <2> QED
    BY <1>1, <2>4 DEF LoadCode, credentials, trusted, oauth, Types, AccountTypes,
                      DeviceTypes, ConsentTypes, ReqTypes
<1>2. CASE Consume(r)
  <2>1. req[r].grant \in 1 .. saved
    BY <1>2 DEF Consume, Types, RequestType
  <2>2. ReqTypes'
    BY <1>2, <2>1, FinishType, GoType DEF Consume, ReqTypes
  <2>3. ConsentTypes'
    BY <1>2 DEF Consume, Types, ConsentTypes
  <2> QED
    BY <1>2, <2>2, <2>3 DEF Consume, credentials, trusted, Types, AccountTypes,
                            DeviceTypes, ReqTypes
<1>3. CASE IssueToken(r)
  <2>1. req[r].grant \in 1 .. saved /\ req[r].grant \in Grants
    BY <1>3, Bounds DEF IssueToken, Types, RequestType, ConsentTypes, Grants
  <2>2. ReqTypes'
    BY <1>3, FinishType DEF IssueToken, ReqTypes
  <2>3. ConsentTypes'
    BY <1>3, <2>1 DEF IssueToken, Types, ConsentTypes, Connection
  <2>4. hist' \in History
    BY <1>3, <2>1, IssueHistory DEF IssueToken
  <2> QED
    BY <1>3, <2>2, <2>3, <2>4 DEF IssueToken, credentials, trusted, Types, AccountTypes,
                                  DeviceTypes, ReqTypes
<1> QED
  BY <1>1, <1>2, <1>3

LEMMA ChallengeTypes ==
  ASSUME Types, NEW d \in Devices, BeginChallenge(d)
  PROVE  Types'
<1> DEFINE kept == [x \in Challenges |->
                 IF challenge[x].device = d /\ challenge[x].state \in {"used", "expired"}
                 THEN [challenge[x] EXCEPT !.state = "deleted"] ELSE challenge[x]]
           fresh == [state |-> "open", device |-> d]
<1>1. kept \in [Challenges -> Challenge] /\ fresh \in Challenge
  BY DEF Types, DeviceTypes, Challenge
<1>2. \A x \in Challenges : kept[x].state # "none" => kept[x].device \in Devices
  BY DEF Types, DeviceTypes, Challenge
<1>3. challenge' = kept \/ \E x \in Challenges : challenge' = [kept EXCEPT ![x] = fresh]
  BY DEF BeginChallenge
<1> HIDE DEF kept
<1>4. /\ challenge' \in [Challenges -> Challenge]
      /\ \A x \in Challenges : challenge'[x].state # "none" => challenge'[x].device \in Devices
  BY <1>1, <1>2, <1>3
<1> QED
  BY <1>4 DEF BeginChallenge, credentials, oauth, Types, AccountTypes, DeviceTypes, ConsentTypes,
              RequestType

LEMMA OtherTypes ==
  ASSUME Types,
         \/ \E s \in sessions : Logout(s)
         \/ Disconnect
         \/ \E d \in Devices : DeviceExpires(d)
         \/ \E x \in Challenges : ChallengeExpires(x)
         \/ \E b \in Budgets : WindowEnds(b)
  PROVE  Types'
<1>1. ASSUME NEW s \in sessions, Logout(s) PROVE Types'
  <2>1. AccountTypes'
    BY <1>1, Bounds DEF Logout, Types, AccountTypes, User, Versions, Passwords, Codes
  <2> QED
    BY <1>1, <2>1 DEF Logout, trusted, oauth, Types, DeviceTypes, ConsentTypes, RequestType
<1>2. ASSUME Disconnect PROVE Types'
  <2>1. ConsentTypes' /\ saved' = saved
    BY <1>2, CutTypes DEF Disconnect
  <2>2. hist' \in History
    <3>1. {connection.grant} \in SUBSET Grants
      BY <1>2 DEF Disconnect, Types, ConsentTypes, Connection
    <3> QED
      BY <1>2, <3>1, RetireHistory DEF Disconnect
  <2> QED
    BY <1>2, <2>1, <2>2 DEF Disconnect, credentials, trusted, Types, AccountTypes, DeviceTypes,
                            RequestType
<1>3. ASSUME NEW d \in Devices, DeviceExpires(d) PROVE Types'
  <2>1. device' \in [Devices -> Device]
    BY <1>3 DEF DeviceExpires, Types, DeviceTypes, Device
  <2> QED
    BY <1>3, <2>1 DEF DeviceExpires, credentials, oauth, Types, AccountTypes, DeviceTypes,
                      ConsentTypes, RequestType
<1>4. ASSUME NEW x \in Challenges, ChallengeExpires(x) PROVE Types'
  <2>1. /\ challenge' \in [Challenges -> Challenge]
        /\ \A y \in Challenges : challenge'[y].state # "none" => challenge'[y].device \in Devices
    BY <1>4 DEF ChallengeExpires, Types, DeviceTypes, Challenge
  <2> QED
    BY <1>4, <2>1 DEF ChallengeExpires, credentials, oauth, Types, AccountTypes, DeviceTypes,
                      ConsentTypes, RequestType
<1>5. ASSUME NEW b \in Budgets, WindowEnds(b) PROVE Types'
  <2>1. budget' \in [Budgets -> Budget]
    BY <1>5 DEF WindowEnds, Types, DeviceTypes, Budget
  <2>2. hist' \in History
    BY <1>5, WrongIs DEF WindowEnds, Types
  <2> QED
    BY <1>5, <2>1, <2>2 DEF WindowEnds, credentials, oauth, Types, AccountTypes, DeviceTypes,
                            ConsentTypes, RequestType
<1> QED
  BY <1>1, <1>2, <1>3, <1>4, <1>5

LEMMA TypesNext ==
  ASSUME Types, [Next]_vars
  PROVE  Types'
<1>1. ASSUME UNCHANGED vars PROVE Types'
  BY <1>1 DEF vars, Types, AccountTypes, DeviceTypes, ConsentTypes, RequestType
<1> QED
  BY <1>1, SessionTypes, RecoverTypes, EnrollmentTypes, DeviceLoginTypes, ConsentRequestTypes,
     TokenTypes, ChallengeTypes, OtherTypes DEF Next

\* Which steps change which part of the history.
HistoryChange ==
  /\ \/ hist'.wrong = hist.wrong /\ budget' = budget
     \/ \E r \in Requests : \/ Recover(r) /\ RecoveryStillHolds(r)
                            \/ Enroll(r) \/ RevokeDevice(r) \/ DeviceLogin(r)
     \/ \E b \in Budgets : WindowEnds(b)
  /\ \/ hist'.claims = hist.claims
     \/ \E r \in Requests : Claim(r) /\ MayClaim(r)
  /\ \/ hist'.spent = hist.spent
     \/ \E r \in Requests : Recover(r) /\ RecoveryStillHolds(r)
  /\ \/ hist'.issued = hist.issued
     \/ \E r \in Requests : IssueToken(r)
  /\ \/ hist'.retired = hist.retired
     \/ \E r \in Requests : \/ Recover(r) /\ RecoveryStillHolds(r)
                            \/ PersistConsent(r) /\ MayPersist(r)
     \/ Disconnect

LEMMA HistoryStep ==
  ASSUME Types, [Next]_vars
  PROVE  HistoryChange
<1>1. ASSUME hist' = hist, budget' = budget PROVE HistoryChange
  BY <1>1 DEF HistoryChange
<1>2. ASSUME NEW r \in Requests, Recover(r) PROVE HistoryChange
  <2>1. CASE RecoveryStillHolds(r)
    <3>1. hist'.claims = hist.claims /\ hist'.issued = hist.issued
      BY <1>2, <2>1, RecoverHistory
    <3> QED
      BY <1>2, <2>1, <3>1 DEF HistoryChange
  <2>2. CASE ~RecoveryStillHolds(r)
    BY <1>1, <1>2, <2>2 DEF Recover, trusted
  <2> QED
    BY <2>1, <2>2
<1>3. ASSUME NEW r \in Requests, Enroll(r) \/ RevokeDevice(r) \/ DeviceLogin(r) PROVE HistoryChange
  <2>1. Account \in Budgets /\ (DeviceLogin(r) => req[r].device \in Budgets)
    BY DEF DeviceLogin, Types, RequestType, Budgets
  <2> QED
    BY <1>3, <2>1, FailureTypes, ForgiveTypes DEF HistoryChange, Enroll, RevokeDevice, DeviceLogin
<1>4. ASSUME NEW r \in Requests, Claim(r) PROVE HistoryChange
  <2>1. req[r].challenge \in Challenges
    BY <1>4 DEF Claim, Types, RequestType
  <2> QED
    BY <1>4, <2>1, ClaimHistory DEF HistoryChange, Claim
<1>5. ASSUME NEW r \in Requests, PersistConsent(r) PROVE HistoryChange
  <2>1. {connection.grant} \ {0} \in SUBSET Grants
    BY DEF Types, ConsentTypes, Connection
  <2> QED
    BY <1>5, <2>1, RetireHistory DEF HistoryChange, PersistConsent, trusted
<1>6. ASSUME NEW r \in Requests, IssueToken(r) PROVE HistoryChange
  <2>1. req[r].grant \in Grants
    BY <1>6, Bounds DEF IssueToken, Types, RequestType, ConsentTypes, Grants
  <2> QED
    BY <1>6, <2>1, IssueHistory DEF HistoryChange, IssueToken, trusted
<1>7. ASSUME Disconnect PROVE HistoryChange
  <2>1. {connection.grant} \in SUBSET Grants
    BY <1>7 DEF Disconnect, Types, ConsentTypes, Connection
  <2> QED
    BY <1>7, <2>1, RetireHistory DEF HistoryChange, Disconnect, trusted
<1>8. ASSUME NEW b \in Budgets, WindowEnds(b) PROVE HistoryChange
  <2>1. /\ hist'.claims = hist.claims /\ hist'.spent = hist.spent
        /\ hist'.issued = hist.issued /\ hist'.retired = hist.retired
    BY <1>8, WrongIs DEF WindowEnds, Types
  <2> QED
    BY <1>8, <2>1 DEF HistoryChange
<1>9. ASSUME NEW r \in Requests,
             \/ Login(r) \/ Sign(r) \/ AskRotation(r) \/ Rotate(r) \/ AskRecovery(r)
             \/ AskEnrollment(r) \/ AskDeviceRevocation(r) \/ ReadDevice(r)
             \/ AskConsent(r) \/ IssueCode(r) \/ LoadCode(r) \/ Consume(r)
      PROVE  HistoryChange
  BY <1>1, <1>9 DEF Login, Sign, AskRotation, Rotate, AskRecovery, AskEnrollment,
              AskDeviceRevocation, ReadDevice, AskConsent, IssueCode, LoadCode, Consume, trusted
<1>10. ASSUME \/ \E s \in sessions : Logout(s)
              \/ \E d \in Devices : BeginChallenge(d) \/ DeviceExpires(d)
              \/ \E x \in Challenges : ChallengeExpires(x)
              \/ UNCHANGED vars
       PROVE  HistoryChange
  BY <1>1, <1>10 DEF Logout, BeginChallenge, DeviceExpires, ChallengeExpires, trusted, vars
<1> QED
  BY <1>1, <1>2, <1>3, <1>4, <1>5, <1>6, <1>7, <1>8, <1>9, <1>10 DEF Next

-----------------------------------------------------------------------------
(* Nothing proved with a former password counts.                             *)

\* A step that leaves the account alone and whose request holds nothing proved
\* with another password keeps the credentials dated.
LEMMA RequestCredentials ==
  ASSUME Types, Credentials, NEW r \in Requests, NEW q, req' = [req EXCEPT ![r] = q],
         q.pc \in {"sign", "consent"} => Dated(q.version, q.password, user.version),
         user' = user, UNCHANGED <<sessions, device, connection>>
  PROVE  Credentials'
BY DEF Types, Credentials, Dated

LEMMA IdleCredentials ==
  ASSUME Types, Credentials, NEW r \in Requests, Finish(r), user' = user,
         UNCHANGED <<sessions, device, connection>>
  PROVE  Credentials'
BY RequestCredentials, NoRequestType DEF Finish

LEMMA SessionCredentials ==
  ASSUME Types, Credentials, NEW r \in Requests,
         Login(r) \/ Sign(r) \/ AskRotation(r) \/ Rotate(r) \/ AskRecovery(r)
  PROVE  Credentials'
<1>1. CASE Login(r)
  <2> DEFINE q == [NoRequest EXCEPT !.pc = "sign", !.version = user.version,
                                    !.password = user.password]
  <2>1. req' = [req EXCEPT ![r] = q] /\ UNCHANGED <<user, sessions, device, connection>>
    BY <1>1 DEF Login, Start, credentials, trusted, oauth
  <2>2. q.version = user.version /\ q.password = user.password
    BY DEF NoRequest
  <2>3. Dated(q.version, q.password, user.version)
    BY <2>2 DEF Dated, Types, AccountTypes, User, Versions
  <2> QED
    BY <2>1, <2>3, RequestCredentials
<1>2. CASE Sign(r)
  <2> DEFINE t == [version |-> req[r].version, password |-> req[r].password]
  <2>1. /\ sessions' = sessions \cup {t} /\ req' = [req EXCEPT ![r] = NoRequest]
        /\ UNCHANGED <<user, device, connection>>
    BY <1>2 DEF Sign, SignedVersion, Finish, trusted, oauth
  <2>2. Dated(t.version, t.password, user.version)
    BY <1>2 DEF Sign, Credentials
  <2> QED
    BY <2>1, <2>2, NoRequestType DEF Credentials, Dated, Types
<1>3. CASE AskRotation(r)
  <2> DEFINE q == [NoRequest EXCEPT !.pc = "rotate", !.version = user.version,
                                    !.password = user.password, !.code = user.code]
  <2>1. req' = [req EXCEPT ![r] = q] /\ UNCHANGED <<user, sessions, device, connection>>
    BY <1>3 DEF AskRotation, Start, credentials, trusted, oauth
  <2>2. q.pc = "rotate"
    BY DEF NoRequest
  <2> QED
    BY <2>1, <2>2, RequestCredentials
<1>4. CASE Rotate(r)
  <2>1. /\ user'.version = user.version /\ user'.password = user.password
        /\ user'.deviceVersion = user.deviceVersion
        /\ req' = [req EXCEPT ![r] = NoRequest]
        /\ UNCHANGED <<sessions, device, connection>>
    BY <1>4 DEF Rotate, Finish, trusted, oauth, Types, AccountTypes, User
  <2> QED
    BY <2>1, NoRequestType DEF Credentials, Dated, Types
<1>5. CASE AskRecovery(r)
  <2> DEFINE q == [NoRequest EXCEPT !.pc = "recover", !.version = user.version,
                                    !.code = user.code]
  <2>1. req' = [req EXCEPT ![r] = q] /\ UNCHANGED <<user, sessions, device, connection>>
    BY <1>5 DEF AskRecovery, Start, credentials, trusted, oauth
  <2>2. q.pc = "recover"
    BY DEF NoRequest
  <2> QED
    BY <2>1, <2>2, RequestCredentials
<1> QED
  BY <1>1, <1>2, <1>3, <1>4, <1>5

LEMMA RecoverCredentials ==
  ASSUME Types, Credentials, NEW r \in Requests, Recover(r)
  PROVE  Credentials'
<1>1. CASE ~RecoveryStillHolds(r)
  BY <1>1, IdleCredentials DEF Recover, credentials, trusted, oauth
<1>2. CASE RecoveryStillHolds(r)
  <2> DEFINE q == [req[r] EXCEPT !.pc = "sign", !.version = @ + 1, !.password = user.password + 1]
  <2>1. /\ user.version \in Nat /\ user.deviceVersion \in Nat /\ req[r].version = user.version
        /\ user'.version = user.version + 1 /\ user'.password = user.password + 1
        /\ user'.deviceVersion = user.deviceVersion + 1
    BY <1>2 DEF Recover, AfterRecovery, RecoveryStillHolds, Types, AccountTypes, User, Versions,
                Passwords
  <2>2. \A s \in sessions' : Dated(s.version, s.password, user.version)'
    <3>1. \A s \in sessions : s.version \in Int /\ s.version <= user.version
      BY DEF Types, AccountTypes, Session, Versions, Credentials, Dated
    <3> QED
      BY <1>2, <2>1, <3>1 DEF Recover, Dated
  <2>3. \A s \in Requests : req'[s].pc \in {"sign", "consent"} =>
                              Dated(req[s].version, req[s].password, user.version)'
    <3>1. req' = [req EXCEPT ![r] = q] /\ q.version = user.version + 1 /\ q.password = user.password + 1
      BY <1>2, <2>1 DEF Recover, Types, Request
    <3>2. q.version <= user'.version /\ q.password = user'.password
      BY <2>1, <3>1
    <3>3. \A s \in Requests : /\ req[s].version \in Int
                              /\ req[s].pc \in {"sign", "consent"} => req[s].version <= user.version
      BY DEF Types, Request, Versions, Credentials, Dated
    <3> HIDE DEF q
    <3>4. ASSUME NEW s \in Requests, s # r, req'[s].pc \in {"sign", "consent"}
          PROVE  Dated(req[s].version, req[s].password, user.version)'
      BY <2>1, <3>1, <3>3, <3>4 DEF Dated, Types
    <3>5. req'[r] = q
      BY <3>1 DEF Types
    <3>6. Dated(req[r].version, req[r].password, user.version)'
      BY <3>2, <3>5 DEF Dated
    <3> QED
      BY <3>4, <3>6
  <2>4. \A d \in Devices : device'[d].state # "enrolled"
    BY <1>2 DEF Recover, AfterRecovery, Types, DeviceTypes, Device
  <2>5. connection'.revoked
    BY <1>2 DEF Recover, CutConnection, Types, ConsentTypes, Connection
  <2> QED
    BY <2>2, <2>3, <2>4, <2>5 DEF Credentials
<1> QED
  BY <1>1, <1>2

LEMMA DeviceCredentials ==
  ASSUME Types, Credentials, NEW r \in Requests,
         AskEnrollment(r) \/ Enroll(r) \/ AskDeviceRevocation(r) \/ RevokeDevice(r)
  PROVE  Credentials'
<1>1. CASE AskEnrollment(r)
  <2>1. PICK s \in sessions, p \in Typed :
          req' = [req EXCEPT ![r] =
                    [NoRequest EXCEPT !.pc = "enroll", !.version = s.version, !.password = p]]
    BY <1>1 DEF AskEnrollment, Start
  <2>2. [NoRequest EXCEPT !.pc = "enroll", !.version = s.version, !.password = p].pc = "enroll"
    BY DEF NoRequest
  <2> QED
    BY <1>1, <2>1, <2>2, RequestCredentials DEF AskEnrollment, credentials, trusted, oauth
<1>2. CASE Enroll(r)
  <2>1. CASE device' = device
    BY <1>2, <2>1, IdleCredentials DEF Enroll, credentials, oauth
  <2>2. ASSUME NEW d \in Devices, PasswordIsRight(r),
               device' = [device EXCEPT ![d] =
                 [state |-> "enrolled", version |-> user.deviceVersion,
                  password |-> req[r].password]]
        PROVE  Credentials'
    <3>1. device'[d].version = user.deviceVersion /\ device'[d].password = user.password
      BY <2>2 DEF PasswordIsRight, Types, DeviceTypes
    <3>2. Dated(device'[d].version, device'[d].password, user.deviceVersion)
      BY <3>1 DEF Dated, Types, AccountTypes, User, Passwords
    <3>3. \A e \in Devices : e # d => device'[e] = device[e]
      BY <2>2 DEF Types, DeviceTypes
    <3>4. req' = [req EXCEPT ![r] = NoRequest] /\ UNCHANGED <<user, sessions, connection>>
      BY <1>2 DEF Enroll, Finish, credentials, oauth
    <3> QED
      BY <3>2, <3>3, <3>4, NoRequestType DEF Credentials, Dated, Types
  <2> QED
    BY <1>2, <2>1, <2>2 DEF Enroll
<1>3. CASE AskDeviceRevocation(r)
  <2>1. PICK d \in Devices, p \in Typed :
          req' = [req EXCEPT ![r] =
                    [NoRequest EXCEPT !.pc = "revoke", !.device = d, !.password = p]]
    BY <1>3 DEF AskDeviceRevocation, Start
  <2>2. [NoRequest EXCEPT !.pc = "revoke", !.device = d, !.password = p].pc = "revoke"
    BY DEF NoRequest
  <2> QED
    BY <1>3, <2>1, <2>2, RequestCredentials DEF AskDeviceRevocation, credentials, trusted, oauth
<1>4. CASE RevokeDevice(r)
  <2>1. CASE device' = device
    BY <1>4, <2>1, IdleCredentials DEF RevokeDevice, credentials, oauth
  <2>2. CASE device' = [device EXCEPT ![req[r].device].state = "revoked"]
    <3>1. \A e \in Devices : device'[e] = device[e] \/ device'[e].state = "revoked"
      BY <2>2 DEF Types, DeviceTypes, Device
    <3>2. req' = [req EXCEPT ![r] = NoRequest] /\ UNCHANGED <<user, sessions, connection>>
      BY <1>4 DEF RevokeDevice, Finish, credentials, oauth
    <3> QED
      BY <3>1, <3>2, NoRequestType DEF Credentials, Dated, Types
  <2> QED
    BY <1>4, <2>1, <2>2 DEF RevokeDevice
<1> QED
  BY <1>1, <1>2, <1>3, <1>4

LEMMA DeviceLoginCredentials ==
  ASSUME Types, Credentials, NEW r \in Requests,
         ReadDevice(r) \/ Claim(r) \/ DeviceLogin(r)
  PROVE  Credentials'
<1>1. CASE ReadDevice(r)
  <2>1. PICK x \in Challenges, p \in Typed :
          req' = [req EXCEPT ![r] =
                    [NoRequest EXCEPT !.pc = "claim", !.device = challenge[x].device,
                       !.challenge = x, !.password = p,
                       !.inTime = challenge[x].state # "expired"]]
    BY <1>1 DEF ReadDevice, Start
  <2>2. req'[r].pc = "claim"
    BY <2>1 DEF NoRequest, Types
  <2>3. req' = [req EXCEPT ![r] = req'[r]]
    BY <2>1 DEF Types
  <2> QED
    BY <1>1, <2>2, <2>3, RequestCredentials DEF ReadDevice, credentials, trusted, oauth
<1>2. CASE Claim(r)
  <2>1. UNCHANGED <<user, sessions, device, connection>>
    BY <1>2 DEF Claim, credentials, oauth
  <2>2. CASE Finish(r)
    BY <2>1, <2>2, IdleCredentials
  <2>3. CASE Go(r, "device")
    <3>1. [req[r] EXCEPT !.pc = "device"].pc = "device"
      BY DEF Types, Request
    <3> QED
      BY <2>1, <2>3, <3>1, RequestCredentials DEF Go
  <2> QED
    BY <1>2, <2>2, <2>3 DEF Claim
<1>3. CASE DeviceLogin(r)
  <2>1. UNCHANGED <<user, sessions, device, connection>>
    BY <1>3 DEF DeviceLogin, credentials, oauth
  <2>2. CASE Finish(r)
    BY <2>1, <2>2, IdleCredentials
  <2>3. CASE PasswordIsRight(r) /\ req' = [req EXCEPT ![r] = [NoRequest EXCEPT !.pc = "sign",
                     !.version = user.version, !.password = req[r].password]]
    <3> DEFINE q == [NoRequest EXCEPT !.pc = "sign", !.version = user.version,
                                      !.password = req[r].password]
    <3>1. q.version = user.version /\ q.password = user.password
      BY <2>3 DEF NoRequest, PasswordIsRight
    <3>2. Dated(q.version, q.password, user.version)
      BY <3>1 DEF Dated, Types, AccountTypes, User, Versions
    <3> QED
      BY <2>1, <2>3, <3>2, RequestCredentials
  <2> QED
    BY <1>3, <2>2, <2>3 DEF DeviceLogin
<1> QED
  BY <1>1, <1>2, <1>3

LEMMA ConsentCredentials ==
  ASSUME Types, Credentials, NEW r \in Requests,
         \/ AskConsent(r) \/ PersistConsent(r) \/ IssueCode(r)
         \/ LoadCode(r) \/ Consume(r) \/ IssueToken(r)
  PROVE  Credentials'
<1>1. CASE AskConsent(r)
  <2>1. PICK s \in sessions :
          req' = [req EXCEPT ![r] =
                    [NoRequest EXCEPT !.pc = "consent", !.version = s.version,
                       !.password = s.password, !.grant = saved + 1]]
    BY <1>1 DEF AskConsent, Start
  <2> DEFINE q == [NoRequest EXCEPT !.pc = "consent", !.version = s.version,
                       !.password = s.password, !.grant = saved + 1]
  <2>2. q.version = s.version /\ q.password = s.password
    BY DEF NoRequest
  <2>3. Dated(q.version, q.password, user.version)
    BY <2>2 DEF Credentials
  <2> QED
    BY <1>1, <2>1, <2>3, RequestCredentials DEF AskConsent, credentials, trusted
<1>2. CASE PersistConsent(r)
  <2>1. CASE ~MayPersist(r)
    BY <1>2, <2>1, IdleCredentials DEF PersistConsent, credentials, trusted
  <2>2. CASE MayPersist(r)
    <3>1. /\ connection' = [grant |-> req[r].grant, revoked |-> FALSE,
                            connected |-> FALSE, password |-> req[r].password]
          /\ req' = [req EXCEPT ![r].pc = "finish"]
          /\ UNCHANGED <<user, sessions, device>>
      BY <1>2, <2>2 DEF PersistConsent, Go, credentials, trusted
    <3>2. req[r].password = user.password
      BY <1>2, <2>2 DEF PersistConsent, MayPersist, Credentials, Dated
    <3>3. \A s \in Requests : req'[s] = req[s] \/ req'[s].pc = "finish"
      BY <3>1 DEF Types, Request
    <3> QED
      BY <3>1, <3>2, <3>3 DEF Credentials, Dated
  <2> QED
    BY <2>1, <2>2
<1>3. CASE IssueCode(r)
  BY <1>3, IdleCredentials DEF IssueCode, credentials, trusted
<1>4. CASE LoadCode(r)
  <2>1. PICK g \in grants :
          req' = [req EXCEPT ![r] = [NoRequest EXCEPT !.pc = "exchange", !.grant = g]]
    BY <1>4 DEF LoadCode, Start
  <2>2. [NoRequest EXCEPT !.pc = "exchange", !.grant = g].pc = "exchange"
    BY DEF NoRequest
  <2> QED
    BY <1>4, <2>1, <2>2, RequestCredentials DEF LoadCode, credentials, trusted, oauth
<1>5. CASE Consume(r)
  <2>1. UNCHANGED <<user, sessions, device, connection>>
    BY <1>5 DEF Consume, credentials, trusted
  <2>2. CASE Finish(r)
    BY <2>1, <2>2, IdleCredentials
  <2>3. CASE Go(r, "issue")
    <3>1. [req[r] EXCEPT !.pc = "issue"].pc = "issue"
      BY DEF Types, Request
    <3> QED
      BY <2>1, <2>3, <3>1, RequestCredentials DEF Go
  <2> QED
    BY <1>5, <2>2, <2>3 DEF Consume
<1>6. CASE IssueToken(r)
  <2>1. /\ connection'.grant = connection.grant /\ connection'.revoked = connection.revoked
        /\ connection'.password = connection.password
        /\ req' = [req EXCEPT ![r] = NoRequest] /\ UNCHANGED <<user, sessions, device>>
    BY <1>6 DEF IssueToken, Finish, credentials, trusted, Types, ConsentTypes, Connection
  <2> QED
    BY <2>1, NoRequestType DEF Credentials, Dated, Types
<1> QED
  BY <1>1, <1>2, <1>3, <1>4, <1>5, <1>6

LEMMA OtherCredentials ==
  ASSUME Types, Credentials,
         \/ \E s \in sessions : Logout(s)
         \/ Disconnect
         \/ \E d \in Devices : BeginChallenge(d) \/ DeviceExpires(d)
         \/ \E x \in Challenges : ChallengeExpires(x)
         \/ \E b \in Budgets : WindowEnds(b)
         \/ UNCHANGED vars
  PROVE  Credentials'
<1>1. ASSUME NEW s \in sessions, Logout(s) PROVE Credentials'
  <2>1. /\ user'.version = user.version + 1 /\ user'.password = user.password
        /\ user'.deviceVersion = user.deviceVersion
        /\ UNCHANGED <<sessions, device, connection, req>>
    BY <1>1 DEF Logout, trusted, oauth, Types, AccountTypes, User
  <2>2. /\ user.version \in Int
        /\ \A t \in sessions : t.version \in Int
        /\ \A q \in Requests : req[q].version \in Int
    BY DEF Types, AccountTypes, User, Session, Request, Versions
  <2>3. \A t \in sessions : Dated(t.version, t.password, user.version)'
    BY <2>1, <2>2 DEF Credentials, Dated
  <2>4. \A q \in Requests : req[q].pc \in {"sign", "consent"} =>
                               Dated(req[q].version, req[q].password, user.version)'
    BY <2>1, <2>2 DEF Credentials, Dated
  <2> QED
    BY <2>1, <2>3, <2>4 DEF Credentials, Dated
<1>2. ASSUME Disconnect PROVE Credentials'
  <2>1. connection'.revoked /\ UNCHANGED <<user, sessions, device, req>>
    BY <1>2 DEF Disconnect, CutConnection, credentials, trusted, Types, ConsentTypes, Connection
  <2> QED
    BY <2>1 DEF Credentials, Dated
<1>3. ASSUME NEW d \in Devices, DeviceExpires(d) PROVE Credentials'
  <2>1. /\ UNCHANGED <<user, sessions, connection, req>>
        /\ \A e \in Devices : device'[e] = device[e] \/ device'[e].state = "expired"
    BY <1>3 DEF DeviceExpires, credentials, oauth, Types, DeviceTypes, Device
  <2> QED
    BY <2>1 DEF Credentials, Dated
<1>4. ASSUME UNCHANGED <<user, sessions, device, connection, req>> PROVE Credentials'
  BY <1>4 DEF Credentials, Dated
<1> QED
  BY <1>1, <1>2, <1>3, <1>4 DEF BeginChallenge, ChallengeExpires, WindowEnds, credentials, oauth,
                                vars

LEMMA CredentialsNext ==
  ASSUME Types, Credentials, [Next]_vars
  PROVE  Credentials'
BY SessionCredentials, RecoverCredentials, DeviceCredentials, DeviceLoginCredentials,
   ConsentCredentials, OtherCredentials DEF Next

-----------------------------------------------------------------------------
(* Every wrong password of a window is counted.                              *)

LEMMA GuessesStay ==
  ASSUME Guesses, UNCHANGED <<budget, hist>> \/ (budget' = budget /\ hist'.wrong = hist.wrong)
  PROVE  Guesses'
BY DEF Guesses

LEMMA GuessesFailure ==
  ASSUME Types, Guesses, NEW b \in Budgets, ~Limited(b), CountFailure(b)
  PROVE  Guesses'
<1> DEFINE n == IF budget[b].live THEN budget[b].failures + 1 ELSE 1
<1>1. /\ budget' = [budget EXCEPT ![b] = [failures |-> n, live |-> TRUE]]
      /\ hist'.wrong = [hist.wrong EXCEPT ![b] = @ + 1]
  BY FailureTypes DEF CountFailure
<1>2. hist.wrong[b] + 1 = n
  BY DEF Guesses, Types, DeviceTypes, Budget
<1>3. budget'[b].live /\ budget'[b].failures = n /\ hist'.wrong[b] = n
  BY <1>1, <1>2 DEF Types, DeviceTypes, History
<1>4. \A a \in Budgets : a # b => budget'[a] = budget[a] /\ hist'.wrong[a] = hist.wrong[a]
  BY <1>1 DEF Types, DeviceTypes, History
<1> QED
  BY <1>3, <1>4 DEF Guesses

LEMMA GuessesForgiven ==
  ASSUME Types, Guesses, NEW b \in Budgets, ~budget'[b].live,
         budget' = [budget EXCEPT ![b] = budget'[b]],
         hist'.wrong = [hist.wrong EXCEPT ![b] = 0]
  PROVE  Guesses'
BY DEF Guesses, Types, DeviceTypes, History

LEMMA GuessesForgive ==
  ASSUME Types, Guesses, NEW b \in Budgets, Forgive(b)
  PROVE  Guesses'
<1>1. budget'[b] = NoFailures /\ ~NoFailures.live /\ budget' = [budget EXCEPT ![b] = NoFailures]
  BY DEF Forgive, NoFailures, Types, DeviceTypes
<1> QED
  BY <1>1, ForgiveTypes, GuessesForgiven

LEMMA GuessesNext ==
  ASSUME Types, Guesses, [Next]_vars
  PROVE  Guesses'
<1>a. Account \in Budgets /\ Devices \subseteq Budgets
  BY DEF Budgets
<1>1. ASSUME NEW r \in Requests, Recover(r), RecoveryStillHolds(r) PROVE Guesses'
  <2>1. budget'[Account] = NoFailures /\ budget' = [budget EXCEPT ![Account] = NoFailures]
    BY <1>1, <1>a DEF Recover, Types, DeviceTypes
  <2>2. ~NoFailures.live
    BY DEF NoFailures
  <2> QED
    BY <1>1, <1>a, <2>1, <2>2, RecoverHistory, GuessesForgiven
<1>2. ASSUME NEW r \in Requests, Enroll(r) \/ RevokeDevice(r) PROVE Guesses'
  BY <1>2, <1>a, GuessesStay, GuessesFailure, GuessesForgive DEF Enroll, RevokeDevice
<1>3. ASSUME NEW r \in Requests, DeviceLogin(r) PROVE Guesses'
  <2> DEFINE d == req[r].device
  <2>1. d \in Budgets
    BY <1>3, <1>a DEF DeviceLogin, Types, RequestType
  <2>2. UNCHANGED <<budget, hist>> \/ (~Limited(d) /\ CountFailure(d)) \/ Forgive(d)
    BY <1>3 DEF DeviceLogin
  <2> HIDE DEF d
  <2> QED
    BY <2>1, <2>2, GuessesStay, GuessesFailure, GuessesForgive
<1>4. ASSUME NEW b \in Budgets, WindowEnds(b) PROVE Guesses'
  <2>1. ~budget'[b].live /\ budget' = [budget EXCEPT ![b] = budget'[b]]
    BY <1>4 DEF WindowEnds, Types, DeviceTypes, Budget
  <2>2. hist'.wrong = [hist.wrong EXCEPT ![b] = 0]
    BY <1>4, WrongIs DEF WindowEnds, Types
  <2> QED
    BY <2>1, <2>2, GuessesForgiven
<1> QED
  BY <1>1, <1>2, <1>3, <1>4, HistoryStep, GuessesStay DEF HistoryChange

-----------------------------------------------------------------------------
(* A challenge and a recovery code are of use once.                          *)

Unused(x) == challenge[x].state \in {"none", "open", "expired"}

\* No challenge becomes unused again.
LEMMA StaysUsed ==
  ASSUME Types, [Next]_vars, NEW x \in Challenges, Unused(x)'
  PROVE  Unused(x)
<1>1. CASE challenge' = challenge
  BY <1>1 DEF Unused
<1>2. ASSUME NEW r \in Requests, Claim(r) PROVE Unused(x)
  <2>1. challenge'[x] = challenge[x] \/ challenge'[x].state = "used"
    BY <1>2 DEF Claim, Types, DeviceTypes, Challenge
  <2> QED
    BY <2>1 DEF Unused
<1>3. ASSUME NEW d \in Devices, BeginChallenge(d) PROVE Unused(x)
  <2> DEFINE kept == [y \in Challenges |->
                 IF challenge[y].device = d /\ challenge[y].state \in {"used", "expired"}
                 THEN [challenge[y] EXCEPT !.state = "deleted"] ELSE challenge[y]]
  <2>1. \/ challenge' = kept
        \/ \E y \in Challenges : /\ challenge[y].state = "none"
                                /\ challenge' = [kept EXCEPT ![y] = [state |-> "open", device |-> d]]
    BY <1>3 DEF BeginChallenge
  <2>2. kept[x].state \in {"none", "open", "expired"} => Unused(x)
    BY DEF Unused, Types, DeviceTypes, Challenge
  <2>3. kept \in [Challenges -> Challenge]
    BY DEF Types, DeviceTypes, Challenge
  <2> HIDE DEF kept
  <2> QED
    BY <2>1, <2>2, <2>3 DEF Unused
<1>4. ASSUME NEW y \in Challenges, ChallengeExpires(y) PROVE Unused(x)
  BY <1>4 DEF ChallengeExpires, Unused, Types, DeviceTypes, Challenge
<1> QED
  BY <1>1, <1>2, <1>3, <1>4, ZenonT(40)
     DEF Next, vars, trusted, Login, Sign, AskRotation, Rotate, AskRecovery,
     Recover, AskEnrollment, Enroll, AskDeviceRevocation, RevokeDevice, ReadDevice, DeviceLogin,
     AskConsent, PersistConsent, IssueCode, LoadCode, Consume, IssueToken, Logout, Disconnect,
     DeviceExpires, WindowEnds

\* Only Recover and Rotate change the code, and only upwards.
LEMMA CodeGrows ==
  ASSUME Types, [Next]_vars
  PROVE  user'.code \in Codes /\ user.code \in Codes /\ user'.code >= user.code
<1>1. user.code \in Codes /\ user.code \in Int
  BY DEF Types, AccountTypes, User, Codes
<1>2. user'.code \in Codes
  BY TypesNext DEF Types, AccountTypes, User
<1>3. CASE user' = user
  BY <1>1, <1>3
<1>4. ASSUME NEW r \in Requests, Rotate(r) PROVE user'.code >= user.code
  BY <1>1, <1>4 DEF Rotate, Types, AccountTypes, User
<1>5. ASSUME NEW r \in Requests, Recover(r) PROVE user'.code >= user.code
  BY <1>1, <1>5 DEF Recover, AfterRecovery, credentials
<1>6. ASSUME NEW s \in sessions, Logout(s) PROVE user'.code >= user.code
  BY <1>1, <1>6 DEF Logout, Types, AccountTypes, User
<1> QED
  BY <1>1, <1>2, <1>3, <1>4, <1>5, <1>6 DEF Next, vars, credentials, Login, Sign, AskRotation,
     AskRecovery, AskEnrollment, Enroll, AskDeviceRevocation, RevokeDevice, ReadDevice, Claim,
     DeviceLogin, AskConsent, PersistConsent, IssueCode, LoadCode, Consume, IssueToken, Disconnect,
     BeginChallenge, DeviceExpires, ChallengeExpires, WindowEnds

LEMMA BurnedNext ==
  ASSUME Types, Burned, [Next]_vars
  PROVE  Burned'
<1>1. \A x \in Challenges : hist'.claims[x] <= 1 /\ (Unused(x)' => hist'.claims[x] = 0)
  <2>1. CASE hist'.claims = hist.claims
    BY <2>1, StaysUsed DEF Burned, Unused
  <2>2. ASSUME NEW r \in Requests, Claim(r), MayClaim(r)
        PROVE  \A x \in Challenges : hist'.claims[x] <= 1 /\ (Unused(x)' => hist'.claims[x] = 0)
    <3> DEFINE x == req[r].challenge
    <3>1. x \in Challenges
      BY <2>2 DEF Claim, Types, RequestType
    <3>2. hist.claims[x] = 0
      BY <2>2, <3>1 DEF MayClaim, Burned
    <3>3. hist'.claims = [hist.claims EXCEPT ![x] = @ + 1]
      BY <2>2, <3>1, ClaimHistory DEF Claim
    <3>4. hist'.claims[x] = 1 /\ \A y \in Challenges : y # x => hist'.claims[y] = hist.claims[y]
      BY <3>1, <3>2, <3>3 DEF Types, History
    <3>5. challenge'[x].state = "used"
      BY <2>2, <3>1 DEF Claim, Types, DeviceTypes, Challenge
    <3> HIDE DEF x
    <3> QED
      BY <3>4, <3>5, StaysUsed DEF Burned, Unused
  <2> QED
    BY <2>1, <2>2, HistoryStep DEF HistoryChange
<1>2. \A c \in Codes : hist'.spent[c] <= 1 /\ (c >= user'.code => hist'.spent[c] = 0)
  <2>a. \A c \in Codes : c \in Int
    BY DEF Codes
  <2>1. CASE hist'.spent = hist.spent
    BY <2>a, <2>1, CodeGrows DEF Burned
  <2>2. ASSUME NEW r \in Requests, Recover(r), RecoveryStillHolds(r)
        PROVE  \A c \in Codes : hist'.spent[c] <= 1 /\ (c >= user'.code => hist'.spent[c] = 0)
    <3>1. user'.code = user.code + 1 /\ user.code \in Codes /\ user.code \in Int
      BY <2>a, <2>2, CodeGrows DEF Recover, AfterRecovery
    <3>2. hist'.spent = [hist.spent EXCEPT ![user.code] = @ + 1]
      BY <2>2, RecoverHistory
    <3>3. hist.spent[user.code] = 0
      BY <2>a, <3>1 DEF Burned
    <3>4. /\ hist'.spent[user.code] = 1
          /\ \A c \in Codes : c # user.code => hist'.spent[c] = hist.spent[c]
      BY <3>1, <3>2, <3>3 DEF Types, History
    <3> QED
      BY <2>a, <3>1, <3>4 DEF Burned
  <2> QED
    BY <2>1, <2>2, HistoryStep DEF HistoryChange
<1> QED
  BY <1>1, <1>2 DEF Burned, Unused

-----------------------------------------------------------------------------
(* Consents, their codes and tokens.                                         *)

Holding(q) == Consenting(q) \/ q.pc = "issue"

\* No request holds a consent or a consumed code it did not hold before.
Quiet ==
  \A s \in Requests :
    /\ req'[s].pc = "consent" => req[s].pc = "consent"
    /\ Consenting(req'[s]) => Consenting(req[s])
    /\ req'[s].pc = "issue" => req[s].pc = "issue"
    /\ Holding(req'[s]) => req'[s].grant = req[s].grant

\* A request at another step than those holds nothing.
LEMMA QuietRequest ==
  ASSUME Types, NEW r \in Requests, \A s \in Requests : s # r => req'[s] = req[s],
         req'[r].pc \notin {"consent", "finish", "issue"}
  PROVE  Quiet
BY DEF Quiet, Holding, Consenting, Types

LEMMA QuietFinish ==
  ASSUME Types, NEW r \in Requests, Finish(r)
  PROVE  Quiet
BY QuietRequest, NoRequestType DEF Finish, Types

LEMMA QuietStep ==
  ASSUME Types, [Next]_vars
  PROVE  Quiet \/ \E r \in Requests : AskConsent(r) \/ Consume(r)
<1>1. CASE req' = req
  BY <1>1 DEF Quiet, Holding
<1>2. ASSUME NEW r \in Requests, Login(r) \/ AskRotation(r) \/ AskRecovery(r)
      PROVE  Quiet
  <2>1. \A s \in Requests : s # r => req'[s] = req[s]
    BY <1>2 DEF Login, AskRotation, AskRecovery, Start, Types
  <2>2. req'[r].pc \in {"sign", "rotate", "recover"}
    BY <1>2 DEF Login, AskRotation, AskRecovery, Start, Types, NoRequest
  <2> QED
    BY <2>1, <2>2, QuietRequest
<1>3. ASSUME NEW r \in Requests, AskEnrollment(r) \/ AskDeviceRevocation(r) \/ LoadCode(r)
      PROVE  Quiet
  <2>1. \A s \in Requests : s # r => req'[s] = req[s]
    BY <1>3 DEF AskEnrollment, AskDeviceRevocation, LoadCode, Start, Types
  <2>2. req'[r].pc \in {"enroll", "revoke", "exchange"}
    BY <1>3 DEF AskEnrollment, AskDeviceRevocation, LoadCode, Start, Types, NoRequest
  <2> QED
    BY <2>1, <2>2, QuietRequest
<1>4. ASSUME NEW r \in Requests, ReadDevice(r) PROVE Quiet
  <2>1. \A s \in Requests : s # r => req'[s] = req[s]
    BY <1>4 DEF ReadDevice, Start, Types
  <2>2. req'[r].pc = "claim"
    BY <1>4 DEF ReadDevice, Start, Types, NoRequest
  <2> QED
    BY <2>1, <2>2, QuietRequest
<1>5. ASSUME NEW r \in Requests, Recover(r) PROVE Quiet
  <2>1. CASE Finish(r)
    BY <2>1, QuietFinish
  <2>2. CASE ~Finish(r)
    <3>1. \A s \in Requests : s # r => req'[s] = req[s]
      BY <1>5, <2>2 DEF Recover, Types
    <3>2. req'[r].pc = "sign"
      BY <1>5, <2>2 DEF Recover, Types, Request
    <3> QED
      BY <3>1, <3>2, QuietRequest
  <2> QED
    BY <2>1, <2>2
<1>6. ASSUME NEW r \in Requests, Claim(r) PROVE Quiet
  <2>1. CASE Finish(r)
    BY <2>1, QuietFinish
  <2>2. CASE Go(r, "device")
    <3>1. \A s \in Requests : s # r => req'[s] = req[s]
      BY <2>2 DEF Go, Types
    <3>2. req'[r].pc = "device"
      BY <2>2 DEF Go, Types, Request
    <3> QED
      BY <3>1, <3>2, QuietRequest
  <2> QED
    BY <1>6, <2>1, <2>2 DEF Claim
<1>7. ASSUME NEW r \in Requests, DeviceLogin(r) PROVE Quiet
  <2>1. CASE Finish(r)
    BY <2>1, QuietFinish
  <2>2. CASE ~Finish(r)
    <3>1. \A s \in Requests : s # r => req'[s] = req[s]
      BY <1>7, <2>2 DEF DeviceLogin, Types
    <3>2. req'[r].pc = "sign"
      BY <1>7, <2>2 DEF DeviceLogin, Types, NoRequest
    <3> QED
      BY <3>1, <3>2, QuietRequest
  <2> QED
    BY <2>1, <2>2
<1>8. ASSUME NEW r \in Requests, PersistConsent(r) PROVE Quiet
  <2>1. CASE Finish(r)
    BY <2>1, QuietFinish
  <2>2. CASE Go(r, "finish")
    <3>1. /\ req'[r].pc = "finish" /\ req'[r].grant = req[r].grant
          /\ \A s \in Requests : s # r => req'[s] = req[s]
      BY <2>2 DEF Go, Types, Request
    <3> QED
      BY <1>8, <3>1 DEF PersistConsent, Quiet, Holding, Consenting
  <2> QED
    BY <1>8, <2>1, <2>2 DEF PersistConsent
<1>9. ASSUME NEW r \in Requests,
             \/ Sign(r) \/ Rotate(r) \/ Enroll(r) \/ RevokeDevice(r) \/ IssueCode(r) \/ IssueToken(r)
      PROVE  Finish(r)
  BY <1>9 DEF Sign, Rotate, Enroll, RevokeDevice, IssueCode, IssueToken
<1>10. ASSUME \/ \E s \in sessions : Logout(s)
              \/ Disconnect
              \/ \E d \in Devices : BeginChallenge(d) \/ DeviceExpires(d)
              \/ \E x \in Challenges : ChallengeExpires(x)
              \/ \E b \in Budgets : WindowEnds(b)
              \/ UNCHANGED vars
       PROVE  req' = req
  BY <1>10 DEF Logout, Disconnect, BeginChallenge, DeviceExpires, ChallengeExpires, WindowEnds, vars
<1> QED
  BY <1>1, <1>2, <1>3, <1>4, <1>5, <1>6, <1>7, <1>8, <1>9, <1>10, QuietFinish DEF Next

\* Which steps change what is stored of the consents.
LEMMA ConsentStep ==
  ASSUME Types, [Next]_vars
  PROVE  \/ UNCHANGED oauth
         \/ \E r \in Requests : \/ Recover(r) /\ RecoveryStillHolds(r)
                                \/ AskConsent(r) \/ PersistConsent(r) \/ IssueCode(r)
                                \/ Consume(r) \/ IssueToken(r)
         \/ Disconnect
<1>1. ASSUME NEW r \in Requests,
             \/ Login(r) \/ Sign(r) \/ AskRotation(r) \/ Rotate(r) \/ AskRecovery(r)
             \/ Recover(r) /\ ~RecoveryStillHolds(r)
             \/ AskEnrollment(r) \/ Enroll(r) \/ AskDeviceRevocation(r) \/ RevokeDevice(r)
             \/ ReadDevice(r) \/ Claim(r) \/ DeviceLogin(r) \/ LoadCode(r)
      PROVE  UNCHANGED oauth
  BY <1>1 DEF Login, Sign, AskRotation, Rotate, AskRecovery, Recover, AskEnrollment, Enroll,
              AskDeviceRevocation, RevokeDevice, ReadDevice, Claim, DeviceLogin, LoadCode
<1>2. ASSUME \/ \E s \in sessions : Logout(s)
             \/ \E d \in Devices : BeginChallenge(d) \/ DeviceExpires(d)
             \/ \E x \in Challenges : ChallengeExpires(x)
             \/ \E b \in Budgets : WindowEnds(b)
             \/ UNCHANGED vars
      PROVE  UNCHANGED oauth
  BY <1>2 DEF Logout, BeginChallenge, DeviceExpires, ChallengeExpires, WindowEnds, vars, oauth
<1> QED
  BY <1>1, <1>2 DEF Next

\* The grant of a request that holds something is a stored number.
LEMMA HeldGrant ==
  ASSUME Types, NEW r \in Requests,
         req[r].pc \in {"consent", "finish", "exchange", "issue"}
  PROVE  req[r].grant \in Grants /\ req[r].grant <= saved
BY Bounds DEF Types, RequestType, ConsentTypes, Grants

LEMMA CodesQuiet ==
  ASSUME Types, CodesOnce, Quiet, UNCHANGED <<code, grants, saved>>,
         hist'.issued = hist.issued
  PROVE  CodesOnce'
<1>1. \A g \in Grants :
        /\ hist'.issued[g] <= 1
        /\ g > saved' => code'[g] = "none"
        /\ code'[g] \in {"none", "fresh"} => hist'.issued[g] = 0
        /\ code'[g] = "deleted" => g \notin grants'
  BY DEF CodesOnce
<1>2. \A r \in Requests :
        /\ Consenting(req'[r]) => code'[req'[r].grant] \in {"none", "deleted"}
        /\ req'[r].pc = "issue" => /\ code'[req'[r].grant] \in {"consumed", "deleted"}
                                   /\ hist'.issued[req'[r].grant] = 0
  BY DEF CodesOnce, Quiet, Holding
<1>3. ASSUME NEW r \in Requests, NEW q \in Requests, req'[r].grant = req'[q].grant,
             \/ Consenting(req'[r]) /\ Consenting(req'[q])
             \/ req'[r].pc = "issue" /\ req'[q].pc = "issue"
      PROVE  r = q
  BY <1>3 DEF CodesOnce, Quiet, Holding
<1> QED
  BY <1>1, <1>2, <1>3 DEF CodesOnce, Consenting

LEMMA CodesCut ==
  ASSUME Types, CodesOnce, Quiet, CutConnection, hist'.issued = hist.issued
  PROVE  CodesOnce'
<1>1. /\ saved' = saved /\ connection.grant <= saved
      /\ grants' = grants \ {connection.grant}
      /\ \A g \in Grants : code'[g] = IF g = connection.grant THEN "deleted" ELSE code[g]
  BY DEF CutConnection, Types, ConsentTypes
<1>2. \A g \in Grants :
        /\ hist'.issued[g] <= 1
        /\ g > saved' => code'[g] = "none"
        /\ code'[g] \in {"none", "fresh"} => hist'.issued[g] = 0
        /\ code'[g] = "deleted" => g \notin grants'
  <2>1. ASSUME NEW g \in Grants, g > saved PROVE g # connection.grant
    <3>1. g \in Int /\ saved \in Int /\ connection.grant \in Int
      BY DEF Types, ConsentTypes, Connection, Grants
    <3> QED
      BY <1>1, <2>1, <3>1
  <2> QED
    BY <1>1, <2>1 DEF CodesOnce
<1>3. \A r \in Requests :
        /\ Consenting(req'[r]) => code'[req'[r].grant] \in {"none", "deleted"}
        /\ req'[r].pc = "issue" => /\ code'[req'[r].grant] \in {"consumed", "deleted"}
                                   /\ hist'.issued[req'[r].grant] = 0
  BY <1>1, HeldGrant DEF CodesOnce, Quiet, Holding, Consenting
<1>4. ASSUME NEW r \in Requests, NEW q \in Requests, req'[r].grant = req'[q].grant,
             \/ Consenting(req'[r]) /\ Consenting(req'[q])
             \/ req'[r].pc = "issue" /\ req'[q].pc = "issue"
      PROVE  r = q
  BY <1>4 DEF CodesOnce, Quiet, Holding
<1> QED
  BY <1>2, <1>3, <1>4 DEF CodesOnce, Consenting

\* A new consent has a number that nothing refers to.
LEMMA CodesAsk ==
  ASSUME Types, CodesOnce, NEW r \in Requests, AskConsent(r)
  PROVE  CodesOnce'
<1>1. PICK s \in sessions :
        Start(r, [NoRequest EXCEPT !.pc = "consent", !.version = s.version,
                                   !.password = s.password, !.grant = saved + 1])
  BY DEF AskConsent
<1>2. /\ req'[r].pc = "consent" /\ req'[r].grant = saved + 1
      /\ \A q \in Requests : q # r => req'[q] = req[q]
  BY <1>1 DEF Start, NoRequest, Types
<1>3. /\ saved \in Nat /\ saved + 1 \in Grants
      /\ saved' = saved + 1 /\ grants' = grants \cup {saved + 1}
      /\ UNCHANGED <<code, hist>>
  <2>1. saved \in 0 .. MaxGrants /\ saved < MaxGrants
    BY DEF AskConsent, Types, ConsentTypes
  <2>2. saved' = saved + 1 /\ grants' = grants \cup {saved + 1} /\ UNCHANGED <<code, hist>>
    BY DEF AskConsent
  <2> QED
    BY <2>1, <2>2, Bounds DEF Grants
<1>4. code[saved + 1] = "none"
  BY <1>3 DEF CodesOnce
<1>5. \A g \in Grants :
        /\ hist'.issued[g] <= 1
        /\ g > saved' => code'[g] = "none"
        /\ code'[g] \in {"none", "fresh"} => hist'.issued[g] = 0
        /\ code'[g] = "deleted" => g \notin grants'
  <2>1. \A g \in Grants : g > saved' => g > saved
    BY <1>3 DEF Grants
  <2> QED
    BY <1>3, <1>4, <2>1 DEF CodesOnce
<1>6. \A q \in Requests :
        /\ Consenting(req'[q]) => code'[req'[q].grant] \in {"none", "deleted"}
        /\ req'[q].pc = "issue" => /\ code'[req'[q].grant] \in {"consumed", "deleted"}
                                   /\ hist'.issued[req'[q].grant] = 0
  <2>1. /\ Consenting(req'[r]) => code'[req'[r].grant] \in {"none", "deleted"}
        /\ req'[r].pc # "issue"
    BY <1>2, <1>3, <1>4
  <2>2. ASSUME NEW q \in Requests, q # r
        PROVE  /\ Consenting(req'[q]) => code'[req'[q].grant] \in {"none", "deleted"}
               /\ req'[q].pc = "issue" => /\ code'[req'[q].grant] \in {"consumed", "deleted"}
                                          /\ hist'.issued[req'[q].grant] = 0
    BY <1>2, <1>3, <2>2 DEF CodesOnce
  <2> QED
    BY <2>1, <2>2
<1>7. ASSUME NEW p \in Requests, NEW q \in Requests, req'[p].grant = req'[q].grant,
             \/ Consenting(req'[p]) /\ Consenting(req'[q])
             \/ req'[p].pc = "issue" /\ req'[q].pc = "issue"
      PROVE  p = q
  <2>1. ASSUME NEW o \in Requests, o # r, Consenting(req[o]) PROVE req[o].grant # saved + 1
    <3>1. req[o].grant \in Grants /\ req[o].grant <= saved
      BY <2>1, HeldGrant DEF Consenting
    <3> QED
      BY <1>3, <3>1 DEF Grants
  <2>2. CASE p # r /\ q # r
    BY <1>2, <1>7, <2>2 DEF CodesOnce
  <2>3. CASE p = r \/ q = r
    BY <1>2, <1>7, <2>1, <2>3 DEF Consenting
  <2> QED
    BY <2>2, <2>3
<1> QED
  BY <1>5, <1>6, <1>7 DEF CodesOnce, Consenting

\* Only one request carries the consent, so that its code is new.
LEMMA CodesIssueCode ==
  ASSUME Types, CodesOnce, NEW r \in Requests, IssueCode(r)
  PROVE  CodesOnce'
<1> DEFINE g == req[r].grant
<1>1. g \in Grants /\ g <= saved /\ Consenting(req[r])
  BY HeldGrant DEF IssueCode, Consenting
<1>2. Quiet /\ UNCHANGED <<grants, saved, hist>>
  BY QuietFinish DEF IssueCode
<1>3. CASE g \notin grants
  BY <1>2, <1>3, CodesQuiet DEF IssueCode
<1>4. CASE g \in grants
  <2>1. code[g] = "none"
    BY <1>1, <1>4 DEF CodesOnce
  <2>2. code'[g] = "fresh" /\ \A h \in Grants : h # g => code'[h] = code[h]
    BY <1>1, <1>4 DEF IssueCode, Types, ConsentTypes
  <2>3. req'[r].pc = "idle" /\ \A q \in Requests : q # r => req'[q] = req[q]
    BY NoRequestType DEF IssueCode, Finish, Types
  <2>4. ASSUME NEW q \in Requests, Holding(req'[q])
        PROVE  q # r /\ req'[q] = req[q] /\ req[q].grant \in Grants /\ req[q].grant # g
    <3>1. q # r /\ req'[q] = req[q]
      BY <2>3, <2>4 DEF Holding, Consenting
    <3>2. req[q].grant \in Grants
      BY <2>4, <3>1, HeldGrant DEF Holding, Consenting
    <3>3. CASE Consenting(req[q])
      BY <1>1, <3>1, <3>2, <3>3 DEF CodesOnce
    <3>4. CASE req[q].pc = "issue"
      BY <2>1, <3>1, <3>2, <3>4 DEF CodesOnce
    <3> QED
      BY <2>4, <3>1, <3>2, <3>3, <3>4 DEF Holding
  <2> HIDE DEF g
  <2>5. \A h \in Grants :
          /\ hist'.issued[h] <= 1
          /\ h > saved' => code'[h] = "none"
          /\ code'[h] \in {"none", "fresh"} => hist'.issued[h] = 0
          /\ code'[h] = "deleted" => h \notin grants'
    <3>1. ~(g > saved)
      BY <1>1 DEF Types, ConsentTypes, Grants
    <3> QED
      BY <1>2, <2>1, <2>2, <3>1 DEF CodesOnce
  <2>6. \A q \in Requests :
          /\ Consenting(req'[q]) => code'[req'[q].grant] \in {"none", "deleted"}
          /\ req'[q].pc = "issue" => /\ code'[req'[q].grant] \in {"consumed", "deleted"}
                                     /\ hist'.issued[req'[q].grant] = 0
    BY <1>2, <2>2, <2>4 DEF CodesOnce, Holding
  <2>7. ASSUME NEW p \in Requests, NEW q \in Requests, req'[p].grant = req'[q].grant,
               \/ Consenting(req'[p]) /\ Consenting(req'[q])
               \/ req'[p].pc = "issue" /\ req'[q].pc = "issue"
        PROVE  p = q
    BY <2>4, <2>7 DEF CodesOnce, Holding
  <2> QED
    BY <2>5, <2>6, <2>7 DEF CodesOnce, Consenting
<1> QED
  BY <1>3, <1>4

\* One exchange consumes a code, and nobody has issued a token for it.
LEMMA CodesConsume ==
  ASSUME Types, CodesOnce, NEW r \in Requests, Consume(r)
  PROVE  CodesOnce'
<1> DEFINE g == req[r].grant
<1>1. g \in Grants /\ g <= saved
  BY HeldGrant DEF Consume
<1>2. CASE code[g] # "fresh"
  BY <1>2, QuietFinish, CodesQuiet DEF Consume
<1>3. CASE code[g] = "fresh"
  <2>1. UNCHANGED <<grants, saved, hist>> /\ hist.issued[g] = 0
    BY <1>1, <1>3 DEF Consume, CodesOnce
  <2>2. code'[g] = "consumed" /\ \A h \in Grants : h # g => code'[h] = code[h]
    BY <1>1, <1>3 DEF Consume, Types, ConsentTypes
  <2>3. /\ req'[r].pc = "issue" /\ req'[r].grant = g
        /\ \A q \in Requests : q # r => req'[q] = req[q]
    BY <1>3 DEF Consume, Go, Types, Request
  <2>4. ASSUME NEW q \in Requests, q # r, Holding(req[q])
        PROVE  req[q].grant \in Grants /\ req[q].grant # g
    <3>1. req[q].grant \in Grants
      BY <2>4, HeldGrant DEF Holding, Consenting
    <3>2. code[req[q].grant] # "fresh"
      BY <2>4 DEF CodesOnce, Holding
    <3> QED
      BY <1>3, <3>1, <3>2
  <2> HIDE DEF g
  <2>5. \A h \in Grants :
          /\ hist'.issued[h] <= 1
          /\ h > saved' => code'[h] = "none"
          /\ code'[h] \in {"none", "fresh"} => hist'.issued[h] = 0
          /\ code'[h] = "deleted" => h \notin grants'
    <3>1. ~(g > saved)
      BY <1>1 DEF Types, ConsentTypes, Grants
    <3> QED
      BY <2>1, <2>2, <3>1 DEF CodesOnce
  <2>6. \A q \in Requests :
          /\ Consenting(req'[q]) => code'[req'[q].grant] \in {"none", "deleted"}
          /\ req'[q].pc = "issue" => /\ code'[req'[q].grant] \in {"consumed", "deleted"}
                                     /\ hist'.issued[req'[q].grant] = 0
    <3>1. ~Consenting(req'[r])
      BY <2>3 DEF Consenting
    <3> QED
      BY <2>1, <2>2, <2>3, <2>4, <3>1 DEF CodesOnce, Holding
  <2>7. ASSUME NEW p \in Requests, NEW q \in Requests, req'[p].grant = req'[q].grant,
               \/ Consenting(req'[p]) /\ Consenting(req'[q])
               \/ req'[p].pc = "issue" /\ req'[q].pc = "issue"
        PROVE  p = q
    <3>1. CASE p # r /\ q # r
      BY <2>3, <2>7, <3>1 DEF CodesOnce
    <3>2. CASE p = r \/ q = r
      BY <2>3, <2>4, <2>7, <3>2 DEF Holding, Consenting
    <3> QED
      BY <3>1, <3>2
  <2> QED
    BY <2>5, <2>6, <2>7 DEF CodesOnce, Consenting
<1> QED
  BY <1>2, <1>3

LEMMA CodesIssueToken ==
  ASSUME Types, CodesOnce, NEW r \in Requests, IssueToken(r)
  PROVE  CodesOnce'
<1> DEFINE g == req[r].grant
<1>1. g \in Grants /\ req[r].pc = "issue"
  BY HeldGrant DEF IssueToken
<1>2. Quiet /\ UNCHANGED <<code, grants, saved>>
  BY QuietFinish DEF IssueToken
<1>3. hist'.issued = [hist.issued EXCEPT ![g] = @ + 1]
  BY <1>1, IssueHistory DEF IssueToken
<1>4. hist.issued[g] = 0 /\ code[g] \in {"consumed", "deleted"}
  BY <1>1 DEF CodesOnce
<1>5. hist'.issued[g] = 1 /\ \A h \in Grants : h # g => hist'.issued[h] = hist.issued[h]
  BY <1>1, <1>3, <1>4 DEF Types, History
<1>6. req'[r].pc = "idle" /\ \A q \in Requests : q # r => req'[q] = req[q]
  BY NoRequestType DEF IssueToken, Finish, Types
<1>7. ASSUME NEW q \in Requests, req'[q].pc = "issue"
      PROVE  req[q].grant \in Grants /\ req'[q] = req[q] /\ req[q].grant # g
  <2>1. q # r /\ req'[q] = req[q]
    BY <1>6, <1>7
  <2>2. req[q].grant \in Grants
    BY <1>7, <2>1, HeldGrant
  <2> QED
    BY <1>1, <1>7, <2>1, <2>2 DEF CodesOnce
<1> HIDE DEF g
<1>8. \A h \in Grants :
        /\ hist'.issued[h] <= 1
        /\ h > saved' => code'[h] = "none"
        /\ code'[h] \in {"none", "fresh"} => hist'.issued[h] = 0
        /\ code'[h] = "deleted" => h \notin grants'
  BY <1>2, <1>4, <1>5 DEF CodesOnce
<1>9. \A q \in Requests :
        /\ Consenting(req'[q]) => code'[req'[q].grant] \in {"none", "deleted"}
        /\ req'[q].pc = "issue" => /\ code'[req'[q].grant] \in {"consumed", "deleted"}
                                   /\ hist'.issued[req'[q].grant] = 0
  <2>1. \A q \in Requests : Consenting(req'[q]) => code'[req'[q].grant] \in {"none", "deleted"}
    BY <1>2 DEF CodesOnce, Quiet, Holding
  <2> QED
    BY <1>2, <1>5, <1>7, <2>1 DEF CodesOnce
<1>10. ASSUME NEW p \in Requests, NEW q \in Requests, req'[p].grant = req'[q].grant,
              \/ Consenting(req'[p]) /\ Consenting(req'[q])
              \/ req'[p].pc = "issue" /\ req'[q].pc = "issue"
       PROVE  p = q
  BY <1>2, <1>10 DEF CodesOnce, Quiet, Holding
<1> QED
  BY <1>8, <1>9, <1>10 DEF CodesOnce, Consenting

LEMMA CodesNext ==
  ASSUME Types, CodesOnce, [Next]_vars
  PROVE  CodesOnce'
<1>1. ASSUME NEW r \in Requests,
             AskConsent(r) \/ IssueCode(r) \/ Consume(r) \/ IssueToken(r)
      PROVE  CodesOnce'
  BY <1>1, CodesAsk, CodesIssueCode, CodesConsume, CodesIssueToken
<1>2. ASSUME NEW r \in Requests, Recover(r), RecoveryStillHolds(r) PROVE CodesOnce'
  <2>1. hist'.issued = hist.issued
    BY <1>2, RecoverHistory
  <2>2. CutConnection
    BY <1>2 DEF Recover
  <2>3. CASE Quiet
    BY <2>1, <2>2, <2>3, CodesCut
  <2> QED
    BY <1>1, <2>3, QuietStep
<1>3. ASSUME NEW r \in Requests, PersistConsent(r) PROVE CodesOnce'
  <2>1. hist'.issued = hist.issued \/ \E q \in Requests : IssueToken(q)
    BY HistoryStep DEF HistoryChange
  <2>2. UNCHANGED <<code, grants, saved>>
    BY <1>3 DEF PersistConsent
  <2> QED
    BY <1>1, <2>1, <2>2, QuietStep, CodesQuiet
<1>4. ASSUME Disconnect PROVE CodesOnce'
  <2>1. hist'.issued = hist.issued \/ \E q \in Requests : IssueToken(q)
    BY HistoryStep DEF HistoryChange
  <2>2. CutConnection
    BY <1>4 DEF Disconnect
  <2> QED
    BY <1>1, <2>1, <2>2, QuietStep, CodesCut
<1>5. CASE UNCHANGED oauth
  <2>1. hist'.issued = hist.issued \/ \E q \in Requests : IssueToken(q)
    BY HistoryStep DEF HistoryChange
  <2>2. UNCHANGED <<code, grants, saved>>
    BY <1>5 DEF oauth
  <2> QED
    BY <1>1, <2>1, <2>2, QuietStep, CodesQuiet
<1> QED
  BY <1>1, <1>2, <1>3, <1>4, <1>5, ConsentStep

LEMMA RetiredQuiet ==
  ASSUME Types, Retired, Quiet, saved' = saved,
         hist'.issued = hist.issued, hist'.retired = hist.retired,
         connection'.grant = connection.grant, connection'.revoked = connection.revoked,
         connection'.connected = connection.connected
  PROVE  Retired'
BY DEF Retired, Quiet, Holding, Consenting

LEMMA RetiredCut ==
  ASSUME Types, Retired, Quiet, CutConnection, hist'.issued = hist.issued,
         hist'.retired = hist.retired \cup ({connection.grant} \ {0})
  PROVE  Retired'
<1>1. /\ connection'.grant = connection.grant /\ connection'.revoked
      /\ connection'.connected = connection.connected
      /\ saved' = saved /\ connection.grant <= saved
  BY DEF CutConnection, Types, ConsentTypes, Connection
<1> QED
  BY <1>1 DEF Retired, Quiet, Holding, Consenting

LEMMA RetiredAsk ==
  ASSUME Types, Retired, NEW r \in Requests, AskConsent(r)
  PROVE  Retired'
<1>1. PICK s \in sessions :
        Start(r, [NoRequest EXCEPT !.pc = "consent", !.version = s.version,
                                   !.password = s.password, !.grant = saved + 1])
  BY DEF AskConsent
<1>2. /\ req'[r].pc = "consent" /\ req'[r].grant = saved + 1
      /\ \A q \in Requests : q # r => req'[q] = req[q]
  BY <1>1 DEF Start, NoRequest, Types
<1>3. saved' = saved + 1 /\ UNCHANGED <<connection, hist>>
  BY DEF AskConsent
<1>4. /\ saved \in Int /\ connection.grant \in Int /\ connection.grant <= saved
      /\ \A g \in hist.retired : g \in Int
  BY DEF Types, ConsentTypes, Connection, Grants, History
<1>5. \A g \in hist'.retired : g <= saved' /\ (connection'.grant = g => connection'.revoked)
  BY <1>3, <1>4 DEF Retired
<1>6. req'[r].grant # connection'.grant /\ req'[r].grant \notin hist'.retired
  <2>1. saved + 1 # connection.grant
    BY <1>4
  <2>2. saved + 1 \notin hist.retired
    BY <1>4 DEF Retired
  <2> QED
    BY <1>2, <1>3, <2>1, <2>2
<1>7. ASSUME NEW q \in Requests, req'[q].pc = "consent"
      PROVE  req'[q].grant # connection'.grant /\ req'[q].grant \notin hist'.retired
  BY <1>2, <1>3, <1>6, <1>7 DEF Retired
<1>8. connection'.connected => connection'.grant # 0 /\ hist'.issued[connection'.grant] > 0
  BY <1>3 DEF Retired
<1> QED
  BY <1>5, <1>7, <1>8 DEF Retired

\* The new consent was not retired, and no other request carries it.
LEMMA RetiredPersist ==
  ASSUME Types, CodesOnce, Retired, NEW r \in Requests, PersistConsent(r), MayPersist(r)
  PROVE  Retired'
<1> DEFINE S == {connection.grant} \ {0}
<1>1. S \in SUBSET Grants
  BY DEF Types, ConsentTypes, Connection
<1>2. hist'.retired = hist.retired \cup S /\ hist'.issued = hist.issued
  BY <1>1, RetireHistory DEF PersistConsent
<1>3. /\ connection'.grant = req[r].grant /\ ~connection'.connected
      /\ saved' = saved /\ req[r].pc = "consent"
  BY DEF PersistConsent
<1>4. /\ req'[r].pc = "finish"
      /\ \A q \in Requests : q # r => req'[q] = req[q]
  BY DEF PersistConsent, Go, Types, Request
<1>5. req[r].grant \notin hist'.retired
  BY <1>2, <1>3 DEF Retired
<1>6. \A g \in hist'.retired : g <= saved'
  BY <1>2, <1>3 DEF Retired, Types, ConsentTypes
<1>7. ASSUME NEW q \in Requests, req'[q].pc = "consent"
      PROVE  req'[q].grant # connection'.grant /\ req'[q].grant \notin hist'.retired
  <2>1. q # r /\ req'[q] = req[q]
    BY <1>4, <1>7
  <2>2. req[q].grant # req[r].grant
    BY <1>3, <1>7, <2>1 DEF CodesOnce, Consenting
  <2> QED
    BY <1>2, <1>3, <1>7, <2>1, <2>2 DEF Retired
<1> QED
  BY <1>3, <1>5, <1>6, <1>7 DEF Retired

LEMMA RetiredToken ==
  ASSUME Types, Retired, NEW r \in Requests, IssueToken(r)
  PROVE  Retired'
<1> DEFINE g == req[r].grant
<1>1. g \in Grants
  BY HeldGrant DEF IssueToken
<1>2. /\ hist'.issued = [hist.issued EXCEPT ![g] = @ + 1] /\ hist'.retired = hist.retired
  BY <1>1, IssueHistory DEF IssueToken
<1>3. Quiet /\ saved' = saved
  BY QuietFinish DEF IssueToken
<1>4. /\ connection'.grant = connection.grant /\ connection'.revoked = connection.revoked
      /\ connection'.connected => connection.connected \/ connection.grant = g
  BY DEF IssueToken, MarksConnected, Types, ConsentTypes, Connection
<1>5. connection'.connected => connection'.grant # 0 /\ hist'.issued[connection'.grant] > 0
  <2>1. hist'.issued[g] > 0 /\ g # 0
    <3>1. hist.issued[g] \in Nat /\ hist'.issued[g] = hist.issued[g] + 1
      BY <1>1, <1>2 DEF Types, History
    <3>2. g # 0
      BY <1>1 DEF Grants
    <3> QED
      BY <3>1, <3>2
  <2>2. \A h \in Grants : h # g => hist'.issued[h] = hist.issued[h]
    BY <1>1, <1>2 DEF Types, History
  <2>3. connection.grant # 0 => connection.grant \in Grants
    BY DEF Types, ConsentTypes, Connection
  <2> HIDE DEF g
  <2> QED
    BY <1>4, <2>1, <2>2, <2>3 DEF Retired
<1>6. \A h \in hist'.retired : h <= saved' /\ (connection'.grant = h => connection'.revoked)
  BY <1>2, <1>3, <1>4 DEF Retired
<1>7. \A q \in Requests : req'[q].pc = "consent" =>
        req'[q].grant # connection'.grant /\ req'[q].grant \notin hist'.retired
  BY <1>2, <1>3, <1>4 DEF Retired, Quiet, Holding, Consenting
<1> QED
  BY <1>5, <1>6, <1>7 DEF Retired

LEMMA RetiredNext ==
  ASSUME Types, CodesOnce, Retired, [Next]_vars
  PROVE  Retired'
<1>1. ASSUME NEW r \in Requests, AskConsent(r) \/ IssueToken(r) PROVE Retired'
  BY <1>1, RetiredAsk, RetiredToken
<1>2. ASSUME NEW r \in Requests, PersistConsent(r), MayPersist(r) PROVE Retired'
  BY <1>2, RetiredPersist
<1>3. ASSUME NEW r \in Requests, Recover(r), RecoveryStillHolds(r) PROVE Retired'
  <2>1. hist'.issued = hist.issued /\ hist'.retired = hist.retired \cup ({connection.grant} \ {0})
    BY <1>3, RecoverHistory
  <2>2. CutConnection
    BY <1>3 DEF Recover
  <2>3. Quiet
    <3>1. ~Finish(r) => req'[r].pc = "sign" /\ \A s \in Requests : s # r => req'[s] = req[s]
      BY <1>3 DEF Recover, Types, Request
    <3> QED
      BY <3>1, QuietFinish, QuietRequest
  <2> QED
    BY <2>1, <2>2, <2>3, RetiredCut
<1>4. ASSUME Disconnect PROVE Retired'
  <2>1. connection.grant # 0 /\ {connection.grant} \in SUBSET Grants
    BY <1>4 DEF Disconnect, Types, ConsentTypes, Connection
  <2>2. hist'.issued = hist.issued /\ hist'.retired = hist.retired \cup {connection.grant}
    BY <1>4, <2>1, RetireHistory DEF Disconnect
  <2>3. CutConnection /\ Quiet
    BY <1>4 DEF Disconnect, Quiet
  <2>4. {connection.grant} = {connection.grant} \ {0}
    BY <2>1
  <2> QED
    BY <2>2, <2>3, <2>4, RetiredCut
<1>5. ASSUME NEW r \in Requests,
             IssueCode(r) \/ Consume(r) \/ (PersistConsent(r) /\ ~MayPersist(r))
      PROVE  Retired'
  <2>1. UNCHANGED <<connection, saved, hist>>
    BY <1>5 DEF IssueCode, Consume, PersistConsent
  <2>2. \A q \in Requests : req'[q].pc = "consent" => req'[q] = req[q]
    BY <1>5, NoRequestType DEF IssueCode, Consume, PersistConsent, Finish, Go, Types, Request
  <2> QED
    BY <2>1, <2>2 DEF Retired
<1>6. CASE UNCHANGED oauth
  <2>1. UNCHANGED <<connection, saved>>
    BY <1>6 DEF oauth
  <2>2. ASSUME NEW r \in Requests, Consume(r) PROVE Retired'
    BY <1>5, <2>2
  <2>3. \/ hist'.issued = hist.issued
        \/ \E r \in Requests : IssueToken(r)
    BY HistoryStep DEF HistoryChange
  <2>4. \/ hist'.retired = hist.retired
        \/ \E r \in Requests : \/ Recover(r) /\ RecoveryStillHolds(r)
                               \/ PersistConsent(r) /\ MayPersist(r)
        \/ Disconnect
    BY HistoryStep DEF HistoryChange
  <2> QED
    BY <1>1, <1>2, <1>3, <1>4, <2>1, <2>2, <2>3, <2>4, QuietStep, RetiredQuiet
<1> QED
  BY <1>1, <1>2, <1>3, <1>4, <1>5, <1>6, ConsentStep

-----------------------------------------------------------------------------

LEMMA InitIInv == Init => IInv
<1> SUFFICES ASSUME Init PROVE IInv
  OBVIOUS
<1>1. Types
  <2>1. AccountTypes
    BY Bounds DEF Init, AccountTypes, User, Session, Passwords, Codes, Versions
  <2>2. DeviceTypes
    BY Bounds DEF Init, DeviceTypes, Device, Challenge, Budget, NoFailures, Passwords
  <2>3. ConsentTypes
    BY Bounds DEF Init, ConsentTypes, Connection, Passwords
  <2>4. ReqTypes
    BY NoRequestType DEF Init, ReqTypes
  <2>5. hist \in History
    BY DEF Init, History
  <2> QED
    BY <2>1, <2>2, <2>3, <2>4, <2>5 DEF Types, ReqTypes
<1>2. Credentials
  BY NoRequestType DEF Init, Credentials, Dated
<1>3. Guesses /\ Burned
  BY DEF Init, Guesses, Burned, NoFailures
<1>4. CodesOnce
  BY NoRequestType DEF Init, CodesOnce, Consenting
<1>5. Retired
  BY NoRequestType DEF Init, Retired
<1> QED
  BY <1>1, <1>2, <1>3, <1>4, <1>5 DEF IInv

LEMMA IInvNext == IInv /\ [Next]_vars => IInv'
BY TypesNext, CredentialsNext, GuessesNext, BurnedNext, CodesNext, RetiredNext DEF IInv

\* The inductive invariant of the sessions, devices and consents of an account.
THEOREM Invariant == Spec => []IInv
<1>1. Init => IInv
  BY InitIInv
<1>2. IInv /\ [Next]_vars => IInv'
  BY IInvNext
<1> QED
  BY <1>1, <1>2, PTL DEF Spec

\* Every variable keeps its type (AccountAccess.TypeOK).
THEOREM TypeCorrect == Spec => []TypeOK
<1>1. IInv => TypeOK
  BY DEF IInv, Types, AccountTypes, DeviceTypes, ConsentTypes, TypeOK, Budget
<1> QED
  BY <1>1, Invariant, PTL

\* After a recovery nothing opened with the former password works: the version
\* a session, a device or a consent carries is the account's only when it goes
\* back to the present password (services/auth.ts, lib/trusted-device-login.ts,
\* oauth/connection.ts).
THEOREM PasswordNeeded == Spec => []AccessNeedsThePassword
<1>1. IInv => AccessNeedsThePassword
  BY DEF IInv, Credentials, Dated, AccessNeedsThePassword, Live, ValidDevice
<1> QED
  BY <1>1, Invariant, PTL

\* However many requests present it at the same time, a challenge, a recovery
\* code and an authorization code are of use once (lib/trusted-device-login.ts,
\* services/auth.ts, oauth/adapter.ts).
THEOREM OnceOnly == Spec => []ProofsWorkOnce
<1>1. IInv => ProofsWorkOnce
  BY DEF IInv, Burned, CodesOnce, ProofsWorkOnce
<1> QED
  BY <1>1, Invariant, PTL

\* A window never compares more wrong passwords than FAILURE_LIMIT, for any
\* number of requests (lib/trusted-device-login.ts).
THEOREM FewGuesses == Spec => []GuessesAreLimited
<1>1. IInv => GuessesAreLimited
  BY Bounds DEF IInv, Types, DeviceTypes, Budget, Guesses, GuessesAreLimited
<1> QED
  BY <1>1, Invariant, PTL

\* A replaced or cut consent has no effect, also when its tokens come late, and
\* a connection counts as connected by a token of its own consent
\* (oauth/connection.ts, oauth/adapter.ts).
THEOREM ConsentDecides == Spec => []TokensFollowTheConsent
<1>1. IInv => TokensFollowTheConsent
  BY DEF IInv, Retired, TokensFollowTheConsent, Accepted
<1> QED
  BY <1>1, Invariant, PTL
=============================================================================
