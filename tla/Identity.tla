------------------------------ MODULE Identity ------------------------------
(***************************************************************************)
(* Accounts, logins and sessions.  A login verifies the password on a      *)
(* snapshot of the account and then, in a transaction, opens a session or  *)
(* a challenge for the second factor; a proof of that factor is verified   *)
(* on a snapshot too and consumed with the challenge in a second           *)
(* transaction.  Meanwhile passwords change, factors come and go, and      *)
(* administrators edit roles, deactivate accounts and recover them.        *)
(*                                                                         *)
(* Passwords, secrets of authenticators and recovery codes are numbers; a  *)
(* stored hash is its password and whether the parameters of the hash are  *)
(* outdated.  An account has at most one unused recovery code.             *)
(***************************************************************************)
EXTENDS Integers, FiniteSets

CONSTANTS
  Users, Sessions, Challenges,
  Members,       \* bound: the users who log in and manage their accounts
  Logins,        \* login requests in progress
  Edits,         \* transactions of UpdateUserAccess in progress
  None,          \* no user and no challenge
  MaxVersion,    \* bound: an account of this version is not changed any more
  MaxIssued,     \* bound: factors and codes an account is given
  MaxStep,       \* bound: time steps of authenticator codes
  Accesses,      \* bound: the roles and states each of these transactions may give to accounts
  MaxFailures    \* failed proofs a challenge stands, 10 in the code

ASSUME IdentityAssumption == None \notin Users \cup Challenges /\ Members \subseteq Users /\ Users # {}
ASSUME LimitAssumption ==
  /\ Accesses \in [Edits -> SUBSET [user : Users, role : {"admin", "driver"}, active : BOOLEAN]]
  /\ MaxVersion \in Nat \ {0} /\ MaxIssued \in Nat \ {0} /\ MaxStep \in Nat /\ MaxFailures \in Nat \ {0}

VARIABLES
  users,       \* tables users, user_totp_credentials, user_webauthn_credentials, user_recovery_codes
  sessions,    \* table sessions, with what opened the session and the authenticator then
  challenges,  \* table auth_login_challenges, with the password that earned it
  logins,      \* what each login request has read
  edits        \* what each transaction of UpdateUserAccess has read

vars == <<users, sessions, challenges, logins, edits>>

NoSession ==
  [user |-> None, live |-> FALSE, password |-> 0, challenge |-> None, proof |-> <<>>, under |-> 0]
NoChallenge == [user |-> None, open |-> FALSE, password |-> 0, failures |-> 0]
Idle == [at |-> "idle", user |-> None, seen |-> <<>>, challenge |-> None, proof |-> <<>>]
NoEdit == [user |-> None, role |-> "driver", active |-> FALSE, rows |-> {}]

HasFactor(user) == user.totp # 0 \/ user.passkey

\* What a login decides on.
Seen(user) ==
  [password |-> user.password, outdated |-> user.outdated, mustChange |-> user.mustChange,
   version |-> user.version, second |-> HasFactor(user)]
IsAdmin(user) == user.active /\ user.role = "admin"
Admins == {u \in Users : IsAdmin(users[u])}

Bumped(user) == [user EXCEPT !.version = @ + 1]
MayChange(u) == users[u].version < MaxVersion

\* What no longer works need not remember the password it was earned with.
Ended(session) == [session EXCEPT !.live = FALSE, !.password = 0]
Closed(challenge) == [NoChallenge EXCEPT !.user = challenge.user]

SignedOut(u) ==
  [s \in Sessions |-> IF sessions[s].user = u THEN Ended(sessions[s]) ELSE sessions[s]]

\* Seeded fault: challenges outlive the password they were earned with.
KeepChallenges(u) == challenges

\* A deleted challenge is one that is no longer open; its token is never given again.
WithoutChallenges(u) ==
  [k \in Challenges |-> IF challenges[k].user = u THEN Closed(challenges[k]) ELSE challenges[k]]

\* Tokens are random, which unused one is taken does not matter.
NewSessions == {s \in Sessions : sessions[s] = NoSession}
NewChallenges == {k \in Challenges : challenges[k] = NoChallenge}
Unused(tokens) == CHOOSE x \in tokens : TRUE

OpenSession(u, password, challenge, proof) ==
  /\ NewSessions # {}
  /\ sessions' = [sessions EXCEPT ![Unused(NewSessions)] =
       [user |-> u, live |-> TRUE, password |-> password, challenge |-> challenge,
        proof |-> proof, under |-> users[u].totp]]

-----------------------------------------------------------------------------
(* The password *)

\* FindUserByUsername and the verification of the password on what it returned
VerifyPassword(l, u) ==
  /\ logins[l] = Idle
  /\ users[u].active
  /\ logins' = [logins EXCEPT ![l].at = "verified", ![l].user = u, ![l].seen = Seen(users[u])]
  /\ UNCHANGED <<users, sessions, challenges, edits>>

\* Seeded fault: only the account is locked and looked at.
StillActive(u, seen) == users[u].active

\* lockVerifiedCredential: the account is active and has the hash that was verified.
StillVerified(u, seen) ==
  /\ users[u].active
  /\ users[u].password = seen.password /\ users[u].outdated = seen.outdated

\* Seeded fault: the account is replaced as it was read.
AsEver(u, seen) == TRUE

\* A hash with outdated parameters is replaced, if the account is as it was read.
AsRead(u, seen) == users[u].version = seen.version

Rehash(u, seen) ==
  IF seen.outdated
    THEN /\ AsRead(u, seen)
         /\ users' = [users EXCEPT ![u].outdated = FALSE, ![u].mustChange = seen.mustChange,
                                   ![u].version = @ + 1]
    ELSE UNCHANGED users

\* RotateLogin, for an account that had no second factor
RotateLogin(l) ==
  LET u == logins[l].user
      seen == logins[l].seen IN
  /\ logins[l].at = "verified" /\ ~seen.second
  /\ StillVerified(u, seen)
  /\ Rehash(u, seen)
  /\ OpenSession(u, seen.password, None, <<>>)
  /\ logins' = [logins EXCEPT ![l] = Idle]
  /\ UNCHANGED <<challenges, edits>>

StartLoginChallenge(l) ==
  LET u == logins[l].user
      seen == logins[l].seen IN
  /\ logins[l].at = "verified" /\ seen.second
  /\ StillVerified(u, seen)
  /\ Rehash(u, seen)
  /\ NewChallenges # {}
  /\ challenges' = [challenges EXCEPT ![Unused(NewChallenges)] =
       [user |-> u, open |-> TRUE, password |-> seen.password, failures |-> 0]]
  /\ logins' = [logins EXCEPT ![l] = Idle]
  /\ UNCHANGED <<sessions, edits>>

\* The request is refused, or its client is gone.
GiveUp(l) ==
  /\ logins[l].at = "verified"
  /\ logins' = [logins EXCEPT ![l] = Idle]
  /\ UNCHANGED <<users, sessions, challenges, edits>>

-----------------------------------------------------------------------------
(* The second factor *)

\* loginChallenge; an expired challenge is one that is not answered any more.
Usable(k) ==
  /\ challenges[k].open
  /\ challenges[k].failures < MaxFailures
  /\ users[challenges[k].user].active

\* What the service accepts as a proof before the transaction: a fresh code of the
\* authenticator, an assertion of a passkey or a recovery code.  Any other recovery
\* code passes here too and fails in the transaction, as RefuseProof does.
Proofs(user) ==
  [kind : {"totp"}, enrolment : {user.totp} \ {0}, value : (user.step + 1) .. MaxStep]
  \cup [kind : {"passkey"}, enrolment : {0}, value : IF user.passkey THEN {0} ELSE {}]
  \cup [kind : {"recovery"}, enrolment : {0}, value : {user.code} \ {0}]

VerifyProof(l, k) ==
  /\ logins[l] = Idle
  /\ Usable(k)
  /\ \E proof \in Proofs(users[challenges[k].user]) :
       logins' = [logins EXCEPT ![l].at = "proved", ![l].user = challenges[k].user,
                                ![l].challenge = k, ![l].proof = proof]
  /\ UNCHANGED <<users, sessions, challenges, edits>>

\* Seeded fault: the same step is accepted again.
StepIsNotOld(user, step) == user.totp # 0 /\ user.step <= step

\* RecordTOTPStep, ConsumeRecoveryCode or UpdateWebAuthnCredential changes one row.
\* A step is compared with those of the present authenticator, whichever one its code
\* was verified with.
StepIsNew(user, step) == user.totp # 0 /\ user.step < step

Accepted(user, proof) ==
  \/ proof.kind = "totp" /\ StepIsNew(user, proof.value)
  \/ proof.kind = "recovery" /\ user.code = proof.value
  \/ proof.kind = "passkey" /\ user.passkey

Consumed(user, proof) ==
  CASE proof.kind = "totp" -> [user EXCEPT !.step = proof.value]
    [] proof.kind = "recovery" -> [user EXCEPT !.code = 0]
    [] proof.kind = "passkey" -> user

CompleteLogin(l) ==
  LET u == logins[l].user
      k == logins[l].challenge
      proof == logins[l].proof IN
  /\ logins[l].at = "proved"
  /\ challenges[k].user = u /\ Usable(k)
  /\ Accepted(users[u], proof)
  /\ challenges' = [challenges EXCEPT ![k] = Closed(@)]
  /\ users' = [users EXCEPT ![u] = Consumed(@, proof)]
  /\ OpenSession(u, challenges[k].password, k, proof)
  /\ logins' = [logins EXCEPT ![l] = Idle]
  /\ UNCHANGED edits

\* Seeded fault: a failure is counted whatever the challenge stands at.
RecordAnyFailure(k) == challenges' = [challenges EXCEPT ![k].failures = @ + 1]

RecordFailure(k) ==
  IF challenges[k].open /\ challenges[k].failures < MaxFailures
    THEN challenges' = [challenges EXCEPT ![k].failures = @ + 1]
    ELSE UNCHANGED challenges

\* CompleteLogin is rolled back, or its client is gone before the failure counts.
FailLogin(l) ==
  /\ logins[l].at = "proved"
  /\ RecordFailure(logins[l].challenge) \/ UNCHANGED challenges
  /\ logins' = [logins EXCEPT ![l] = Idle]
  /\ UNCHANGED <<users, sessions, edits>>

\* A proof that the service refuses by itself.
RefuseProof(k) ==
  /\ Usable(k)
  /\ RecordFailure(k)
  /\ UNCHANGED <<users, sessions, logins, edits>>

-----------------------------------------------------------------------------
(* The owner of an account; the page was loaded in a session that may have ended *)

HadSession(u) == \E s \in Sessions : sessions[s].user = u

RevokeSession(s) ==
  /\ sessions[s].live
  /\ sessions' = [sessions EXCEPT ![s] = Ended(@)]
  /\ UNCHANGED <<users, challenges, logins, edits>>

\* updatePassword, for ChangeOwnPassword and ResetPassword; the version is that of
\* the account, since any other is refused.
UpdatePassword(u, mustChange) ==
  /\ MayChange(u)
  /\ users' = [users EXCEPT ![u] =
       [Bumped(@) EXCEPT !.password = users[u].password + 1, !.outdated = FALSE,
                         !.mustChange = mustChange]]
  /\ sessions' = SignedOut(u)
  /\ challenges' = WithoutChallenges(u)
  /\ UNCHANGED <<logins, edits>>

ChangeOwnPassword(u) == HadSession(u) /\ UpdatePassword(u, FALSE)

\* insertRecoveryHashesIfEmpty
CodeAfter(user) == IF user.code # 0 THEN user.code ELSE user.issued + 1

EnableTOTP(u) ==
  /\ HadSession(u) /\ users[u].totp = 0 /\ users[u].issued < MaxIssued
  /\ users' = [users EXCEPT ![u] =
       [@ EXCEPT !.totp = users[u].issued + 1, !.step = 0, !.code = CodeAfter(users[u]),
                 !.issued = users[u].issued + 1]]
  /\ UNCHANGED <<sessions, challenges, logins, edits>>

AddWebAuthnCredential(u) ==
  /\ HadSession(u) /\ ~users[u].passkey /\ users[u].issued < MaxIssued
  /\ users' = [users EXCEPT ![u] =
       [@ EXCEPT !.passkey = TRUE, !.code = CodeAfter(users[u]), !.issued = users[u].issued + 1]]
  /\ UNCHANGED <<sessions, challenges, logins, edits>>

\* deleteRecoveryCodesWithoutFactor
WithoutIdleCode(user) == IF HasFactor(user) THEN user ELSE [user EXCEPT !.code = 0]

DeleteFactor(u) ==
  /\ HadSession(u)
  /\ \/ /\ users[u].totp # 0
        /\ users' = [users EXCEPT ![u] = WithoutIdleCode([@ EXCEPT !.totp = 0, !.step = 0])]
     \/ /\ users[u].passkey
        /\ users' = [users EXCEPT ![u] = WithoutIdleCode([@ EXCEPT !.passkey = FALSE])]
  /\ UNCHANGED <<sessions, challenges, logins, edits>>

\* RotateRecoveryCodes looks for a factor before the transaction, which does not.
ReplaceRecoveryCodes(u) ==
  /\ HadSession(u) /\ users[u].issued < MaxIssued
  /\ users' = [users EXCEPT ![u].code = users[u].issued + 1, ![u].issued = @ + 1]
  /\ UNCHANGED <<sessions, challenges, logins, edits>>

-----------------------------------------------------------------------------
(* Administration *)

ResetPassword(u) == UpdatePassword(u, TRUE)

ResetUserSecurity(u) ==
  /\ MayChange(u)
  /\ users' = [users EXCEPT ![u] =
       [Bumped(@) EXCEPT !.mustChange = TRUE, !.totp = 0, !.step = 0, !.passkey = FALSE,
                         !.code = 0]]
  /\ challenges' = WithoutChallenges(u)
  /\ sessions' = SignedOut(u)
  /\ UNCHANGED <<logins, edits>>

Row(u) == [user |-> u, version |-> users[u].version]

\* UpdateUserAccess runs under serializable isolation: it decides on a snapshot, and
\* fails if a row it locks or writes has changed since.
RemovesAdmin(access) == access.user \in Admins /\ ~IsAdmin(access)

BeginUpdateAccess(e, access) ==
  /\ edits[e] = NoEdit
  /\ RemovesAdmin(access) => Cardinality(Admins) > 1
  /\ edits' = [edits EXCEPT ![e] =
       [user |-> access.user, role |-> access.role, active |-> access.active,
        rows |-> {Row(u) : u \in IF RemovesAdmin(access) THEN Admins ELSE {access.user}}]]
  /\ UNCHANGED <<users, sessions, challenges, logins>>

\* Seeded fault: only the edited row is looked at again.
VersionOnly(edit) == Row(edit.user) \in edit.rows
Serializable(edit) == \A row \in edit.rows : row = Row(row.user)

CommitUpdateAccess(e) ==
  LET edit == edits[e] IN
  /\ edit # NoEdit
  /\ Serializable(edit)
  /\ MayChange(edit.user)
  /\ users' = [users EXCEPT ![edit.user] =
       [Bumped(@) EXCEPT !.role = edit.role, !.active = edit.active]]
  /\ sessions' = IF edit.active THEN sessions ELSE SignedOut(edit.user)
  /\ edits' = [edits EXCEPT ![e] = NoEdit]
  /\ UNCHANGED <<challenges, logins>>

RollBackUpdateAccess(e) ==
  /\ edits[e] # NoEdit
  /\ edits' = [edits EXCEPT ![e] = NoEdit]
  /\ UNCHANGED <<users, sessions, challenges, logins>>

-----------------------------------------------------------------------------
\* Administrators who have chosen their passwords.  Some of the hashes are outdated;
\* some accounts have an authenticator, the others had one.
Fresh ==
  [role |-> "admin", active |-> TRUE, mustChange |-> FALSE, version |-> 1, password |-> 1,
   outdated |-> FALSE, totp |-> 0, step |-> 0, passkey |-> FALSE, code |-> 0, issued |-> 1]
OfOldTimes == [Fresh EXCEPT !.outdated = TRUE]
WithAuthenticator == [Fresh EXCEPT !.totp = 1, !.code = 1]

Init ==
  /\ \E user \in {Fresh, OfOldTimes, WithAuthenticator} :
       users = [u \in Users |-> IF u \in Members THEN user ELSE Fresh]
  /\ sessions = [s \in Sessions |-> NoSession]
  /\ challenges = [k \in Challenges |-> NoChallenge]
  /\ logins = [l \in Logins |-> Idle]
  /\ edits = [e \in Edits |-> NoEdit]

Login(l) ==
  \/ \E u \in Members : VerifyPassword(l, u)
  \/ RotateLogin(l) \/ StartLoginChallenge(l) \/ GiveUp(l)
  \/ \E k \in Challenges : VerifyProof(l, k)
  \/ CompleteLogin(l) \/ FailLogin(l)

Manage(u) ==
  \/ ChangeOwnPassword(u) \/ EnableTOTP(u) \/ AddWebAuthnCredential(u) \/ DeleteFactor(u)
  \/ ReplaceRecoveryCodes(u) \/ ResetPassword(u) \/ ResetUserSecurity(u)

Administer(e) ==
  \/ \E access \in Accesses[e] : BeginUpdateAccess(e, access)
  \/ CommitUpdateAccess(e) \/ RollBackUpdateAccess(e)

Next ==
  \/ \E l \in Logins : Login(l)
  \/ \E u \in Members : Manage(u)
  \/ \E e \in Edits : Administer(e)
  \/ \E s \in Sessions : RevokeSession(s)
  \/ \E k \in Challenges : RefuseProof(k)

Spec == Init /\ [][Next]_vars

-----------------------------------------------------------------------------
(* What has to hold *)

User ==
  [role : {"admin", "driver"}, active : BOOLEAN, mustChange : BOOLEAN, version : Nat \ {0},
   password : Nat \ {0}, outdated : BOOLEAN, totp : Nat, step : 0 .. MaxStep, passkey : BOOLEAN,
   code : Nat, issued : 0 .. MaxIssued]
Snapshot ==
  [password : Nat, outdated : BOOLEAN, mustChange : BOOLEAN, version : Nat, second : BOOLEAN]
Proof == [kind : {"totp", "passkey", "recovery"}, enrolment : Nat, value : Nat]

TypeOK ==
  /\ users \in [Users -> User]
  /\ sessions \in [Sessions ->
       [user : Users \cup {None}, live : BOOLEAN, password : Nat,
        challenge : Challenges \cup {None}, proof : Proof \cup {<<>>}, under : Nat]]
  /\ challenges \in [Challenges ->
       [user : Users \cup {None}, open : BOOLEAN, password : Nat, failures : 0 .. MaxFailures]]
  /\ logins \in [Logins ->
       [at : {"idle", "verified", "proved"}, user : Users \cup {None}, seen : Snapshot \cup {<<>>},
        challenge : Challenges \cup {None}, proof : Proof \cup {<<>>}]]
  /\ edits \in [Edits ->
       [user : Users \cup {None}, role : {"admin", "driver"}, active : BOOLEAN,
        rows : SUBSET [user : Users, version : Nat]]]

\* The last active administrator stays one, whatever edits of different accounts
\* are in progress at the same time.
AdminRemains == Admins # {}

\* A session that works belongs to an active account and was opened with its present
\* password, also when the login had begun before the password changed or the
\* account was deactivated.
SessionsAreEntitled ==
  \A s \in Sessions :
    sessions[s].live => /\ users[sessions[s].user].active
                        /\ users[sessions[s].user].password = sessions[s].password

\* One challenge and one recovery code open one session at most, however often and in
\* however many requests they are sent; so does a time step while one authenticator
\* stays enrolled.  A code that was verified, but not yet accepted, when another one
\* was enrolled counts for that one: sent in two challenges it can open a session
\* before and one after, as nothing is kept of the steps before.
SameProof(session, other) ==
  /\ session.user = other.user
  /\ session.proof # <<>> /\ other.proof # <<>>
  /\ session.proof.kind = other.proof.kind /\ session.proof.value = other.proof.value
  /\ \/ session.proof.kind = "recovery"
     \/ session.proof.kind = "totp" /\ session.under = other.under

OneSessionPerProof ==
  \A s, t \in Sessions :
    (/\ sessions[s].challenge # None
     /\ \/ sessions[s].challenge = sessions[t].challenge
        \/ SameProof(sessions[s], sessions[t])) => s = t

\* Whoever has to change the password has to until it was changed: a login that had
\* read the account before does not lift the demand.
MustChangeStays ==
  [][\A u \in Users :
       users[u].mustChange /\ ~users'[u].mustChange => users'[u].password > users[u].password]_vars
=============================================================================
