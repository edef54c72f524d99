--------------------------- MODULE IdentityProofs ---------------------------
(***************************************************************************)
(* Theorems about Identity for every choice of its constants.              *)
(*                                                                         *)
(* What holds the races together is that an account has a version: whoever *)
(* decides on what was read before compares versions or hashes, and every  *)
(* step either leaves what the version covers or counts it up (Successor). *)
(***************************************************************************)
EXTENDS Identity, FiniteSetTheorems, TLAPS

\* An account whose authenticator and recovery code were issued to it.
Account == {user \in User : user.totp <= user.issued /\ user.code <= user.issued}

SessionType ==
  [user : Users \cup {None}, live : BOOLEAN, password : Nat, challenge : Challenges \cup {None},
   proof : Proof \cup {<<>>}, under : Nat]
ChallengeType ==
  [user : Users \cup {None}, open : BOOLEAN, password : Nat, failures : 0 .. MaxFailures]
LoginType ==
  [at : {"idle", "verified", "proved"}, user : Users \cup {None}, seen : Snapshot \cup {<<>>},
   challenge : Challenges \cup {None}, proof : Proof \cup {<<>>}]
EditType ==
  [user : Users \cup {None}, role : {"admin", "driver"}, active : BOOLEAN,
   rows : SUBSET [user : Users, version : Nat]]

\* What is in use refers to accounts, and proofs are those the service accepts.
SessionFormed(session) ==
  /\ session \in SessionType
  /\ session.live \/ session.challenge # None => session.user \in Users
  /\ session.proof # <<>> => session.challenge # None

ChallengeFormed(challenge) ==
  challenge \in ChallengeType /\ (challenge.open => challenge.user \in Users)

GoodProof ==
  {proof \in Proof : /\ proof.kind = "totp" => proof.value \in 0 .. MaxStep
                     /\ proof.kind = "recovery" => 0 < proof.value}

LoginFormed(login) ==
  /\ login \in LoginType
  /\ login.at = "verified" => login.user \in Users /\ login.seen \in Snapshot
  /\ login.at = "proved" =>
       login.user \in Users /\ login.challenge \in Challenges /\ login.proof \in GoodProof

EditFormed(edit) == edit \in EditType /\ (edit # NoEdit => edit.user \in Users)

Functions ==
  /\ sessions = [s \in Sessions |-> sessions[s]]
  /\ challenges = [k \in Challenges |-> challenges[k]]
  /\ logins = [l \in Logins |-> logins[l]]
  /\ edits = [e \in Edits |-> edits[e]]

Typed ==
  /\ users \in [Users -> Account]
  /\ Functions
  /\ \A s \in Sessions : SessionFormed(sessions[s])
  /\ \A k \in Challenges : ChallengeFormed(challenges[k])
  /\ \A l \in Logins : LoginFormed(logins[l])
  /\ \A e \in Edits : EditFormed(edits[e])

\* The type invariant is part of it.
LEMMA TypedMeansTypeOK == Typed => TypeOK
<1> SUFFICES ASSUME Typed PROVE TypeOK
  OBVIOUS
<1>1. users \in [Users -> User]
  BY DEF Typed, Account
<1>2. sessions \in [Sessions -> SessionType] /\ challenges \in [Challenges -> ChallengeType]
  BY DEF Typed, Functions, SessionFormed, ChallengeFormed
<1>3. logins \in [Logins -> LoginType] /\ edits \in [Edits -> EditType]
  BY DEF Typed, Functions, LoginFormed, EditFormed
<1>4. QED
  BY <1>1, <1>2, <1>3 DEF TypeOK, SessionType, ChallengeType, LoginType, EditType

-----------------------------------------------------------------------------
(* What a step may do to an account *)

Successor(x, y) ==
  /\ x.version <= y.version
  /\ x.version = y.version =>
       /\ x.role = y.role /\ x.active = y.active
       /\ x.mustChange = y.mustChange /\ x.password = y.password
  /\ x.issued <= y.issued
  /\ (y.totp = x.totp /\ x.step <= y.step) \/ y.totp = 0 \/ x.issued < y.totp
  /\ y.code = x.code \/ y.code = 0 \/ x.issued < y.code
  /\ x.mustChange /\ ~y.mustChange => x.password < y.password

\* One account changes, to y.
Changes(u, y) ==
  /\ y \in Account /\ Successor(users[u], y)
  /\ users' = [users EXCEPT ![u] = y]

\* An account that does not change is its own successor.
LEMMA SameSuccessor == ASSUME NEW x \in Account PROVE Successor(x, x)
BY DEF Account, User, Successor

\* When one account changes, every account has a successor.
LEMMA ChangesMeansSuccessors ==
  ASSUME users \in [Users -> Account], NEW u \in Users, NEW y, Changes(u, y)
  PROVE  users' \in [Users -> Account] /\ \A v \in Users : Successor(users[v], users'[v])
BY SameSuccessor DEF Changes

\* A challenge that is closed is well formed.
LEMMA ClosedFormed ==
  ASSUME Typed, NEW k \in Challenges
  PROVE  ChallengeFormed(Closed(challenges[k]))
<1>1. 0 \in 0 .. MaxFailures
  BY LimitAssumption
<1>2. QED
  BY <1>1 DEF Typed, ChallengeFormed, ChallengeType, Closed, NoChallenge

\* Signing an account out, or closing its challenges, leaves both well formed.
LEMMA SignedOutFormed ==
  ASSUME Typed, NEW u
  PROVE  /\ SignedOut(u) = [s \in Sessions |-> SignedOut(u)[s]]
         /\ \A s \in Sessions : SessionFormed(SignedOut(u)[s])
         /\ WithoutChallenges(u) = [k \in Challenges |-> WithoutChallenges(u)[k]]
         /\ \A k \in Challenges : ChallengeFormed(WithoutChallenges(u)[k])
<1>1. ASSUME NEW s \in Sessions PROVE SessionFormed(Ended(sessions[s]))
  BY DEF Typed, SessionFormed, SessionType, Ended
<1>2. QED
  BY <1>1, ClosedFormed DEF SignedOut, WithoutChallenges, Typed

\* What owners and administrators do to one account: the password stays, or whoever
\* was signed in is signed out and the challenges are gone.
Managed(u, y) ==
  /\ Changes(u, y)
  /\ y.role = users[u].role /\ y.active = users[u].active
  /\ UNCHANGED <<logins, edits>>
  /\ \/ y.password = users[u].password /\ UNCHANGED <<sessions, challenges>>
     \/ sessions' = SignedOut(u) /\ challenges' = WithoutChallenges(u)

\* Counting up the version of an account.
LEMMA BumpedAccount ==
  ASSUME NEW x \in Account
  PROVE  /\ Bumped(x) \in Account /\ Bumped(x).version = x.version + 1
         /\ Bumped(x).role = x.role /\ Bumped(x).active = x.active
         /\ Bumped(x).password = x.password
         /\ Bumped(x).totp = x.totp /\ Bumped(x).step = x.step
         /\ Bumped(x).code = x.code /\ Bumped(x).issued = x.issued
BY DEF Bumped, Account, User

\* The columns of an account with which numbers are compared.
LEMMA AccountNumbers ==
  ASSUME NEW x \in Account
  PROVE  /\ x.version \in Nat /\ x.password \in Nat /\ x.totp \in Nat /\ x.code \in Nat
         /\ x.step \in Nat /\ x.issued \in Nat /\ x.issued <= MaxIssued
         /\ x.totp <= x.issued /\ x.code <= x.issued
         /\ x.mustChange \in BOOLEAN
BY LimitAssumption DEF Account, User

\* An account that is given new credentials.
Given(x, totp, step, passkey, code, issued) ==
  [x EXCEPT !.totp = totp, !.step = step, !.passkey = passkey, !.code = code, !.issued = issued]

\* It goes on to a proper successor.
LEMMA Credentialed ==
  ASSUME NEW x \in Account, NEW totp \in Nat, NEW step \in 0 .. MaxStep, NEW passkey \in BOOLEAN,
         NEW code \in Nat, NEW issued \in 0 .. MaxIssued, totp <= issued, code <= issued,
         x.issued <= issued,
         (totp = x.totp /\ x.step <= step) \/ totp = 0 \/ x.issued < totp,
         code = x.code \/ code = 0 \/ x.issued < code
  PROVE  LET y == Given(x, totp, step, passkey, code, issued)
         IN /\ y \in Account /\ Successor(x, y)
            /\ y.role = x.role /\ y.active = x.active /\ y.password = x.password
<1> DEFINE y == Given(x, totp, step, passkey, code, issued)
<1>1. y \in User
  BY DEF Account, User, Given
<1>2. /\ y.totp = totp /\ y.step = step /\ y.code = code /\ y.issued = issued
      /\ y.version = x.version /\ y.role = x.role /\ y.active = x.active
      /\ y.mustChange = x.mustChange /\ y.password = x.password
  BY DEF Account, User, Given
<1> HIDE DEF y
<1>3. y \in Account
  BY <1>1, <1>2 DEF Account
<1>4. Successor(x, y)
  BY <1>2, AccountNumbers DEF Successor
<1>5. QED
  BY <1>2, <1>3, <1>4 DEF y

\* What owners and administrators do to an account without touching its access.
LEMMA ManageChanges ==
  ASSUME Typed, NEW u \in Users, Manage(u)
  PROVE  \E y : Managed(u, y)
<1> DEFINE x == users[u]
<1>1. x \in Account
  BY DEF Typed
<1>2. 0 \in 0 .. MaxStep /\ x.step \in 0 .. MaxStep /\ x.issued \in 0 .. MaxIssued
      /\ x.passkey \in BOOLEAN
  BY <1>1, LimitAssumption DEF Account, User
<1>3. ASSUME NEW y, y \in Account, Successor(x, y), y.role = x.role, y.active = x.active,
             y.password = x.password, users' = [users EXCEPT ![u] = y],
             UNCHANGED <<sessions, challenges, logins, edits>>
      PROVE  Managed(u, y)
  BY <1>3 DEF Managed, Changes
<1>4. ASSUME NEW y, y \in Account, Successor(x, y), y.role = x.role, y.active = x.active,
             users' = [users EXCEPT ![u] = y], UNCHANGED <<logins, edits>>,
             sessions' = SignedOut(u), challenges' = WithoutChallenges(u)
      PROVE  Managed(u, y)
  BY <1>4 DEF Managed, Changes
<1>5. ASSUME NEW mustChange \in BOOLEAN, UpdatePassword(u, mustChange)
      PROVE  \E y : Managed(u, y)
  <2> DEFINE y == [Bumped(x) EXCEPT !.password = x.password + 1, !.outdated = FALSE,
                                    !.mustChange = mustChange]
  <2>1. y \in User
    <3>1. Bumped(x) \in User /\ x.password + 1 \in Nat \ {0}
      BY <1>1, BumpedAccount, AccountNumbers DEF Account
    <3>2. QED
      BY <3>1 DEF User
  <2>2. /\ y.version = x.version + 1 /\ y.password = x.password + 1 /\ y.role = x.role
        /\ y.active = x.active /\ y.totp = x.totp /\ y.step = x.step /\ y.code = x.code
        /\ y.issued = x.issued
    BY <1>1, BumpedAccount DEF Account, User
  <2>3. users' = [users EXCEPT ![u] = y]
    BY <1>5 DEF UpdatePassword
  <2> HIDE DEF y
  <2>4. y \in Account /\ Successor(x, y)
    BY <1>1, <2>1, <2>2, AccountNumbers DEF Account, Successor
  <2>5. Managed(u, y)
    BY <1>4, <1>5, <2>2, <2>3, <2>4 DEF UpdatePassword
  <2>6. QED
    BY <2>5
<1>6. CASE EnableTOTP(u) \/ AddWebAuthnCredential(u)
  <2> DEFINE y == Given(x, x.issued + 1, 0, x.passkey, CodeAfter(x), x.issued + 1)
             z == Given(x, x.totp, x.step, TRUE, CodeAfter(x), x.issued + 1)
  <2>1. x.issued + 1 \in 0 .. MaxIssued
    BY <1>2, <1>6, LimitAssumption DEF EnableTOTP, AddWebAuthnCredential
  <2>2. /\ CodeAfter(x) \in Nat /\ CodeAfter(x) <= x.issued + 1
        /\ CodeAfter(x) = x.code \/ x.issued < CodeAfter(x)
    BY <1>1, AccountNumbers DEF CodeAfter
  <2>3. /\ y \in Account /\ Successor(x, y)
        /\ y.role = x.role /\ y.active = x.active /\ y.password = x.password
    <3>1. /\ (x.issued + 1) \in Nat /\ 0 \in 0 .. MaxStep /\ x.passkey \in BOOLEAN
          /\ CodeAfter(x) \in Nat /\ (x.issued + 1) \in 0 .. MaxIssued
          /\ (x.issued + 1) <= (x.issued + 1) /\ CodeAfter(x) <= (x.issued + 1) /\ x.issued <= (x.issued + 1)
          /\ ((x.issued + 1) = x.totp /\ x.step <= 0) \/ (x.issued + 1) = 0 \/ x.issued < (x.issued + 1)
          /\ CodeAfter(x) = x.code \/ CodeAfter(x) = 0 \/ x.issued < CodeAfter(x)
      BY <1>1, <1>2, <2>1, <2>2, AccountNumbers
    <3>2. QED
      BY <1>1, <3>1, Credentialed
  <2>4. /\ z \in Account /\ Successor(x, z)
        /\ z.role = x.role /\ z.active = x.active /\ z.password = x.password
    <3>flag. PICK flag \in BOOLEAN : flag = TRUE
      OBVIOUS
    <3>1. /\ x.totp \in Nat /\ x.step \in 0 .. MaxStep /\ flag \in BOOLEAN
          /\ CodeAfter(x) \in Nat /\ (x.issued + 1) \in 0 .. MaxIssued
          /\ x.totp <= (x.issued + 1) /\ CodeAfter(x) <= (x.issued + 1) /\ x.issued <= (x.issued + 1)
          /\ (x.totp = x.totp /\ x.step <= x.step) \/ x.totp = 0 \/ x.issued < x.totp
          /\ CodeAfter(x) = x.code \/ CodeAfter(x) = 0 \/ x.issued < CodeAfter(x)
      BY <1>1, <1>2, <2>1, <2>2, AccountNumbers
    <3>2. LET after == Given(x, x.totp, x.step, flag, CodeAfter(x), x.issued + 1)
          IN /\ after \in Account /\ Successor(x, after)
             /\ after.role = x.role /\ after.active = x.active /\ after.password = x.password
      BY <1>1, <3>1, Credentialed
    <3>3. QED
      BY <3>flag, <3>2
  <2>5. /\ EnableTOTP(u) => users' = [users EXCEPT ![u] = y]
        /\ AddWebAuthnCredential(u) => users' = [users EXCEPT ![u] = z]
    <3>1. y = [x EXCEPT !.totp = x.issued + 1, !.step = 0, !.code = CodeAfter(x),
                        !.issued = x.issued + 1]
      BY <1>1 DEF Account, User, Given
    <3>2. z = [x EXCEPT !.passkey = TRUE, !.code = CodeAfter(x), !.issued = x.issued + 1]
      BY <1>1 DEF Account, User, Given
    <3> HIDE DEF y, z
    <3>3. ASSUME EnableTOTP(u) PROVE users' = [users EXCEPT ![u] = y]
      BY <3>1, <3>3 DEF EnableTOTP
    <3>4. ASSUME AddWebAuthnCredential(u) PROVE users' = [users EXCEPT ![u] = z]
      BY <3>2, <3>4 DEF AddWebAuthnCredential
    <3>5. QED
      BY <3>3, <3>4
  <2>6. UNCHANGED <<sessions, challenges, logins, edits>>
    BY <1>6 DEF EnableTOTP, AddWebAuthnCredential
  <2> HIDE DEF y, z
  <2>7. Managed(u, y) \/ Managed(u, z)
    BY <1>3, <1>6, <2>3, <2>4, <2>5, <2>6
  <2>8. QED
    BY <2>7
<1>7. CASE DeleteFactor(u)
  <2> DEFINE left == [x EXCEPT !.totp = 0, !.step = 0]
             rest == [x EXCEPT !.passkey = FALSE]
             y == Given(x, 0, 0, x.passkey, IF HasFactor(left) THEN x.code ELSE 0, x.issued)
             z == Given(x, x.totp, x.step, FALSE, IF HasFactor(rest) THEN x.code ELSE 0, x.issued)
  <2>1. /\ y \in Account /\ Successor(x, y)
        /\ y.role = x.role /\ y.active = x.active /\ y.password = x.password
    <3> DEFINE code == IF HasFactor(left) THEN x.code ELSE 0
    <3>code. code \in {0, x.code}
      OBVIOUS
    <3> HIDE DEF code
    <3>1. /\ 0 \in Nat /\ 0 \in 0 .. MaxStep /\ x.passkey \in BOOLEAN
          /\ code \in Nat /\ x.issued \in 0 .. MaxIssued
          /\ 0 <= x.issued /\ code <= x.issued /\ x.issued <= x.issued
          /\ (0 = x.totp /\ x.step <= 0) \/ 0 = 0 \/ x.issued < 0
          /\ code = x.code \/ code = 0 \/ x.issued < code
      BY <1>1, <1>2, <3>code, AccountNumbers
    <3>2. QED
      BY <1>1, <3>1, Credentialed DEF code
  <2>2. /\ z \in Account /\ Successor(x, z)
        /\ z.role = x.role /\ z.active = x.active /\ z.password = x.password
    <3> DEFINE code == IF HasFactor(rest) THEN x.code ELSE 0
    <3>code. code \in {0, x.code}
      OBVIOUS
    <3> HIDE DEF code
    <3>flag. PICK flag \in BOOLEAN : flag = FALSE
      OBVIOUS
    <3>1. /\ x.totp \in Nat /\ x.step \in 0 .. MaxStep /\ flag \in BOOLEAN
          /\ code \in Nat /\ x.issued \in 0 .. MaxIssued
          /\ x.totp <= x.issued /\ code <= x.issued /\ x.issued <= x.issued
          /\ (x.totp = x.totp /\ x.step <= x.step) \/ x.totp = 0 \/ x.issued < x.totp
          /\ code = x.code \/ code = 0 \/ x.issued < code
      BY <1>1, <1>2, <3>code, AccountNumbers
    <3>2. LET after == Given(x, x.totp, x.step, flag, code, x.issued)
          IN /\ after \in Account /\ Successor(x, after)
             /\ after.role = x.role /\ after.active = x.active /\ after.password = x.password
      BY <1>1, <3>1, Credentialed
    <3>3. QED
      BY <3>flag, <3>2 DEF code
  <2>3. y = WithoutIdleCode(left)
    BY <1>1 DEF Account, User, WithoutIdleCode, Given
  <2>4. z = WithoutIdleCode(rest)
    BY <1>1 DEF Account, User, WithoutIdleCode, Given
  <2>5. users' = [users EXCEPT ![u] = y] \/ users' = [users EXCEPT ![u] = z]
    BY <1>7, <2>3, <2>4 DEF DeleteFactor
  <2>6. UNCHANGED <<sessions, challenges, logins, edits>>
    BY <1>7 DEF DeleteFactor
  <2> HIDE DEF y, z
  <2>7. Managed(u, y) \/ Managed(u, z)
    BY <1>3, <2>1, <2>2, <2>5, <2>6
  <2>8. QED
    BY <2>7
<1>8. CASE ReplaceRecoveryCodes(u)
  <2> DEFINE y == Given(x, x.totp, x.step, x.passkey, x.issued + 1, x.issued + 1)
  <2>1. x.issued + 1 \in 0 .. MaxIssued
    BY <1>2, <1>8, LimitAssumption DEF ReplaceRecoveryCodes
  <2>2. /\ y \in Account /\ Successor(x, y)
        /\ y.role = x.role /\ y.active = x.active /\ y.password = x.password
    <3>1. /\ x.totp \in Nat /\ x.step \in 0 .. MaxStep /\ x.passkey \in BOOLEAN
          /\ (x.issued + 1) \in Nat /\ (x.issued + 1) \in 0 .. MaxIssued
          /\ x.totp <= (x.issued + 1) /\ (x.issued + 1) <= (x.issued + 1) /\ x.issued <= (x.issued + 1)
          /\ (x.totp = x.totp /\ x.step <= x.step) \/ x.totp = 0 \/ x.issued < x.totp
          /\ (x.issued + 1) = x.code \/ (x.issued + 1) = 0 \/ x.issued < (x.issued + 1)
      BY <1>1, <1>2, <2>1, AccountNumbers
    <3>2. QED
      BY <1>1, <3>1, Credentialed
  <2>3. y = [x EXCEPT !.code = x.issued + 1, !.issued = @ + 1]
    BY <1>1 DEF Account, User, Given
  <2>4. users' = [users EXCEPT ![u] = [x EXCEPT !.code = x.issued + 1, !.issued = @ + 1]]
    BY <1>8 DEF ReplaceRecoveryCodes, Typed
  <2> HIDE DEF y
  <2>5. Managed(u, y)
    BY <1>3, <1>8, <2>2, <2>3, <2>4 DEF ReplaceRecoveryCodes
  <2>6. QED
    BY <2>5
<1>9. CASE ResetUserSecurity(u)
  <2> DEFINE y == [Bumped(x) EXCEPT !.mustChange = TRUE, !.totp = 0, !.step = 0,
                                    !.passkey = FALSE, !.code = 0]
  <2>1. y \in User
    BY <1>1, <1>2, BumpedAccount DEF Account, User
  <2>2. /\ y.version = x.version + 1 /\ y.role = x.role /\ y.active = x.active
        /\ y.password = x.password /\ y.totp = 0 /\ y.code = 0 /\ y.issued = x.issued
        /\ y.mustChange = TRUE
    BY <1>1, BumpedAccount DEF Account, User
  <2>3. users' = [users EXCEPT ![u] = y]
    BY <1>9 DEF ResetUserSecurity
  <2> HIDE DEF y
  <2>4. y \in Account /\ Successor(x, y)
    BY <1>1, <2>1, <2>2, AccountNumbers DEF Account, Successor
  <2>5. Managed(u, y)
    BY <1>4, <1>9, <2>2, <2>3, <2>4 DEF ResetUserSecurity
  <2>6. QED
    BY <2>5
<1>10. QED
  BY <1>5, <1>6, <1>7, <1>8, <1>9 DEF Manage, ChangeOwnPassword, ResetPassword

-----------------------------------------------------------------------------
(* Logins and edits of access decide on what they have read *)

\* What a login has read of an account is what the account demands, as long as the
\* version is the same.
SeenCurrent(l) ==
  logins[l].at = "verified" =>
    LET user == users[logins[l].user]
        seen == logins[l].seen
    IN /\ seen.version <= user.version
       /\ seen.version = user.version => seen.mustChange = user.mustChange

\* An edit that takes away the rights of an administrator has read a row that, as
\* long as its version is the same, says that an administrator is left.
Leaves(e, row) ==
  /\ row.user \in Users /\ row.version \in Nat
  /\ row.version <= users[row.user].version
  /\ row.version = users[row.user].version =>
       IF row.user = edits[e].user THEN ~IsAdmin(users[row.user]) ELSE IsAdmin(users[row.user])

Informed(e) ==
  edits[e] # NoEdit /\ ~IsAdmin(edits[e]) => \E row \in edits[e].rows : Leaves(e, row)

\* A login changes an account without touching access and password.
Logged(u, y) ==
  /\ Changes(u, y)
  /\ y.role = users[u].role /\ y.active = users[u].active /\ y.password = users[u].password

\* Replacing an outdated hash.
LEMMA RehashChanges ==
  ASSUME Typed, NEW l \in Logins, logins[l].at = "verified", SeenCurrent(l),
         Rehash(logins[l].user, logins[l].seen)
  PROVE  logins[l].user \in Users /\ \E y : Logged(logins[l].user, y)
<1> DEFINE u == logins[l].user
           seen == logins[l].seen
           x == users[u]
<1>1. u \in Users /\ x \in Account /\ seen \in Snapshot
  BY DEF Typed, LoginFormed
<1>2. CASE UNCHANGED users
  <2>1. users' = [users EXCEPT ![u] = x]
    BY <1>2 DEF Typed
  <2>2. Logged(u, x)
    BY <1>1, <2>1, SameSuccessor DEF Logged, Changes
  <2>3. QED
    BY <1>1, <2>2
<1>3. CASE ~UNCHANGED users
  <2> DEFINE y == [x EXCEPT !.outdated = FALSE, !.mustChange = seen.mustChange,
                            !.version = x.version + 1]
  <2>1. AsRead(u, seen) /\ users' = [users EXCEPT ![u] = y]
    BY <1>1, <1>3 DEF Rehash, Typed
  <2>2. seen.mustChange = x.mustChange
    BY <2>1 DEF SeenCurrent, AsRead
  <2>3. y \in User
    <3>1. x \in User /\ seen.mustChange \in BOOLEAN /\ x.version + 1 \in Nat \ {0}
      BY <1>1, AccountNumbers DEF Account, Snapshot
    <3>2. QED
      BY <3>1 DEF User
  <2>4. /\ y.version = x.version + 1 /\ y.password = x.password /\ y.role = x.role
        /\ y.active = x.active /\ y.totp = x.totp /\ y.step = x.step /\ y.code = x.code
        /\ y.issued = x.issued /\ y.mustChange = seen.mustChange
    BY <1>1 DEF Account, User
  <2> HIDE DEF y
  <2>5. y \in Account
    BY <1>1, <2>3, <2>4 DEF Account
  <2>6. Successor(x, y)
    BY <1>1, <2>2, <2>4, AccountNumbers DEF Successor
  <2>7. Logged(u, y)
    BY <2>1, <2>4, <2>5, <2>6 DEF Logged, Changes
  <2>8. QED
    BY <1>1, <2>7
<1>4. QED
  BY <1>2, <1>3

\* Consuming a proof.
LEMMA ConsumeChanges ==
  ASSUME Typed, NEW u \in Users, NEW proof \in GoodProof, Accepted(users[u], proof),
         users' = [users EXCEPT ![u] = Consumed(users[u], proof)]
  PROVE  Logged(u, Consumed(users[u], proof))
<1> DEFINE x == users[u]
           y == Consumed(x, proof)
<1>1. x \in Account
  BY DEF Typed
<1>2. CASE proof.kind = "totp"
  <2>1. /\ proof.value \in 0 .. MaxStep /\ x.step < proof.value
        /\ y = [x EXCEPT !.step = proof.value]
    BY <1>2 DEF GoodProof, Accepted, StepIsNew, Consumed
  <2>2. y \in User
    BY <1>1, <2>1 DEF Account, User
  <2>3. /\ y.version = x.version /\ y.password = x.password /\ y.role = x.role
        /\ y.active = x.active /\ y.totp = x.totp /\ y.step = proof.value /\ y.code = x.code
        /\ y.issued = x.issued /\ y.mustChange = x.mustChange
    BY <1>1, <2>1 DEF Account, User
  <2> HIDE DEF y
  <2>4. y \in Account
    BY <1>1, <2>2, <2>3 DEF Account
  <2>5. Successor(x, y)
    BY <1>1, <2>1, <2>3, AccountNumbers, LimitAssumption DEF Successor
  <2>6. QED
    BY <2>3, <2>4, <2>5 DEF Logged, Changes, y
<1>3. CASE proof.kind = "recovery"
  <2>1. y = [x EXCEPT !.code = 0]
    BY <1>3 DEF Consumed
  <2>2. y \in User
    BY <1>1, <2>1 DEF Account, User
  <2>3. /\ y.version = x.version /\ y.password = x.password /\ y.role = x.role
        /\ y.active = x.active /\ y.totp = x.totp /\ y.step = x.step /\ y.code = 0
        /\ y.issued = x.issued /\ y.mustChange = x.mustChange
    BY <1>1, <2>1 DEF Account, User
  <2> HIDE DEF y
  <2>4. y \in Account
    BY <1>1, <2>2, <2>3, AccountNumbers DEF Account
  <2>5. Successor(x, y)
    BY <1>1, <2>3, AccountNumbers DEF Successor
  <2>6. QED
    BY <2>3, <2>4, <2>5 DEF Logged, Changes, y
<1>4. CASE proof.kind = "passkey"
  BY <1>1, <1>4, SameSuccessor DEF Consumed, Logged, Changes
<1>5. QED
  BY <1>2, <1>3, <1>4 DEF GoodProof, Proof

\* An edit of access is committed.
LEMMA AccessChanges ==
  ASSUME Typed, NEW e \in Edits, CommitUpdateAccess(e)
  PROVE  /\ edits[e].user \in Users
         /\ \E y : /\ Changes(edits[e].user, y)
                   /\ y.role = edits[e].role /\ y.active = edits[e].active
                   /\ y.password = users[edits[e].user].password
<1> DEFINE edit == edits[e]
           u == edit.user
           x == users[u]
           y == [Bumped(x) EXCEPT !.role = edit.role, !.active = edit.active]
<1>1. edit \in EditType /\ u \in Users /\ x \in Account
  BY DEF Typed, EditFormed, CommitUpdateAccess
<1>2. y \in User
  <2>1. Bumped(x) \in User /\ edit.role \in {"admin", "driver"} /\ edit.active \in BOOLEAN
    BY <1>1, BumpedAccount DEF Account, EditType
  <2>2. QED
    BY <2>1 DEF User
<1>3. /\ y.version = x.version + 1 /\ y.password = x.password /\ y.role = edit.role
      /\ y.active = edit.active /\ y.totp = x.totp /\ y.step = x.step /\ y.code = x.code
      /\ y.issued = x.issued /\ y.mustChange = x.mustChange
  <2>1. Bumped(x) \in User /\ Bumped(x).mustChange = x.mustChange
    BY <1>1 DEF Account, Bumped, User
  <2>2. QED
    BY <1>1, <2>1, BumpedAccount DEF User
<1>4. users' = [users EXCEPT ![u] = y]
  BY DEF CommitUpdateAccess
<1> HIDE DEF y
<1>5. y \in Account
  BY <1>1, <1>2, <1>3, AccountNumbers DEF Account
<1>6. Successor(x, y)
  BY <1>1, <1>3, AccountNumbers DEF Successor
<1>7. QED
  BY <1>1, <1>3, <1>4, <1>5, <1>6 DEF Changes

\* Whatever happens, every account goes on to a successor.
LEMMA UsersStep ==
  ASSUME Typed, \A l \in Logins : SeenCurrent(l), Next
  PROVE  users' \in [Users -> Account] /\ \A u \in Users : Successor(users[u], users'[u])
<1> DEFINE Goal == users' \in [Users -> Account] /\ \A u \in Users : Successor(users[u], users'[u])
<1>1. users \in [Users -> Account]
  BY DEF Typed
<1>2. ASSUME UNCHANGED users PROVE Goal
  BY <1>1, <1>2, SameSuccessor
<1>3. ASSUME NEW u \in Users, NEW y, Changes(u, y) PROVE Goal
  BY <1>1, <1>3, ChangesMeansSuccessors
<1> HIDE DEF Goal
<1>4. ASSUME NEW l \in Logins, Login(l) PROVE Goal
  <2>1. CASE RotateLogin(l) \/ StartLoginChallenge(l)
    BY <1>3, <2>1, RehashChanges DEF RotateLogin, StartLoginChallenge, Logged
  <2>2. CASE CompleteLogin(l)
    <3>1. logins[l].user \in Users /\ logins[l].proof \in GoodProof
      BY <2>2 DEF CompleteLogin, Typed, LoginFormed
    <3>2. users' = [users EXCEPT ![logins[l].user] =
                      Consumed(users[logins[l].user], logins[l].proof)]
      BY <2>2 DEF CompleteLogin
    <3>3. Accepted(users[logins[l].user], logins[l].proof)
      BY <2>2 DEF CompleteLogin
    <3>4. QED
      BY <1>3, <3>1, <3>2, <3>3, ConsumeChanges DEF Logged
  <2>3. QED
    BY <1>2, <1>4, <2>1, <2>2 DEF Login, VerifyPassword, GiveUp, VerifyProof, FailLogin
<1>5. ASSUME NEW u \in Members, Manage(u) PROVE Goal
  <2>1. u \in Users
    BY IdentityAssumption
  <2>2. QED
    BY <1>3, <1>5, <2>1, ManageChanges DEF Managed
<1>6. ASSUME NEW e \in Edits, Administer(e) PROVE Goal
  BY <1>2, <1>3, <1>6, AccessChanges DEF Administer, BeginUpdateAccess, RollBackUpdateAccess
<1>7. QED
  BY <1>2, <1>4, <1>5, <1>6 DEF Next, RevokeSession, RefuseProof, Goal

-----------------------------------------------------------------------------
(* Types are preserved *)

\* Opening a session takes an unused token.
LEMMA OpenSessionFormed ==
  ASSUME Typed, NEW u \in Users, NEW password \in Nat, NEW challenge \in Challenges \cup {None},
         NEW proof \in Proof \cup {<<>>}, proof # <<>> => challenge # None,
         OpenSession(u, password, challenge, proof)
  PROVE  /\ sessions' = [s \in Sessions |-> sessions'[s]]
         /\ \A s \in Sessions : SessionFormed(sessions'[s])
<1> DEFINE n == Unused(NewSessions)
           session == [user |-> u, live |-> TRUE, password |-> password,
                       challenge |-> challenge, proof |-> proof, under |-> users[u].totp]
<1>1. sessions' = [sessions EXCEPT ![n] = session]
  BY DEF OpenSession
<1>2. SessionFormed(session)
  BY AccountNumbers DEF SessionFormed, SessionType, Typed
<1> HIDE DEF session, n
<1>3. QED
  BY <1>1, <1>2 DEF Typed, Functions

\* Counting a failure stays within the limit.
LEMMA RecordFailureFormed ==
  ASSUME Typed, NEW k \in Challenges, RecordFailure(k) \/ UNCHANGED challenges
  PROVE  /\ challenges' = [c \in Challenges |-> challenges'[c]]
         /\ \A c \in Challenges : ChallengeFormed(challenges'[c])
<1>1. CASE UNCHANGED challenges
  BY <1>1 DEF Typed, Functions
<1>2. CASE ~UNCHANGED challenges
  <2> DEFINE counted == [challenges[k] EXCEPT !.failures = challenges[k].failures + 1]
  <2>1. challenges' = [challenges EXCEPT ![k] = counted] /\ challenges[k].failures < MaxFailures
    BY <1>2 DEF RecordFailure, Typed, Functions
  <2>2. ChallengeFormed(challenges[k])
    BY DEF Typed
  <2>3. counted \in ChallengeType
    BY <2>1, <2>2, LimitAssumption DEF ChallengeFormed, ChallengeType
  <2>4. counted.open = challenges[k].open /\ counted.user = challenges[k].user
    BY <2>2 DEF ChallengeFormed, ChallengeType
  <2> HIDE DEF counted
  <2>5. ChallengeFormed(counted)
    BY <2>2, <2>3, <2>4 DEF ChallengeFormed
  <2>6. QED
    BY <2>1, <2>5 DEF Typed, Functions
<1>3. QED
  BY <1>1, <1>2

\* The proofs of a factor are those the service accepts.
LEMMA ProofsAreGood ==
  ASSUME NEW user \in Account
  PROVE  Proofs(user) \subseteq GoodProof
<1>1. user.totp \in Nat /\ user.code \in Nat /\ user.step \in Nat /\ MaxStep \in Nat
  BY AccountNumbers, LimitAssumption
<1>2. QED
  BY <1>1 DEF Proofs, GoodProof, Proof

\* One login request goes on, well formed.
LEMMA LoginFormedStep ==
  ASSUME Typed, NEW l \in Logins, NEW after, LoginFormed(after),
         logins' = [logins EXCEPT ![l] = after]
  PROVE  /\ logins' = [m \in Logins |-> logins'[m]]
         /\ \A m \in Logins : LoginFormed(logins'[m])
BY DEF Typed, Functions

\* An idle login request is well formed.
LEMMA IdleFormed == LoginFormed(Idle)
BY DEF LoginFormed, LoginType, Idle

\* A login keeps all that is stored well formed.
LEMMA LoginTyped ==
  ASSUME Typed, NEW l \in Logins, Login(l), users' \in [Users -> Account]
  PROVE  Typed'
<1> DEFINE login == logins[l]
           SessionsFine == /\ sessions' = [s \in Sessions |-> sessions'[s]]
                           /\ \A s \in Sessions : SessionFormed(sessions'[s])
           ChallengesFine == /\ challenges' = [k \in Challenges |-> challenges'[k]]
                             /\ \A k \in Challenges : ChallengeFormed(challenges'[k])
           LoginsFine == /\ logins' = [m \in Logins |-> logins'[m]]
                         /\ \A m \in Logins : LoginFormed(logins'[m])
<1>1. LoginFormed(login)
  BY DEF Typed
<1>2. UNCHANGED edits
  BY DEF Login, VerifyPassword, RotateLogin, StartLoginChallenge, GiveUp, VerifyProof,
         CompleteLogin, FailLogin
<1>3. UNCHANGED sessions => SessionsFine
  BY DEF Typed, Functions
<1>4. UNCHANGED challenges => ChallengesFine
  BY DEF Typed, Functions
<1>5. logins' = [logins EXCEPT ![l] = Idle] => LoginsFine
  BY IdleFormed, LoginFormedStep
<1>6. ASSUME SessionsFine, ChallengesFine, LoginsFine PROVE Typed'
  BY <1>2, <1>6 DEF Typed, Functions
<1> HIDE DEF SessionsFine, ChallengesFine, LoginsFine
<1>7. ASSUME NEW u \in Users, VerifyPassword(l, u) PROVE Typed'
  <2> DEFINE after == [login EXCEPT !.at = "verified", !.user = u, !.seen = Seen(users[u])]
  <2>1. users[u] \in Account
    BY DEF Typed
  <2>2. Seen(users[u]) \in Snapshot
    BY <2>1 DEF Seen, Snapshot, Account, User, HasFactor
  <2>3. LoginFormed(after)
    BY <1>1, <2>2 DEF LoginFormed, LoginType
  <2>4. logins' = [logins EXCEPT ![l] = after]
    BY <1>7 DEF VerifyPassword, Typed, Functions
  <2> HIDE DEF after
  <2>5. LoginsFine
    BY <2>3, <2>4, LoginFormedStep DEF LoginsFine
  <2>6. QED
    BY <1>3, <1>4, <1>6, <1>7, <2>5 DEF VerifyPassword
<1>8. CASE RotateLogin(l)
  <2>1. login.user \in Users /\ login.seen.password \in Nat
    BY <1>1, <1>8 DEF RotateLogin, LoginFormed, Snapshot
  <2>2. SessionsFine
    BY <1>8, <2>1, OpenSessionFormed DEF RotateLogin, SessionsFine
  <2>3. QED
    BY <1>4, <1>5, <1>6, <1>8, <2>2 DEF RotateLogin
<1>9. CASE StartLoginChallenge(l)
  <2> DEFINE n == Unused(NewChallenges)
             challenge == [user |-> login.user, open |-> TRUE,
                           password |-> login.seen.password, failures |-> 0]
  <2>1. login.user \in Users /\ login.seen.password \in Nat
    BY <1>1, <1>9 DEF StartLoginChallenge, LoginFormed, Snapshot
  <2>2. ChallengeFormed(challenge)
    BY <2>1, LimitAssumption DEF ChallengeFormed, ChallengeType
  <2>3. challenges' = [challenges EXCEPT ![n] = challenge]
    BY <1>9 DEF StartLoginChallenge
  <2> HIDE DEF n, challenge
  <2>4. ChallengesFine
    BY <2>2, <2>3 DEF Typed, Functions, ChallengesFine
  <2>5. QED
    BY <1>3, <1>5, <1>6, <1>9, <2>4 DEF StartLoginChallenge
<1>10. CASE GiveUp(l)
  BY <1>3, <1>4, <1>5, <1>6, <1>10 DEF GiveUp
<1>11. ASSUME NEW k \in Challenges, VerifyProof(l, k) PROVE Typed'
  <2>1. challenges[k].user \in Users
    BY <1>11 DEF VerifyProof, Usable, Typed, ChallengeFormed
  <2>2. PICK proof \in Proofs(users[challenges[k].user]) :
          logins' = [logins EXCEPT ![l].at = "proved", ![l].user = challenges[k].user,
                                   ![l].challenge = k, ![l].proof = proof]
    BY <1>11 DEF VerifyProof
  <2>3. proof \in GoodProof
    BY <2>1, <2>2, ProofsAreGood DEF Typed
  <2> DEFINE after == [login EXCEPT !.at = "proved", !.user = challenges[k].user,
                                    !.challenge = k, !.proof = proof]
  <2>4. LoginFormed(after)
    BY <1>1, <2>1, <2>3 DEF LoginFormed, LoginType, GoodProof
  <2>5. logins' = [logins EXCEPT ![l] = after]
    BY <2>2 DEF Typed, Functions
  <2> HIDE DEF after
  <2>6. LoginsFine
    BY <2>4, <2>5, LoginFormedStep DEF LoginsFine
  <2>7. QED
    BY <1>3, <1>4, <1>6, <1>11, <2>6 DEF VerifyProof
<1>12. CASE CompleteLogin(l)
  <2> DEFINE u == login.user
             k == login.challenge
             proof == login.proof
  <2>1. u \in Users /\ k \in Challenges /\ login.proof \in GoodProof
    BY <1>1, <1>12 DEF CompleteLogin, LoginFormed
  <2>2. proof \in Proof
    BY <2>1 DEF GoodProof
  <2>3. challenges[k].password \in Nat
    BY <2>1 DEF Typed, ChallengeFormed, ChallengeType
  <2>4. OpenSession(u, challenges[k].password, k, proof)
    BY <1>12 DEF CompleteLogin
  <2>5. SessionsFine
    BY <2>1, <2>2, <2>3, <2>4, OpenSessionFormed, IdentityAssumption DEF SessionsFine
  <2>6. ChallengeFormed(Closed(challenges[k]))
    BY <2>1, ClosedFormed
  <2>7. challenges' = [challenges EXCEPT ![k] = Closed(challenges[k])]
    BY <1>12 DEF CompleteLogin
  <2>8. ChallengesFine
    BY <2>6, <2>7 DEF Typed, Functions, ChallengesFine
  <2>9. QED
    BY <1>5, <1>6, <1>12, <2>5, <2>8 DEF CompleteLogin
<1>13. CASE FailLogin(l)
  <2>1. login.challenge \in Challenges
    BY <1>1, <1>13 DEF FailLogin, LoginFormed
  <2>2. ChallengesFine
    BY <1>13, <2>1, RecordFailureFormed DEF FailLogin, ChallengesFine
  <2>3. QED
    BY <1>3, <1>5, <1>6, <1>13, <2>2 DEF FailLogin
<1>14. QED
  BY <1>7, <1>8, <1>9, <1>10, <1>11, <1>12, <1>13, IdentityAssumption DEF Login

\* So does everything else.
LEMMA TypedStep ==
  ASSUME Typed, \A l \in Logins : SeenCurrent(l), Next
  PROVE  Typed'
<1>1. users' \in [Users -> Account]
  BY UsersStep
<1>2. ASSUME NEW l \in Logins, Login(l) PROVE Typed'
  BY <1>1, <1>2, LoginTyped
<1>3. ASSUME NEW u \in Members, Manage(u) PROVE Typed'
  <2>1. PICK y : Managed(u, y)
    BY <1>3, ManageChanges, IdentityAssumption
  <2>2. CASE UNCHANGED <<sessions, challenges>>
    BY <1>1, <2>1, <2>2 DEF Managed, Typed, Functions
  <2>3. CASE sessions' = SignedOut(u) /\ challenges' = WithoutChallenges(u)
    BY <1>1, <2>1, <2>3, SignedOutFormed DEF Managed, Typed, Functions
  <2>4. QED
    BY <2>1, <2>2, <2>3 DEF Managed
<1>4. ASSUME NEW e \in Edits, Administer(e) PROVE Typed'
  <2>1. EditFormed(NoEdit)
    BY DEF EditFormed, EditType, NoEdit
  <2>2. ASSUME NEW access \in Accesses[e], BeginUpdateAccess(e, access) PROVE Typed'
    <3> DEFINE edit == [user |-> access.user, role |-> access.role, active |-> access.active,
                        rows |-> {Row(u) : u \in IF RemovesAdmin(access) THEN Admins
                                                 ELSE {access.user}}]
    <3>1. access \in [user : Users, role : {"admin", "driver"}, active : BOOLEAN]
      BY <2>2, LimitAssumption
    <3>2. \A u \in Users : Row(u) \in [user : Users, version : Nat]
      BY AccountNumbers DEF Row, Typed
    <3>3. edit.rows \subseteq [user : Users, version : Nat]
      BY <3>1, <3>2 DEF Admins
    <3>4. EditFormed(edit)
      BY <3>1, <3>3 DEF EditFormed, EditType
    <3>5. edits' = [edits EXCEPT ![e] = edit]
      BY <2>2 DEF BeginUpdateAccess
    <3> HIDE DEF edit
    <3>6. QED
      BY <1>1, <2>2, <3>4, <3>5 DEF BeginUpdateAccess, Typed, Functions
  <2>3. CASE CommitUpdateAccess(e)
    <3>1. /\ sessions' = [s \in Sessions |-> sessions'[s]]
          /\ \A s \in Sessions : SessionFormed(sessions'[s])
      BY <2>3, SignedOutFormed DEF CommitUpdateAccess, Typed, Functions
    <3>2. edits' = [edits EXCEPT ![e] = NoEdit] /\ UNCHANGED <<challenges, logins>>
      BY <2>3 DEF CommitUpdateAccess
    <3>3. QED
      BY <1>1, <2>1, <3>1, <3>2 DEF Typed, Functions
  <2>4. CASE RollBackUpdateAccess(e)
    BY <1>1, <2>1, <2>4 DEF RollBackUpdateAccess, Typed, Functions
  <2>5. QED
    BY <1>4, <2>2, <2>3, <2>4 DEF Administer
<1>5. ASSUME NEW s \in Sessions, RevokeSession(s) PROVE Typed'
  <2>1. SessionFormed(Ended(sessions[s]))
    BY DEF Typed, SessionFormed, SessionType, Ended
  <2>2. sessions' = [sessions EXCEPT ![s] = Ended(sessions[s])]
    BY <1>5 DEF RevokeSession
  <2>3. QED
    BY <1>1, <1>5, <2>1, <2>2 DEF RevokeSession, Typed, Functions
<1>6. ASSUME NEW k \in Challenges, RefuseProof(k) PROVE Typed'
  BY <1>1, <1>6, RecordFailureFormed DEF RefuseProof, Typed, Functions
<1>7. QED
  BY <1>2, <1>3, <1>4, <1>5, <1>6 DEF Next

-----------------------------------------------------------------------------
(* Snapshots stay what they are *)

\* What a login has read is overtaken only together with the version.
LEMMA SeenStep ==
  ASSUME Typed, \A l \in Logins : SeenCurrent(l), Next, NEW l \in Logins
  PROVE  SeenCurrent(l)'
<1>1. \A u \in Users : Successor(users[u], users'[u]) /\ users[u] \in Account /\ users'[u] \in Account
  BY UsersStep DEF Typed
<1>2. CASE UNCHANGED logins \/ logins'[l] = logins[l]
  <2> SUFFICES ASSUME logins[l].at = "verified" PROVE SeenCurrent(l)'
    BY <1>2 DEF SeenCurrent
  <2>1. logins[l].user \in Users /\ logins[l].seen \in Snapshot
    BY DEF Typed, LoginFormed
  <2>2. SeenCurrent(l) /\ logins'[l] = logins[l]
    BY <1>2
  <2>3. /\ logins[l].seen.version <= users[logins[l].user].version
        /\ logins[l].seen.version = users[logins[l].user].version =>
             logins[l].seen.mustChange = users[logins[l].user].mustChange
    BY <2>2 DEF SeenCurrent
  <2>4. /\ logins[l].seen.version \in Nat
        /\ users[logins[l].user].version \in Nat /\ users'[logins[l].user].version \in Nat
    BY <1>1, <2>1, AccountNumbers DEF Snapshot
  <2>5. /\ logins[l].seen.version <= users'[logins[l].user].version
        /\ logins[l].seen.version = users'[logins[l].user].version =>
             logins[l].seen.mustChange = users'[logins[l].user].mustChange
    BY <1>1, <2>1, <2>3, <2>4 DEF Successor
  <2>6. QED
    BY <2>2, <2>5 DEF SeenCurrent
<1>3. ASSUME logins'[l].at # "verified" PROVE SeenCurrent(l)'
  BY <1>3 DEF SeenCurrent
<1>4. ASSUME NEW m \in Logins, Login(m) PROVE SeenCurrent(l)'
  <2>1. ASSUME NEW u \in Users, VerifyPassword(m, u) PROVE SeenCurrent(l)'
    <3>1. CASE l = m
      <4>1. logins'[l].user = u /\ logins'[l].seen = Seen(users[u]) /\ users' = users
        <5>1. logins' = [logins EXCEPT ![l] =
                [logins[l] EXCEPT !.at = "verified", !.user = u, !.seen = Seen(users[u])]]
          BY <2>1, <3>1 DEF VerifyPassword, Typed, Functions
        <5>2. logins[l] \in LoginType /\ users' = users
          BY <2>1 DEF VerifyPassword, Typed, LoginFormed
        <5>3. QED
          BY <5>1, <5>2 DEF LoginType, Typed, Functions
      <4>2. users[u].version \in Nat
        BY <1>1, AccountNumbers
      <4>3. Seen(users[u]).version = users[u].version /\ Seen(users[u]).mustChange = users[u].mustChange
        BY DEF Seen
      <4>4. QED
        BY <4>1, <4>2, <4>3 DEF SeenCurrent
    <3>2. CASE l # m
      BY <1>2, <2>1, <3>2 DEF VerifyPassword, Typed, Functions
    <3>3. QED
      BY <3>1, <3>2
  <2>2. ASSUME logins' = [logins EXCEPT ![m] = Idle] PROVE SeenCurrent(l)'
    BY <1>2, <1>3, <2>2 DEF Idle, Typed, Functions
  <2>3. ASSUME NEW k \in Challenges, VerifyProof(m, k) PROVE SeenCurrent(l)'
    <3>1. ASSUME l = m PROVE logins'[l].at = "proved"
      <4>1. PICK proof : logins' = [logins EXCEPT ![l] =
              [logins[l] EXCEPT !.at = "proved", !.user = challenges[k].user, !.challenge = k,
                                !.proof = proof]]
        BY <2>3, <3>1 DEF VerifyProof, Typed, Functions
      <4>2. logins[l] \in LoginType
        BY DEF Typed, LoginFormed
      <4>3. QED
        BY <4>1, <4>2 DEF LoginType, Typed, Functions
    <3>2. l # m => logins'[l] = logins[l]
      BY <2>3 DEF VerifyProof, Typed, Functions
    <3>3. QED
      BY <1>2, <1>3, <3>1, <3>2
  <2>4. QED
    BY <1>4, <2>1, <2>2, <2>3, IdentityAssumption
    DEF Login, RotateLogin, StartLoginChallenge, GiveUp, CompleteLogin, FailLogin
<1>5. ASSUME NEW u \in Members, Manage(u) PROVE SeenCurrent(l)'
  BY <1>2, <1>5, ManageChanges, IdentityAssumption DEF Managed
<1>6. ASSUME NEW e \in Edits, Administer(e) PROVE SeenCurrent(l)'
  BY <1>2, <1>6 DEF Administer, BeginUpdateAccess, CommitUpdateAccess, RollBackUpdateAccess
<1>7. QED
  BY <1>2, <1>4, <1>5, <1>6 DEF Next, RevokeSession, RefuseProof

\* Who is left is not touched without a new version either.
LEMMA LeavesStays ==
  ASSUME Typed, NEW e \in Edits, edits'[e] = edits[e], NEW row, Leaves(e, row),
         users' \in [Users -> Account], \A u \in Users : Successor(users[u], users'[u])
  PROVE  Leaves(e, row)'
<1>1. /\ row.user \in Users /\ row.version \in Nat
      /\ users[row.user].version \in Nat /\ users'[row.user].version \in Nat
  BY AccountNumbers DEF Leaves, Typed
<1>2. Successor(users[row.user], users'[row.user])
  BY <1>1
<1>3. row.version <= users'[row.user].version
  BY <1>1, <1>2 DEF Leaves, Successor
<1>4. ASSUME row.version = users'[row.user].version
      PROVE  /\ row.version = users[row.user].version
             /\ IsAdmin(users[row.user]) <=> IsAdmin(users'[row.user])
  <2>1. row.version <= users[row.user].version
    BY DEF Leaves
  <2>2. users[row.user].version <= users'[row.user].version
    BY <1>2 DEF Successor
  <2>3. row.version = users[row.user].version
    BY <1>1, <1>4, <2>1, <2>2
  <2>4. users[row.user].version = users'[row.user].version
    BY <1>4, <2>3
  <2>5. QED
    BY <1>2, <2>3, <2>4 DEF Successor, IsAdmin
<1>5. QED
  BY <1>1, <1>3, <1>4 DEF Leaves

\* An edit that begins has counted the administrators.
LEMMA BeginInformed ==
  ASSUME Typed, NEW e \in Edits, NEW access \in Accesses[e], BeginUpdateAccess(e, access)
  PROVE  Informed(e)'
<1> DEFINE edit == [user |-> access.user, role |-> access.role, active |-> access.active,
                    rows |-> {Row(u) : u \in IF RemovesAdmin(access) THEN Admins
                                             ELSE {access.user}}]
<1>1. access \in [user : Users, role : {"admin", "driver"}, active : BOOLEAN]
  BY LimitAssumption
<1>2. edits'[e] = edit /\ users' = users
  BY DEF BeginUpdateAccess, Typed, Functions
<1>3. \A u \in Users : users[u].version \in Nat
  BY AccountNumbers DEF Typed
<1>4. edit.user = access.user /\ (IsAdmin(edit) <=> IsAdmin(access))
  BY DEF IsAdmin
<1> SUFFICES ASSUME ~IsAdmin(access) PROVE \E row \in edit.rows : Leaves(e, row)'
  BY <1>2, <1>4 DEF Informed
<1>5. CASE access.user \in Admins
  <2>1. Cardinality(Admins) > 1 /\ RemovesAdmin(access)
    BY <1>5 DEF BeginUpdateAccess, RemovesAdmin
  <2>2. PICK u \in Admins : u # access.user
    <3>1. Cardinality({access.user}) = 1
      BY FS_Singleton
    <3>2. Admins # {access.user}
      BY <2>1, <3>1
    <3>3. QED
      BY <1>5, <3>2
  <2>3. Row(u) \in edit.rows /\ u \in Users /\ IsAdmin(users[u])
    BY <2>1, <2>2 DEF Admins
  <2>4. PICK row \in edit.rows : row.user = u /\ row.version = users[u].version
    BY <2>3 DEF Row
  <2> HIDE DEF edit
  <2>5. Leaves(e, row)'
    BY <1>2, <1>3, <1>4, <2>2, <2>3, <2>4 DEF Leaves
  <2>6. QED
    BY <2>4, <2>5
<1>6. CASE access.user \notin Admins
  <2>1. Row(access.user) \in edit.rows
    BY <1>6 DEF RemovesAdmin
  <2>2. PICK row \in edit.rows :
          row.user = access.user /\ row.version = users[access.user].version
    BY <2>1 DEF Row
  <2>3. access.user \in Users /\ ~IsAdmin(users[access.user])
    BY <1>1, <1>6 DEF Admins
  <2> HIDE DEF edit
  <2>4. Leaves(e, row)'
    BY <1>2, <1>3, <1>4, <2>2, <2>3 DEF Leaves
  <2>5. QED
    BY <2>2, <2>4
<1>7. QED
  BY <1>5, <1>6

\* What an edit has read stays right, or a version tells.
LEMMA InformedStep ==
  ASSUME Typed, \A l \in Logins : SeenCurrent(l), \A f \in Edits : Informed(f), Next,
         NEW e \in Edits
  PROVE  Informed(e)'
<1>1. users' \in [Users -> Account] /\ \A u \in Users : Successor(users[u], users'[u])
  BY UsersStep
<1>2. CASE edits'[e] = edits[e]
  <2> SUFFICES ASSUME edits[e] # NoEdit, ~IsAdmin(edits[e]) PROVE Informed(e)'
    BY <1>2 DEF Informed
  <2>1. PICK row \in edits[e].rows : Leaves(e, row)
    BY DEF Informed
  <2>2. Leaves(e, row)'
    BY <1>1, <1>2, <2>1, LeavesStays
  <2>3. QED
    BY <1>2, <2>1, <2>2 DEF Informed
<1>3. ASSUME NEW f \in Edits, Administer(f), f = e PROVE Informed(e)'
  <2>1. ASSUME edits'[e] = NoEdit PROVE Informed(e)'
    BY <2>1 DEF Informed
  <2>2. QED
    BY <1>3, <2>1, BeginInformed
    DEF Administer, CommitUpdateAccess, RollBackUpdateAccess, Typed, Functions
<1>4. ASSUME NEW f \in Edits, Administer(f), f # e PROVE Informed(e)'
  <2>1. edits'[e] = edits[e]
    BY <1>4 DEF Administer, BeginUpdateAccess, CommitUpdateAccess, RollBackUpdateAccess,
                Typed, Functions
  <2>2. QED
    BY <1>2, <2>1
<1>5. ASSUME NEW l \in Logins, Login(l) PROVE edits'[e] = edits[e]
  BY <1>5 DEF Login, VerifyPassword, RotateLogin, StartLoginChallenge, GiveUp, VerifyProof,
              CompleteLogin, FailLogin
<1>6. ASSUME NEW u \in Members, Manage(u) PROVE edits'[e] = edits[e]
  BY <1>6, ManageChanges, IdentityAssumption DEF Managed
<1>7. QED
  BY <1>2, <1>3, <1>4, <1>5, <1>6 DEF Next, RevokeSession, RefuseProof

\* The administrator that an edit leaves is one when it is committed.
LEMMA AdminStep ==
  ASSUME Typed, \A l \in Logins : SeenCurrent(l), \A e \in Edits : Informed(e), AdminRemains, Next
  PROVE  AdminRemains'
<1>1. PICK admin \in Users : IsAdmin(users[admin])
  BY DEF AdminRemains, Admins
<1>2. ASSUME NEW u \in Users, IsAdmin(users'[u]) PROVE AdminRemains'
  BY <1>2 DEF AdminRemains, Admins
<1>3. ASSUME UNCHANGED users PROVE AdminRemains'
  BY <1>1, <1>2, <1>3
<1>4. ASSUME NEW u \in Users, NEW y, Changes(u, y), y.role = users[u].role,
             y.active = users[u].active
      PROVE  AdminRemains'
  <2>1. IsAdmin(users'[admin])
    BY <1>1, <1>4 DEF Changes, IsAdmin, Typed
  <2>2. QED
    BY <1>2, <2>1
<1>5. ASSUME NEW l \in Logins, Login(l) PROVE AdminRemains'
  <2>1. CASE RotateLogin(l) \/ StartLoginChallenge(l)
    BY <1>4, <2>1, RehashChanges DEF RotateLogin, StartLoginChallenge, Logged
  <2>2. CASE CompleteLogin(l)
    <3>1. /\ logins[l].user \in Users /\ logins[l].proof \in GoodProof
          /\ Accepted(users[logins[l].user], logins[l].proof)
      BY <2>2 DEF CompleteLogin, Typed, LoginFormed
    <3>2. users' = [users EXCEPT ![logins[l].user] =
                      Consumed(users[logins[l].user], logins[l].proof)]
      BY <2>2 DEF CompleteLogin
    <3>3. QED
      BY <1>4, <3>1, <3>2, ConsumeChanges DEF Logged
  <2>3. QED
    BY <1>3, <1>5, <2>1, <2>2 DEF Login, VerifyPassword, GiveUp, VerifyProof, FailLogin
<1>6. ASSUME NEW u \in Members, Manage(u) PROVE AdminRemains'
  BY <1>4, <1>6, ManageChanges, IdentityAssumption DEF Managed
<1>7. ASSUME NEW e \in Edits, CommitUpdateAccess(e) PROVE AdminRemains'
  <2>1. PICK y : /\ edits[e].user \in Users
                 /\ Changes(edits[e].user, y)
                 /\ y.role = edits[e].role /\ y.active = edits[e].active
    BY <1>7, AccessChanges
  <2>2. \A u \in Users : users'[u] = IF u = edits[e].user THEN y ELSE users[u]
    BY <2>1 DEF Changes, Typed
  <2>3. CASE IsAdmin(edits[e])
    <3>1. IsAdmin(users'[edits[e].user])
      BY <2>1, <2>2, <2>3 DEF IsAdmin
    <3>2. QED
      BY <1>2, <2>1, <3>1
  <2>4. CASE ~IsAdmin(edits[e])
    <3>1. PICK row \in edits[e].rows : Leaves(e, row)
      BY <1>7, <2>4 DEF CommitUpdateAccess, Informed
    <3>2. row.user \in Users /\ row.version = users[row.user].version
      BY <1>7, <3>1 DEF CommitUpdateAccess, Serializable, Row, Leaves
    <3>3. CASE row.user = edits[e].user
      <4>1. ~IsAdmin(users[edits[e].user])
        BY <3>1, <3>2, <3>3 DEF Leaves
      <4>2. admin # edits[e].user
        BY <1>1, <4>1
      <4>3. QED
        BY <1>1, <1>2, <2>2, <4>2
    <3>4. CASE row.user # edits[e].user
      <4>1. IsAdmin(users[row.user])
        BY <3>1, <3>2, <3>4 DEF Leaves
      <4>2. QED
        BY <1>2, <2>2, <3>2, <3>4, <4>1
    <3>5. QED
      BY <3>3, <3>4
  <2>5. QED
    BY <2>3, <2>4
<1>8. QED
  BY <1>3, <1>5, <1>6, <1>7 DEF Next, Administer, BeginUpdateAccess, RollBackUpdateAccess,
                                RevokeSession, RefuseProof

-----------------------------------------------------------------------------
(* Sessions belong to active accounts and their present passwords *)

\* An open challenge was earned with the present password.
Earned(k) ==
  challenges[k].open => challenges[k].password = users[challenges[k].user].password

Entitled(s) ==
  sessions[s].live => /\ users[sessions[s].user].active
                      /\ users[sessions[s].user].password = sessions[s].password

AllEntitled == (\A k \in Challenges : Earned(k)) /\ (\A s \in Sessions : Entitled(s))

\* What is ended or closed is neither live nor open, and still says whose it was.
LEMMA EndedMeans ==
  /\ \A session \in SessionType :
       LET ended == Ended(session)
       IN /\ ~ended.live /\ ended.user = session.user
          /\ ended.challenge = session.challenge /\ ended.proof = session.proof
          /\ ended.under = session.under
  /\ \A challenge : ~Closed(challenge).open /\ Closed(challenge).user = challenge.user
BY DEF SessionType, Ended, Closed, NoChallenge

\* A challenge that stays or is closed stays earned while the password stays.
LEMMA EarnedStays ==
  ASSUME Typed, NEW k \in Challenges, Earned(k),
         challenges'[k].open => /\ challenges[k].open
                                /\ challenges'[k].user = challenges[k].user
                                /\ challenges'[k].password = challenges[k].password,
         \A u \in Users : users'[u].password = users[u].password
  PROVE  Earned(k)'
BY DEF Earned, Typed, ChallengeFormed

\* A session that stays or is ended stays entitled while access and password stay.
LEMMA EntitledStays ==
  ASSUME Typed, NEW s \in Sessions, Entitled(s),
         sessions'[s] = sessions[s] \/ ~sessions'[s].live,
         \A u \in Users : users'[u].password = users[u].password /\ users'[u].active = users[u].active
  PROVE  Entitled(s)'
BY DEF Entitled, Typed, SessionFormed

\* Counting a failure opens no challenge and changes no password.
LEMMA FailureKeeps ==
  ASSUME Typed, NEW k \in Challenges, RecordFailure(k) \/ UNCHANGED challenges, NEW c \in Challenges
  PROVE  /\ challenges'[c].open = challenges[c].open
         /\ challenges'[c].user = challenges[c].user
         /\ challenges'[c].password = challenges[c].password
         /\ ~challenges[c].open => challenges'[c] = challenges[c]
<1>1. challenges[k] \in ChallengeType
  BY DEF Typed, ChallengeFormed
<1>2. challenges' = [challenges EXCEPT ![k] = [challenges[k] EXCEPT !.failures = challenges[k].failures + 1]]
        => challenges'[c] = IF c = k THEN [challenges[k] EXCEPT !.failures = challenges[k].failures + 1]
                            ELSE challenges[c]
  BY DEF Typed, Functions
<1>3. CASE UNCHANGED challenges
  BY <1>3
<1>4. CASE ~UNCHANGED challenges
  <2>1. /\ challenges' = [challenges EXCEPT ![k] =
             [challenges[k] EXCEPT !.failures = challenges[k].failures + 1]]
        /\ challenges[k].open
    BY <1>4 DEF RecordFailure, Typed, Functions
  <2>2. QED
    BY <1>1, <1>2, <2>1 DEF ChallengeType
<1>5. QED
  BY <1>3, <1>4

\* The users a login leaves have the access and the password they had.
LEMMA LoginKeepsAccess ==
  ASSUME Typed, \A l \in Logins : SeenCurrent(l), NEW l \in Logins, Login(l)
  PROVE  \A u \in Users : /\ users'[u].password = users[u].password
                          /\ users'[u].active = users[u].active
<1>1. CASE UNCHANGED users
  BY <1>1
<1>2. ASSUME NEW v \in Users, NEW y, Logged(v, y)
      PROVE  \A u \in Users : /\ users'[u].password = users[u].password
                              /\ users'[u].active = users[u].active
  BY <1>2 DEF Logged, Changes, Typed
<1>3. CASE RotateLogin(l) \/ StartLoginChallenge(l)
  <2>1. logins[l].at = "verified" /\ Rehash(logins[l].user, logins[l].seen)
    BY <1>3 DEF RotateLogin, StartLoginChallenge
  <2>2. PICK y : logins[l].user \in Users /\ Logged(logins[l].user, y)
    BY <2>1, RehashChanges
  <2>3. QED
    BY <1>2, <2>2
<1>4. CASE CompleteLogin(l)
  <2>1. /\ logins[l].user \in Users /\ logins[l].proof \in GoodProof
        /\ Accepted(users[logins[l].user], logins[l].proof)
    BY <1>4 DEF CompleteLogin, Typed, LoginFormed
  <2>2. users' = [users EXCEPT ![logins[l].user] =
                    Consumed(users[logins[l].user], logins[l].proof)]
    BY <1>4 DEF CompleteLogin
  <2>3. Logged(logins[l].user, Consumed(users[logins[l].user], logins[l].proof))
    BY <2>1, <2>2, ConsumeChanges
  <2>4. QED
    BY <1>2, <2>1, <2>3
<1>5. QED
  BY <1>1, <1>3, <1>4 DEF Login, VerifyPassword, GiveUp, VerifyProof, FailLogin

\* A session that is opened for the password the account has.
LEMMA OpenedEntitled ==
  ASSUME Typed, \A s \in Sessions : Entitled(s), NEW u \in Users, NEW password, NEW challenge,
         NEW proof, OpenSession(u, password, challenge, proof),
         users[u].active, users[u].password = password,
         \A v \in Users : users'[v].password = users[v].password /\ users'[v].active = users[v].active
  PROVE  \A s \in Sessions : Entitled(s)'
<1> DEFINE n == Unused(NewSessions)
           session == [user |-> u, live |-> TRUE, password |-> password,
                       challenge |-> challenge, proof |-> proof, under |-> users[u].totp]
<1>1. sessions' = [sessions EXCEPT ![n] = session]
  BY DEF OpenSession
<1>2. session.user = u /\ session.password = password
  OBVIOUS
<1> HIDE DEF n, session
<1> SUFFICES ASSUME NEW s \in Sessions PROVE Entitled(s)'
  OBVIOUS
<1>3. CASE s = n
  <2>1. sessions'[s] = session
    BY <1>1, <1>3 DEF Typed, Functions
  <2>2. QED
    BY <1>2, <2>1 DEF Entitled
<1>4. CASE s # n
  <2>1. sessions'[s] = sessions[s]
    BY <1>1, <1>4 DEF Typed, Functions
  <2>2. QED
    BY <2>1, EntitledStays
<1>5. QED
  BY <1>3, <1>4

\* Every step keeps challenges earned and sessions entitled.
LEMMA EntitledStep ==
  ASSUME Typed, \A l \in Logins : SeenCurrent(l), AllEntitled, Next
  PROVE  AllEntitled'
<1> DEFINE KeptAccess == \A u \in Users : /\ users'[u].password = users[u].password
                                          /\ users'[u].active = users[u].active
           AllEarned == \A k \in Challenges : Earned(k)'
           AllFit == \A s \in Sessions : Entitled(s)'
<1>1. ASSUME KeptAccess, UNCHANGED challenges PROVE AllEarned
  BY <1>1, EarnedStays DEF AllEntitled
<1>2. ASSUME KeptAccess, UNCHANGED sessions PROVE AllFit
  BY <1>2, EntitledStays DEF AllEntitled
<1>3. ASSUME NEW k \in Challenges, KeptAccess, RecordFailure(k) \/ UNCHANGED challenges
      PROVE  AllEarned
  BY <1>3, FailureKeeps, EarnedStays DEF AllEntitled
<1>4. ASSUME AllEarned, AllFit PROVE AllEntitled'
  BY <1>4 DEF AllEntitled
<1>5. UNCHANGED users => KeptAccess
  OBVIOUS
<1> HIDE DEF KeptAccess, AllEarned, AllFit
<1>6. ASSUME NEW l \in Logins, Login(l) PROVE AllEntitled'
  <2>1. KeptAccess
    BY <1>6, LoginKeepsAccess DEF KeptAccess
  <2>2. LoginFormed(logins[l])
    BY DEF Typed
  <2>3. CASE RotateLogin(l)
    <3>1. /\ logins[l].user \in Users
          /\ users[logins[l].user].active
          /\ users[logins[l].user].password = logins[l].seen.password
          /\ OpenSession(logins[l].user, logins[l].seen.password, None, <<>>)
          /\ UNCHANGED challenges
      BY <2>2, <2>3 DEF RotateLogin, StillVerified, LoginFormed
    <3>2. AllFit
      BY <2>1, <3>1, OpenedEntitled DEF AllFit, KeptAccess, AllEntitled
    <3>3. QED
      BY <1>1, <1>4, <2>1, <3>1, <3>2
  <2>4. CASE StartLoginChallenge(l)
    <3> DEFINE n == Unused(NewChallenges)
               challenge == [user |-> logins[l].user, open |-> TRUE,
                             password |-> logins[l].seen.password, failures |-> 0]
    <3>1. /\ logins[l].user \in Users
          /\ users[logins[l].user].password = logins[l].seen.password
          /\ challenges' = [challenges EXCEPT ![n] = challenge]
          /\ UNCHANGED sessions
      BY <2>2, <2>4 DEF StartLoginChallenge, StillVerified, LoginFormed
    <3>2. challenge.user = logins[l].user /\ challenge.password = logins[l].seen.password
      OBVIOUS
    <3> HIDE DEF n, challenge
    <3>3. ASSUME NEW k \in Challenges PROVE Earned(k)'
      <4>1. CASE k = n
        <5>1. challenges'[k] = challenge
          BY <3>1, <4>1 DEF Typed, Functions
        <5>2. QED
          BY <2>1, <3>1, <3>2, <5>1 DEF Earned, KeptAccess
      <4>2. CASE k # n
        <5>1. challenges'[k] = challenges[k]
          BY <3>1, <4>2 DEF Typed, Functions
        <5>2. QED
          BY <2>1, <5>1, EarnedStays DEF KeptAccess, AllEntitled
      <4>3. QED
        BY <4>1, <4>2
    <3>4. QED
      BY <1>2, <1>4, <2>1, <3>1, <3>3 DEF AllEarned
  <2>5. CASE CompleteLogin(l)
    <3> DEFINE u == logins[l].user
               k == logins[l].challenge
    <3>1. /\ u \in Users /\ k \in Challenges
          /\ challenges[k].user = u /\ challenges[k].open /\ users[u].active
          /\ OpenSession(u, challenges[k].password, k, logins[l].proof)
          /\ challenges' = [challenges EXCEPT ![k] = Closed(challenges[k])]
      BY <2>2, <2>5 DEF CompleteLogin, LoginFormed, Usable
    <3>2. users[u].password = challenges[k].password
      BY <3>1 DEF AllEntitled, Earned
    <3>3. AllFit
      BY <2>1, <3>1, <3>2, OpenedEntitled DEF AllFit, KeptAccess, AllEntitled
    <3>4. ASSUME NEW c \in Challenges PROVE Earned(c)'
      <4>1. c # k => challenges'[c] = challenges[c]
        BY <3>1 DEF Typed, Functions
      <4>2. c = k => ~challenges'[c].open
        BY <3>1, EndedMeans DEF Typed, Functions
      <4>3. QED
        BY <2>1, <4>1, <4>2, EarnedStays DEF KeptAccess, AllEntitled
    <3>5. QED
      BY <1>4, <3>3, <3>4 DEF AllEarned
  <2>6. CASE FailLogin(l)
    <3>1. logins[l].challenge \in Challenges
      BY <2>2, <2>6 DEF FailLogin, LoginFormed
    <3>2. QED
      BY <1>2, <1>3, <1>4, <2>1, <2>6, <3>1 DEF FailLogin
  <2>7. QED
    BY <1>1, <1>2, <1>4, <1>6, <2>1, <2>3, <2>4, <2>5, <2>6
    DEF Login, VerifyPassword, GiveUp, VerifyProof
<1>7. ASSUME NEW u \in Users, NEW y, Changes(u, y), sessions' = SignedOut(u),
             \/ challenges' = WithoutChallenges(u)
             \/ UNCHANGED challenges /\ y.password = users[u].password
      PROVE  AllEntitled'
  <2>1. \A v \in Users : v # u => users'[v] = users[v]
    BY <1>7 DEF Changes, Typed
  <2>2. ASSUME NEW s \in Sessions PROVE Entitled(s)'
    <3>1. CASE sessions[s].user = u
      <4>1. sessions'[s] = Ended(sessions[s]) /\ sessions[s] \in SessionType
        BY <1>7, <3>1 DEF SignedOut, Typed, SessionFormed
      <4>2. QED
        BY <4>1, EndedMeans DEF Entitled
    <3>2. CASE sessions[s].user # u
      <4>1. sessions'[s] = sessions[s]
        BY <1>7, <3>2 DEF SignedOut
      <4>2. sessions[s].live => sessions[s].user \in Users
        BY DEF Typed, SessionFormed
      <4>3. QED
        BY <2>1, <3>2, <4>1, <4>2 DEF Entitled, AllEntitled
    <3>3. QED
      BY <3>1, <3>2
  <2>3. ASSUME NEW k \in Challenges PROVE Earned(k)'
    <3>1. challenges[k].open => challenges[k].user \in Users
      BY DEF Typed, ChallengeFormed
    <3>2. CASE challenges' = WithoutChallenges(u)
      <4>1. challenges[k].user = u => challenges'[k] = Closed(challenges[k])
        BY <3>2 DEF WithoutChallenges
      <4>2. challenges[k].user # u => challenges'[k] = challenges[k]
        BY <3>2 DEF WithoutChallenges
      <4>3. QED
        BY <2>1, <3>1, <4>1, <4>2, EndedMeans DEF Earned, AllEntitled
    <3>3. CASE UNCHANGED challenges /\ y.password = users[u].password
      <4>1. \A v \in Users : users'[v].password = users[v].password
        BY <1>7, <2>1, <3>3 DEF Changes, Typed
      <4>2. QED
        BY <3>3, <4>1, EarnedStays DEF AllEntitled
    <3>4. QED
      BY <1>7, <3>2, <3>3
  <2>4. QED
    BY <2>2, <2>3 DEF AllEntitled
<1>8. ASSUME NEW u \in Members, Manage(u) PROVE AllEntitled'
  <2>1. PICK y : Managed(u, y) /\ u \in Users
    BY <1>8, ManageChanges, IdentityAssumption
  <2>2. CASE y.password = users[u].password /\ UNCHANGED <<sessions, challenges>>
    <3>1. KeptAccess
      BY <2>1, <2>2 DEF Managed, Changes, KeptAccess, Typed
    <3>2. QED
      BY <1>1, <1>2, <1>4, <2>2, <3>1
  <2>3. QED
    BY <1>7, <2>1, <2>2 DEF Managed
<1>9. ASSUME NEW e \in Edits, CommitUpdateAccess(e) PROVE AllEntitled'
  <2>1. PICK y : /\ edits[e].user \in Users
                 /\ Changes(edits[e].user, y)
                 /\ y.active = edits[e].active
                 /\ y.password = users[edits[e].user].password
    BY <1>9, AccessChanges
  <2>2. UNCHANGED challenges
    BY <1>9 DEF CommitUpdateAccess
  <2>3. CASE ~edits[e].active
    BY <1>7, <1>9, <2>1, <2>2, <2>3 DEF CommitUpdateAccess
  <2>4. CASE edits[e].active
    <3>1. /\ \A u \in Users : users'[u].password = users[u].password
          /\ \A u \in Users : users[u].active => users'[u].active
          /\ UNCHANGED sessions
      BY <1>9, <2>1, <2>4 DEF Changes, Typed, CommitUpdateAccess
    <3>2. AllFit
      BY <3>1 DEF AllFit, Entitled, AllEntitled, Typed, SessionFormed
    <3>3. AllEarned
      BY <2>2, <3>1, EarnedStays DEF AllEarned, AllEntitled
    <3>4. QED
      BY <1>4, <3>2, <3>3
  <2>5. QED
    BY <2>3, <2>4
<1>10. ASSUME NEW s \in Sessions, RevokeSession(s) PROVE AllEntitled'
  <2>1. KeptAccess
    BY <1>5, <1>10 DEF RevokeSession
  <2>2. \A t \in Sessions : sessions'[t] = sessions[t] \/ ~sessions'[t].live
    BY <1>10, EndedMeans DEF RevokeSession, Typed, Functions, SessionFormed
  <2>3. AllFit
    BY <2>1, <2>2, EntitledStays DEF KeptAccess, AllFit, AllEntitled
  <2>4. QED
    BY <1>1, <1>4, <1>10, <2>1, <2>3 DEF RevokeSession
<1>11. ASSUME NEW k \in Challenges, RefuseProof(k) PROVE AllEntitled'
  BY <1>2, <1>3, <1>4, <1>5, <1>11 DEF RefuseProof
<1>12. ASSUME UNCHANGED <<users, sessions, challenges>> PROVE AllEntitled'
  BY <1>1, <1>2, <1>4, <1>5, <1>12
<1>13. QED
  BY <1>6, <1>8, <1>9, <1>10, <1>11, <1>12
  DEF Next, Administer, BeginUpdateAccess, RollBackUpdateAccess

-----------------------------------------------------------------------------
(* A proof opens one session *)

\* What a session was opened with is used up: its challenge is closed for good, its
\* recovery code is gone, its step of the authenticator is behind, as long as the
\* authenticator under which it was accepted stays enrolled.
ProofSpent(user, proof, under) ==
  /\ proof.kind = "totp" =>
       /\ 0 < under /\ under <= user.issued
       /\ user.totp = under => proof.value <= user.step
  /\ proof.kind = "recovery" =>
       0 < proof.value /\ proof.value <= user.issued /\ user.code # proof.value

Spent(s) ==
  sessions[s].challenge # None =>
    /\ ~challenges[sessions[s].challenge].open
    /\ challenges[sessions[s].challenge].user \in Users
    /\ sessions[s].proof # <<>> =>
         ProofSpent(users[sessions[s].user], sessions[s].proof, sessions[s].under)

\* A spent proof stays spent: authenticators and codes are issued once.
LEMMA ProofStaysSpent ==
  ASSUME NEW x \in Account, NEW y \in Account, Successor(x, y), NEW proof \in Proof,
         NEW under \in Nat, ProofSpent(x, proof, under)
  PROVE  ProofSpent(y, proof, under)
<1>1. proof.value \in Nat
  BY DEF Proof
<1>2. CASE proof.kind = "totp"
  BY <1>1, <1>2, AccountNumbers DEF ProofSpent, Successor
<1>3. CASE proof.kind = "recovery"
  BY <1>1, <1>3, AccountNumbers DEF ProofSpent, Successor
<1>4. CASE proof.kind = "passkey"
  BY <1>4 DEF ProofSpent
<1>5. QED
  BY <1>2, <1>3, <1>4 DEF Proof

\* A closed challenge is never opened again.
LEMMA ClosedStays ==
  ASSUME Typed, Next, NEW c \in Challenges, ~challenges[c].open, challenges[c].user \in Users
  PROVE  ~challenges'[c].open /\ challenges'[c].user \in Users
<1>1. challenges'[c] = challenges[c] => ~challenges'[c].open /\ challenges'[c].user \in Users
  OBVIOUS
<1>2. challenges'[c] = Closed(challenges[c]) => ~challenges'[c].open /\ challenges'[c].user \in Users
  BY EndedMeans
<1>3. ASSUME NEW k \in Challenges, RecordFailure(k) \/ UNCHANGED challenges
      PROVE  challenges'[c] = challenges[c]
  BY <1>3, FailureKeeps
<1>4. ASSUME NEW l \in Logins, Login(l)
      PROVE  challenges'[c] = challenges[c] \/ challenges'[c] = Closed(challenges[c])
  <2>1. CASE StartLoginChallenge(l)
    <3> DEFINE n == Unused(NewChallenges)
    <3>1. NewChallenges # {}
      BY <2>1 DEF StartLoginChallenge
    <3>2. n \in NewChallenges
      BY <3>1 DEF Unused
    <3>3. challenges[n] = NoChallenge /\ NoChallenge.user = None
      BY <3>2 DEF NewChallenges, NoChallenge
    <3>4. c # n
      BY <3>3, IdentityAssumption
    <3>5. PICK challenge : challenges' = [challenges EXCEPT ![n] = challenge]
      BY <2>1 DEF StartLoginChallenge
    <3> HIDE DEF n
    <3>6. QED
      BY <3>4, <3>5 DEF Typed, Functions
  <2>2. CASE CompleteLogin(l)
    BY <2>2 DEF CompleteLogin, Typed, Functions
  <2>3. CASE FailLogin(l)
    <3>1. logins[l].challenge \in Challenges
      BY <2>3 DEF FailLogin, Typed, LoginFormed
    <3>2. QED
      BY <1>3, <2>3, <3>1 DEF FailLogin
  <2>4. QED
    BY <1>4, <2>1, <2>2, <2>3 DEF Login, VerifyPassword, RotateLogin, GiveUp, VerifyProof
<1>5. ASSUME NEW u \in Members, Manage(u)
      PROVE  challenges'[c] = challenges[c] \/ challenges'[c] = Closed(challenges[c])
  BY <1>5, ManageChanges, IdentityAssumption DEF Managed, WithoutChallenges
<1>6. ASSUME NEW e \in Edits, Administer(e) PROVE challenges'[c] = challenges[c]
  BY <1>6 DEF Administer, BeginUpdateAccess, CommitUpdateAccess, RollBackUpdateAccess
<1>7. QED
  BY <1>1, <1>2, <1>3, <1>4, <1>5, <1>6 DEF Next, RevokeSession, RefuseProof

\* A session says what it was opened with, even when it has ended.
SameOrigin(s) ==
  /\ sessions'[s].user = sessions[s].user
  /\ sessions'[s].challenge = sessions[s].challenge
  /\ sessions'[s].proof = sessions[s].proof
  /\ sessions'[s].under = sessions[s].under

\* A session opened before stays spent.
LEMMA SpentStays ==
  ASSUME Typed, \A l \in Logins : SeenCurrent(l), Next, NEW s \in Sessions, Spent(s), SameOrigin(s)
  PROVE  Spent(s)'
<1> SUFFICES ASSUME sessions[s].challenge # None PROVE Spent(s)'
  BY DEF Spent, SameOrigin
<1>1. sessions[s].challenge \in Challenges /\ sessions[s].user \in Users
  BY DEF Typed, SessionFormed, SessionType
<1>2. /\ ~challenges'[sessions[s].challenge].open
      /\ challenges'[sessions[s].challenge].user \in Users
  BY <1>1, ClosedStays DEF Spent
<1>3. ASSUME sessions[s].proof # <<>>
      PROVE  ProofSpent(users'[sessions[s].user], sessions[s].proof, sessions[s].under)
  <2>1. sessions[s].proof \in Proof /\ sessions[s].under \in Nat
    BY <1>3 DEF Typed, SessionFormed, SessionType
  <2>2. ProofSpent(users[sessions[s].user], sessions[s].proof, sessions[s].under)
    BY <1>3 DEF Spent
  <2>3. /\ users[sessions[s].user] \in Account /\ users'[sessions[s].user] \in Account
        /\ Successor(users[sessions[s].user], users'[sessions[s].user])
    BY <1>1, UsersStep DEF Typed
  <2>4. QED
    BY <2>1, <2>2, <2>3, ProofStaysSpent
<1>4. QED
  BY <1>2, <1>3 DEF Spent, SameOrigin

\* Two sessions that one proof would have opened.
Twins(s, t) ==
  /\ sessions[s].challenge # None
  /\ \/ sessions[s].challenge = sessions[t].challenge
     \/ SameProof(sessions[s], sessions[t])

AllSpent == (\A s \in Sessions : Spent(s)) /\ OneSessionPerProof

\* Sessions that stay, or only end, stay spent and different.
LEMMA AllSpentStays ==
  ASSUME Typed, \A l \in Logins : SeenCurrent(l), AllSpent, Next,
         \A s \in Sessions : SameOrigin(s)
  PROVE  AllSpent'
<1>1. \A s \in Sessions : Spent(s)'
  BY SpentStays DEF AllSpent
<1>2. OneSessionPerProof'
  BY DEF OneSessionPerProof, SameProof, AllSpent, SameOrigin
<1>3. QED
  BY <1>1, <1>2 DEF AllSpent

\* A proof that is accepted under the present authenticator is spent afterwards, and
\* was not before.
LEMMA AcceptedSpent ==
  ASSUME NEW x \in Account, NEW proof \in GoodProof, Accepted(x, proof)
  PROVE  /\ ProofSpent(Consumed(x, proof), proof, x.totp)
         /\ proof.kind # "passkey" => ~ProofSpent(x, proof, x.totp)
<1>1. proof \in Proof /\ proof.value \in Nat
  BY DEF GoodProof, Proof
<1>2. CASE proof.kind = "totp"
  <2>1. x.totp # 0 /\ x.step < proof.value
    BY <1>2 DEF Accepted, StepIsNew
  <2>2. /\ Consumed(x, proof).totp = x.totp /\ Consumed(x, proof).issued = x.issued
        /\ Consumed(x, proof).step = proof.value
    BY <1>2 DEF Consumed, Account, User
  <2>3. ProofSpent(Consumed(x, proof), proof, x.totp)
    BY <1>1, <1>2, <2>1, <2>2, AccountNumbers DEF ProofSpent
  <2>4. ~ProofSpent(x, proof, x.totp)
    BY <1>1, <1>2, <2>1, AccountNumbers DEF ProofSpent
  <2>5. QED
    BY <2>3, <2>4
<1>3. CASE proof.kind = "recovery"
  <2>1. x.code = proof.value /\ 0 < proof.value
    BY <1>3 DEF Accepted, GoodProof
  <2>2. Consumed(x, proof).code = 0 /\ Consumed(x, proof).issued = x.issued
    BY <1>3 DEF Consumed, Account, User
  <2>3. QED
    BY <1>1, <1>3, <2>1, <2>2, AccountNumbers DEF ProofSpent
<1>4. CASE proof.kind = "passkey"
  BY <1>4 DEF ProofSpent
<1>5. QED
  BY <1>1, <1>2, <1>3, <1>4 DEF Proof

\* A new session whose origin is no earlier one's.
LEMMA OpenedSpent ==
  ASSUME Typed, \A l \in Logins : SeenCurrent(l), AllSpent, Next,
         NEW u, NEW password, NEW challenge, NEW proof, OpenSession(u, password, challenge, proof),
         proof # <<>> => challenge # None,
         challenge # None =>
           /\ challenge \in Challenges /\ u \in Users
           /\ challenges[challenge].open
           /\ ~challenges'[challenge].open /\ challenges'[challenge].user \in Users
           /\ ProofSpent(users'[u], proof, users[u].totp)
           /\ proof.kind # "passkey" => ~ProofSpent(users[u], proof, users[u].totp)
  PROVE  AllSpent'
<1>1. PICK n, session :
        /\ n \in NewSessions /\ sessions' = [sessions EXCEPT ![n] = session]
        /\ session = [user |-> u, live |-> TRUE, password |-> password,
                       challenge |-> challenge, proof |-> proof, under |-> users[u].totp]
  BY DEF OpenSession, Unused
<1>2. n \in Sessions
  BY <1>1 DEF NewSessions
<1>3. /\ session.user = u /\ session.challenge = challenge
      /\ session.proof = proof /\ session.under = users[u].totp
  BY <1>1
<1>4. sessions'[n] = session /\ \A s \in Sessions : s # n => sessions'[s] = sessions[s]
  BY <1>1, <1>2 DEF Typed, Functions
<1>5. Spent(n)'
  BY <1>3, <1>4 DEF Spent
<1>6. ASSUME NEW s \in Sessions, s # n PROVE Spent(s)' /\ SameOrigin(s)
  <2>1. SameOrigin(s) /\ Spent(s)
    BY <1>4, <1>6 DEF SameOrigin, AllSpent
  <2>2. QED
    BY <2>1, SpentStays
<1>7. ASSUME NEW s \in Sessions, s # n PROVE ~Twins(s, n)' /\ ~Twins(n, s)'
  <2>1. /\ sessions'[s] = sessions[s] /\ sessions'[n] = session
        /\ Spent(s) /\ SessionFormed(sessions[s])
    BY <1>4, <1>7 DEF AllSpent, Typed
  <2>2. CASE challenge = None
    BY <1>3, <2>1, <2>2 DEF Twins, SameProof
  <2>3. CASE challenge # None
    <3>1. sessions[s].challenge # challenge
      BY <2>1, <2>3 DEF Spent
    <3>2. ASSUME SameProof(sessions[s], session) \/ SameProof(session, sessions[s]) PROVE FALSE
      <4>1. /\ sessions[s].user = u /\ sessions[s].proof # <<>> /\ proof # <<>>
            /\ sessions[s].proof.kind = proof.kind /\ sessions[s].proof.value = proof.value
            /\ proof.kind = "recovery" \/ (proof.kind = "totp" /\ sessions[s].under = users[u].totp)
        BY <1>3, <3>2 DEF SameProof
      <4>2. ProofSpent(users[u], sessions[s].proof, sessions[s].under)
        BY <2>1, <4>1 DEF Spent, SessionFormed
      <4>3. ProofSpent(users[u], proof, users[u].totp)
        BY <4>1, <4>2 DEF ProofSpent
      <4>4. QED
        BY <2>3, <4>1, <4>3
    <3>3. QED
      BY <1>3, <2>1, <3>1, <3>2 DEF Twins
  <2>4. QED
    BY <2>2, <2>3
<1>8. ASSUME NEW s \in Sessions, NEW t \in Sessions, Twins(s, t)' PROVE s = t
  <2>1. CASE s = n \/ t = n
    BY <1>7, <1>8, <2>1
  <2>2. CASE s # n /\ t # n
    <3>1. Twins(s, t)
      BY <1>4, <1>8, <2>2 DEF Twins, SameProof
    <3>2. QED
      BY <3>1 DEF AllSpent, OneSessionPerProof, Twins
  <2>3. QED
    BY <2>1, <2>2
<1>9. OneSessionPerProof'
  BY <1>8 DEF OneSessionPerProof, Twins
<1>10. QED
  BY <1>5, <1>6, <1>9 DEF AllSpent

\* Every step keeps what was used spent, and sessions apart.
LEMMA SpentStep ==
  ASSUME Typed, \A l \in Logins : SeenCurrent(l), AllSpent, Next
  PROVE  AllSpent'
<1>1. ASSUME UNCHANGED sessions PROVE AllSpent'
  BY <1>1, AllSpentStays DEF SameOrigin
<1>2. ASSUME NEW u, sessions' = SignedOut(u) PROVE AllSpent'
  <2>1. ASSUME NEW s \in Sessions PROVE SameOrigin(s)
    <3>1. sessions'[s] = sessions[s] \/ sessions'[s] = Ended(sessions[s])
      BY <1>2 DEF SignedOut
    <3>2. QED
      BY <3>1, EndedMeans DEF SameOrigin, Typed, SessionFormed
  <2>2. QED
    BY <2>1, AllSpentStays
<1>3. ASSUME NEW s \in Sessions, RevokeSession(s) PROVE AllSpent'
  <2>1. ASSUME NEW t \in Sessions PROVE SameOrigin(t)
    <3>1. sessions'[t] = sessions[t] \/ sessions'[t] = Ended(sessions[t])
      BY <1>3 DEF RevokeSession, Typed, Functions
    <3>2. QED
      BY <3>1, EndedMeans DEF SameOrigin, Typed, SessionFormed
  <2>2. QED
    BY <2>1, AllSpentStays
<1>4. ASSUME NEW l \in Logins, RotateLogin(l) PROVE AllSpent'
  BY <1>4, OpenedSpent DEF RotateLogin
<1>5. ASSUME NEW l \in Logins, CompleteLogin(l) PROVE AllSpent'
  <2> DEFINE u == logins[l].user
             k == logins[l].challenge
             proof == logins[l].proof
  <2>1. u \in Users /\ k \in Challenges /\ proof \in GoodProof
    BY <1>5 DEF CompleteLogin, Typed, LoginFormed
  <2>2. /\ challenges[k].user = u /\ challenges[k].open /\ Accepted(users[u], proof)
        /\ challenges' = [challenges EXCEPT ![k] = Closed(challenges[k])]
        /\ users' = [users EXCEPT ![u] = Consumed(users[u], proof)]
        /\ OpenSession(u, challenges[k].password, k, proof)
    BY <1>5 DEF CompleteLogin, Usable
  <2>3. ~challenges'[k].open /\ challenges'[k].user \in Users
    BY <2>1, <2>2, EndedMeans DEF Typed, Functions
  <2>4. users[u] \in Account /\ users'[u] = Consumed(users[u], proof)
    BY <2>1, <2>2 DEF Typed
  <2>5. /\ ProofSpent(users'[u], proof, users[u].totp)
        /\ proof.kind # "passkey" => ~ProofSpent(users[u], proof, users[u].totp)
    BY <2>1, <2>2, <2>4, AcceptedSpent
  <2>6. k # None
    BY <2>1, IdentityAssumption
  <2> HIDE DEF u, k, proof
  <2>7. QED
    BY <2>1, <2>2, <2>3, <2>5, <2>6, OpenedSpent
<1>6. ASSUME NEW u \in Members, Manage(u) PROVE AllSpent'
  BY <1>1, <1>2, <1>6, ManageChanges, IdentityAssumption DEF Managed
<1>7. ASSUME NEW e \in Edits, CommitUpdateAccess(e) PROVE AllSpent'
  BY <1>1, <1>2, <1>7 DEF CommitUpdateAccess
<1>8. QED
  BY <1>1, <1>3, <1>4, <1>5, <1>6, <1>7
  DEF Next, Login, Administer, VerifyPassword, StartLoginChallenge, GiveUp, VerifyProof, FailLogin,
      BeginUpdateAccess, RollBackUpdateAccess, RefuseProof

-----------------------------------------------------------------------------
(* The theorems *)

\* What every reachable state satisfies: types, what logins and edits remember of what
\* they read, and the three safety properties in their inductive form.
IdentityInv ==
  /\ Typed
  /\ \A l \in Logins : SeenCurrent(l)
  /\ \A e \in Edits : Informed(e)
  /\ AdminRemains
  /\ AllEntitled
  /\ AllSpent

\* The accounts a system starts with.
LEMMA FirstAccounts ==
  ASSUME NEW x \in {Fresh, OfOldTimes, WithAuthenticator}
  PROVE  x \in Account /\ IsAdmin(x)
<1>1. 0 \in 0 .. MaxStep /\ 1 \in 0 .. MaxIssued
  BY LimitAssumption
<1>2. Fresh \in User /\ Fresh.totp = 0 /\ Fresh.code = 0 /\ Fresh.issued = 1 /\ IsAdmin(Fresh)
  BY <1>1 DEF Fresh, User, IsAdmin
<1>3. /\ OfOldTimes \in User /\ OfOldTimes.totp = 0 /\ OfOldTimes.code = 0
      /\ OfOldTimes.issued = 1 /\ IsAdmin(OfOldTimes)
  BY <1>1, <1>2 DEF OfOldTimes, User, IsAdmin
<1>4. /\ WithAuthenticator \in User /\ WithAuthenticator.totp = 1 /\ WithAuthenticator.code = 1
      /\ WithAuthenticator.issued = 1 /\ IsAdmin(WithAuthenticator)
  BY <1>1, <1>2 DEF WithAuthenticator, User, IsAdmin
<1>5. QED
  BY <1>2, <1>3, <1>4 DEF Account

\* The invariant holds at the start.
LEMMA InitIdentity == Init => IdentityInv
<1> SUFFICES ASSUME Init PROVE IdentityInv
  OBVIOUS
<1>1. /\ sessions = [s \in Sessions |-> NoSession]
      /\ challenges = [k \in Challenges |-> NoChallenge]
      /\ logins = [l \in Logins |-> Idle]
      /\ edits = [e \in Edits |-> NoEdit]
  BY DEF Init
<1>2. users \in [Users -> Account] /\ \A u \in Users : IsAdmin(users[u])
  BY FirstAccounts DEF Init
<1>3. Functions
  BY <1>1 DEF Functions
<1>4. SessionFormed(NoSession) /\ ~NoSession.live /\ NoSession.challenge = None
      /\ NoSession.proof = <<>>
  BY DEF NoSession, SessionFormed, SessionType
<1>5. ChallengeFormed(NoChallenge) /\ ~NoChallenge.open
  <2>1. 0 \in 0 .. MaxFailures
    BY LimitAssumption
  <2>2. QED
    BY <2>1 DEF NoChallenge, ChallengeFormed, ChallengeType
<1>6. EditFormed(NoEdit)
  BY DEF NoEdit, EditFormed, EditType
<1>7. Typed
  BY <1>1, <1>2, <1>3, <1>4, <1>5, <1>6, IdleFormed DEF Typed
<1>8. \A l \in Logins : SeenCurrent(l)
  BY <1>1 DEF SeenCurrent, Idle
<1>9. \A e \in Edits : Informed(e)
  BY <1>1 DEF Informed
<1>10. AdminRemains
  BY <1>2, IdentityAssumption DEF AdminRemains, Admins
<1>11. AllEntitled
  BY <1>1, <1>4, <1>5 DEF AllEntitled, Earned, Entitled
<1>12. AllSpent
  BY <1>1, <1>4 DEF AllSpent, Spent, OneSessionPerProof, SameProof
<1>13. QED
  BY <1>7, <1>8, <1>9, <1>10, <1>11, <1>12 DEF IdentityInv

\* The invariant is kept by every step.
LEMMA IdentityInductive == IdentityInv /\ [Next]_vars => IdentityInv'
<1> SUFFICES ASSUME IdentityInv, [Next]_vars PROVE IdentityInv'
  OBVIOUS
<1>1. CASE Next
  <2>1. Typed'
    BY <1>1, TypedStep DEF IdentityInv
  <2>2. \A l \in Logins : SeenCurrent(l)'
    BY <1>1, SeenStep DEF IdentityInv
  <2>3. \A e \in Edits : Informed(e)'
    BY <1>1, InformedStep DEF IdentityInv
  <2>4. AdminRemains'
    BY <1>1, AdminStep DEF IdentityInv
  <2>5. AllEntitled'
    BY <1>1, EntitledStep DEF IdentityInv
  <2>6. AllSpent'
    BY <1>1, SpentStep DEF IdentityInv
  <2>7. QED
    BY <2>1, <2>2, <2>3, <2>4, <2>5, <2>6 DEF IdentityInv
<1>2. CASE UNCHANGED vars
  <2>1. UNCHANGED <<users, sessions, challenges, logins, edits>>
    BY <1>2 DEF vars
  <2>2. Typed'
    BY <2>1 DEF IdentityInv, Typed, Functions
  <2>3. (\A l \in Logins : SeenCurrent(l)')  /\ AdminRemains'
    BY <2>1 DEF IdentityInv, SeenCurrent, AdminRemains, Admins
  <2>4. \A e \in Edits : Informed(e)'
    BY <2>1 DEF IdentityInv, Informed, Leaves
  <2>5. AllEntitled'
    BY <2>1 DEF IdentityInv, AllEntitled, Earned, Entitled
  <2>6. AllSpent'
    BY <2>1 DEF IdentityInv, AllSpent, Spent, OneSessionPerProof, SameProof
  <2>7. QED
    BY <2>2, <2>3, <2>4, <2>5, <2>6 DEF IdentityInv
<1>3. QED
  BY <1>1, <1>2

\* Every reachable state satisfies the invariant.
LEMMA IdentityAlways == Spec => []IdentityInv
BY InitIdentity, IdentityInductive, PTL DEF Spec

\* All tables keep the types of their columns, whatever logins and edits are under way.
THEOREM IdentityTypeCorrect == Spec => []TypeOK
<1>1. IdentityInv => TypeOK
  BY TypedMeansTypeOK DEF IdentityInv
<1>2. QED
  BY <1>1, IdentityAlways, PTL

\* However many administrators edit each other at once, one who is active is left: the
\* count that UpdateUserAccess reads is of rows that it locks and that must not have
\* changed.
THEOREM AdminAlwaysRemains == Spec => []AdminRemains
<1>1. IdentityInv => AdminRemains
  BY DEF IdentityInv
<1>2. QED
  BY <1>1, IdentityAlways, PTL

\* A session that works belongs to an active account and was opened with the password
\* the account has, also when a login was under way while the password changed
\* (lockVerifiedCredential and the deletion of challenges).
THEOREM SessionsAlwaysEntitled == Spec => []SessionsAreEntitled
<1>1. IdentityInv => SessionsAreEntitled
  BY DEF IdentityInv, AllEntitled, Entitled, SessionsAreEntitled
<1>2. QED
  BY <1>1, IdentityAlways, PTL

\* A challenge, a recovery code and, while one authenticator stays enrolled, a time step
\* open one session at most, in however many requests they are sent (CompleteLogin
\* consumes them).  The steps accepted before an authenticator was enrolled are
\* forgotten with the one before it.
THEOREM ProofsOpenOneSession == Spec => []OneSessionPerProof
<1>1. IdentityInv => OneSessionPerProof
  BY DEF IdentityInv, AllSpent
<1>2. QED
  BY <1>1, IdentityAlways, PTL

\* No login and no edit lifts the demand to change a password; only a new password does.
THEOREM MustChangeAlwaysStays == Spec => MustChangeStays
<1> DEFINE Kept == \A u \in Users : users[u].mustChange /\ ~users'[u].mustChange =>
                     users'[u].password > users[u].password
<1>1. IdentityInv /\ [Next]_vars => [Kept]_vars
  <2> SUFFICES ASSUME IdentityInv, Next PROVE Kept
    OBVIOUS
  <2>1. users' \in [Users -> Account] /\ \A u \in Users : Successor(users[u], users'[u])
    BY UsersStep DEF IdentityInv
  <2>2. \A u \in Users : users[u].password \in Nat /\ users'[u].password \in Nat
    BY <2>1, AccountNumbers DEF IdentityInv, Typed
  <2>3. QED
    BY <2>1, <2>2 DEF Successor
<1>2. QED
  BY <1>1, IdentityAlways, PTL DEF Spec, MustChangeStays

=============================================================================
