----------------------- MODULE CustomerAccess_proofs ------------------------
(***************************************************************************)
(* Proofs about CustomerAccess: types, that a login is one of the present  *)
(* factor, that a code gives one login, and that wrong codes are counted.  *)
(***************************************************************************)
EXTENDS CustomerAccess, TLAPS

\* A step of AccessSpec.
AccessSteps == AccessNext \/ (Tick /\ UNCHANGED accessVars)

accessNowVars == <<accessVars, now>>

\* A factor without a lock has attempts left.
AttemptsLeft == factor.lockedUntil = 0 => factor.failed < MaxAttempts

AccessTyped == AccessTypeOK /\ now \in Nat /\ AttemptsLeft

----------------------------------------------------------------------------
(* Tables. *)

\* The challenges after a new one has been opened: the others are closed and otherwise as before.
LEMMA OpenedTyped ==
  ASSUME AccessTyped, NEW ch \in Challenges, NEW purpose \in Purpose, NEW version \in Nat \ {0}
  PROVE  /\ DOMAIN Opened(ch, purpose, version) = DOMAIN challenges \cup {ch}
         /\ Opened(ch, purpose, version)
              \in [DOMAIN Opened(ch, purpose, version) -> Challenge]
         /\ Opened(ch, purpose, version)[ch].attempts = 0
         /\ Opened(ch, purpose, version)[ch].expires = now + ChallengeTicks
         /\ \A d \in DOMAIN challenges \ {ch} : ~Opened(ch, purpose, version)[d].open
<1> DEFINE closed == [d \in DOMAIN challenges |-> [challenges[d] EXCEPT !.open = FALSE]]
           row == [purpose |-> purpose, version |-> version, attempts |-> 0,
                   expires |-> now + ChallengeTicks, open |-> TRUE]
<1>1. closed \in [DOMAIN challenges -> Challenge]
  BY DEF AccessTyped, AccessTypeOK, Challenge
<1>2. row \in Challenge
  BY AccessAssumption DEF AccessTyped, AccessTypeOK, Challenge
<1>3. Opened(ch, purpose, version) = Put(closed, ch, row)
  BY DEF Opened
<1>4. \A d \in DOMAIN challenges : ~closed[d].open
  BY DEF AccessTyped, AccessTypeOK, Challenge
<1> HIDE DEF closed, row
<1>5. /\ DOMAIN Put(closed, ch, row) = DOMAIN challenges \cup {ch}
      /\ Put(closed, ch, row) \in [DOMAIN Put(closed, ch, row) -> Challenge]
      /\ Put(closed, ch, row)[ch] = row
      /\ \A i \in DOMAIN challenges \ {ch} : Put(closed, ch, row)[i] = closed[i]
  BY <1>1, <1>2 DEF Put
<1>6. row.attempts = 0 /\ row.expires = now + ChallengeTicks
  BY DEF row
<1>7. \A d \in DOMAIN challenges \ {ch} : ~Opened(ch, purpose, version)[d].open
  BY <1>3, <1>4, <1>5
<1> QED
  BY <1>3, <1>5, <1>6, <1>7

\* A factor as the handlers find it has its type, no lock, and attempts left.
LEMMA UnlockedTyped ==
  ASSUME AccessTyped
  PROVE  /\ Unlocked \in Factor
         /\ Unlocked.lockedUntil = 0
         /\ Unlocked.failed < MaxAttempts
         /\ Unlocked.secret = factor.secret
         /\ Unlocked.version = factor.version
         /\ Unlocked.counter = factor.counter
<1>1. factor \in Factor
  BY DEF AccessTyped, AccessTypeOK
<1>2. CASE factor.lockedUntil = 0
  BY <1>1, <1>2 DEF AccessTyped, AttemptsLeft, Factor, Unlocked
<1>3. CASE factor.lockedUntil # 0
  <2>1. Unlocked = [factor EXCEPT !.failed = 0, !.lockedUntil = 0]
    BY <1>3 DEF Unlocked
  <2>2. 0 \in 0..MaxAttempts /\ 0 < MaxAttempts
    BY AccessAssumption
  <2> QED
    BY <1>1, <2>1, <2>2 DEF Factor
<1> QED
  BY <1>2, <1>3

\* Revoking changes no row otherwise.
LEMMA RevokedTyped ==
  ASSUME AccessTyped
  PROVE  /\ DOMAIN Revoked(logins) = DOMAIN logins
         /\ Revoked(logins) \in [DOMAIN Revoked(logins) -> Login]
         /\ \A d \in DOMAIN logins : Revoked(logins)[d] = [logins[d] EXCEPT !.revoked = TRUE]
  BY DEF AccessTyped, AccessTypeOK, Login, Revoked

----------------------------------------------------------------------------
(* Types. *)

\* Each step, for use in the proofs below.
LEMMA AccessStepCases ==
  ASSUME [AccessSteps]_accessNowVars
  PROVE  \/ \E ch \in Challenges : SignIn(ch)
         \/ \E ch \in Challenges : Look(ch)
         \/ \E ch \in Challenges : Cancel(ch)
         \/ \E ch \in Challenges : EnterWrongCode(ch)
         \/ \E ch \in Challenges : Logout(ch)
         \/ \E ch \in Challenges, n \in (now - 1)..(now + 1) : Verify(ch, n)
         \/ \E ch \in Challenges, n \in (now - 1)..(now + 1) : Enroll(ch, n)
         \/ \E ch, new \in Challenges, code \in recoveryCodes : Recover(ch, new, code)
         \/ Tick /\ UNCHANGED accessVars
         \/ UNCHANGED accessNowVars
  BY DEF AccessSteps, AccessNext

\* The account starts with its types: no authenticator, no challenge, no login.
LEMMA AccessInitTyped ==
  ASSUME now = 0, AccessInit
  PROVE  AccessTyped
<1>1. factor \in Factor /\ AttemptsLeft
  BY AccessAssumption DEF AccessInit, Factor, AttemptsLeft
<1>2. challenges = << >> /\ logins = << >>
  BY DEF AccessInit, Nothing
<1> QED
  BY <1>1, <1>2 DEF AccessTyped, AccessTypeOK, AccessInit

\* Opening a challenge keeps the types.
LEMMA SignInTyped ==
  ASSUME AccessTyped, NEW ch \in Challenges, SignIn(ch)
  PROVE  AccessTyped'
<1> DEFINE purpose == IF Enrolled THEN "VERIFY" ELSE "ENROLL"
<1>1. purpose \in Purpose /\ factor.version \in Nat \ {0}
  BY DEF Purpose, AccessTyped, AccessTypeOK, Factor
<1>2. challenges' = Opened(ch, purpose, factor.version)
  BY DEF SignIn
<1> HIDE DEF purpose
<1>3. /\ DOMAIN challenges' = DOMAIN challenges \cup {ch}
      /\ challenges' \in [DOMAIN challenges' -> Challenge]
  BY <1>1, <1>2, OpenedTyped
<1>4. factor' \in Factor /\ AttemptsLeft'
  BY UnlockedTyped DEF SignIn, AttemptsLeft
<1> QED
  BY <1>3, <1>4 DEF SignIn, AccessTyped, AccessTypeOK

\* Closing a challenge changes no other and keeps the types.
LEMMA CloseTyped ==
  ASSUME AccessTyped, NEW ch \in DOMAIN challenges,
         challenges' = [challenges EXCEPT ![ch].open = FALSE]
  PROVE  /\ DOMAIN challenges' = DOMAIN challenges
         /\ challenges' \in [DOMAIN challenges' -> Challenge]
         /\ ~challenges'[ch].open
         /\ \A d \in DOMAIN challenges \ {ch} : challenges'[d] = challenges[d]
<1>1. [challenges[ch] EXCEPT !.open = FALSE] \in Challenge
  BY DEF AccessTyped, AccessTypeOK, Challenge
<1> QED
  BY <1>1 DEF AccessTyped, AccessTypeOK, Challenge

\* The last attempt locks the factor, so the counters stay within their limit.
LEMMA EnterWrongCodeTyped ==
  ASSUME AccessTyped, NEW ch \in Challenges, EnterWrongCode(ch)
  PROVE  AccessTyped'
<1> DEFINE failed == Unlocked.failed + 1
           attempts == challenges[ch].attempts + 1
<1>1. failed \in 1..MaxAttempts
  BY UnlockedTyped, AccessAssumption DEF Factor
<1>2. ch \in DOMAIN challenges /\ challenges[ch] \in Challenge
      /\ challenges[ch].attempts < MaxAttempts
  BY DEF EnterWrongCode, InContext, Usable, AccessTyped, AccessTypeOK
<1>3. attempts \in 0..MaxAttempts
  BY <1>2, AccessAssumption DEF Challenge
<1>4. factor' \in Factor /\ AttemptsLeft'
  <2> DEFINE until == IF failed = MaxAttempts THEN now + LockTicks ELSE Unlocked.lockedUntil
  <2>1. factor' = [Unlocked EXCEPT !.failed = failed, !.lockedUntil = until]
    BY UnlockedTyped DEF EnterWrongCode, Factor
  <2>2. now + LockTicks \in Nat \ {0}
    BY AccessAssumption DEF AccessTyped
  <2>3. until \in Nat /\ (until = 0 => failed # MaxAttempts)
    BY <2>2, UnlockedTyped
  <2>4. failed \in 0..MaxAttempts /\ (until = 0 => failed < MaxAttempts)
    BY <1>1, <2>3, AccessAssumption
  <2> HIDE DEF failed, attempts, until
  <2>5. factor' \in Factor
    BY <2>1, <2>3, <2>4, UnlockedTyped DEF Factor
  <2>6. factor'.failed = failed /\ factor'.lockedUntil = until
    BY <2>1, UnlockedTyped DEF Factor
  <2> QED
    BY <2>4, <2>5, <2>6 DEF AttemptsLeft
<1>5. challenges' = [challenges EXCEPT ![ch].attempts = attempts,
                                       ![ch].open = attempts < MaxAttempts]
  BY DEF EnterWrongCode
<1> HIDE DEF failed, attempts
<1>6. [challenges[ch] EXCEPT !.attempts = attempts, !.open = attempts < MaxAttempts]
        \in Challenge
  <2> DEFINE open == attempts < MaxAttempts
  <2>1. open \in BOOLEAN
    OBVIOUS
  <2> HIDE DEF open
  <2>2. [challenges[ch] EXCEPT !.attempts = attempts, !.open = open] \in Challenge
    BY <1>2, <1>3, <2>1 DEF Challenge
  <2> QED
    BY <2>2 DEF open
<1>7. DOMAIN challenges' = DOMAIN challenges /\ challenges' \in [DOMAIN challenges' -> Challenge]
  BY <1>2, <1>5, <1>6 DEF AccessTyped, AccessTypeOK
<1> QED
  BY <1>4, <1>7 DEF EnterWrongCode, AccessTyped, AccessTypeOK

\* A right code keeps the types and adds one login, of the present secret.
LEMMA VerifyTyped ==
  ASSUME AccessTyped, NEW ch \in Challenges, NEW n, Verify(ch, n)
  PROVE  /\ AccessTyped'
         /\ DOMAIN logins' = DOMAIN logins \cup {ch}
         /\ logins'[ch].version = factor.version
         /\ logins'[ch].code = <<factor.secret, n>>
         /\ \A d \in DOMAIN logins \ {ch} : logins'[d] = logins[d]
<1>1. n \in Nat /\ n > factor.counter
  BY DEF Verify, CodeIsFresh, AccessTyped, AccessTypeOK, Factor
<1>2. ch \in DOMAIN challenges /\ challenges' = [challenges EXCEPT ![ch].open = FALSE]
  BY DEF Verify, InContext, Usable
<1>3. DOMAIN challenges' = DOMAIN challenges /\ challenges' \in [DOMAIN challenges' -> Challenge]
  BY <1>2, CloseTyped
<1>4. factor' \in Factor /\ AttemptsLeft'
  <2>1. 0 \in 0..MaxAttempts /\ 0 < MaxAttempts
    BY AccessAssumption
  <2>2. factor' = [Unlocked EXCEPT !.counter = n, !.failed = 0]
    BY DEF Verify
  <2>3. factor' \in Factor /\ factor'.failed = 0
    BY <1>1, <2>1, <2>2, UnlockedTyped DEF Factor
  <2> QED
    BY <2>1, <2>3 DEF AttemptsLeft
<1>5. factor.version \in Nat \ {0} /\ factor.secret \in Challenges
  BY DEF Verify, Enrolled, AccessTyped, AccessTypeOK, Factor
<1>6. logins \in [DOMAIN logins -> Login]
      /\ logins' = Issued(logins, ch, factor.version, <<factor.secret, n>>)
  BY DEF Verify, AccessTyped, AccessTypeOK
<1>7. /\ DOMAIN logins' = DOMAIN logins \cup {ch}
      /\ logins' \in [DOMAIN logins' -> Login]
      /\ logins'[ch].version = factor.version
      /\ logins'[ch].code = <<factor.secret, n>>
      /\ \A d \in DOMAIN logins \ {ch} : logins'[d] = logins[d]
  <2> DEFINE table == logins
             row == [version |-> factor.version, code |-> <<factor.secret, n>>,
                     expires |-> now + LoginTicks, revoked |-> FALSE]
  <2>1. table \in [DOMAIN logins -> Login] /\ logins' = Put(table, ch, row)
    BY <1>6 DEF Issued
  <2>2. row \in Login
    BY <1>1, <1>5, AccessAssumption DEF AccessTyped, Login
  <2> HIDE DEF table, row
  <2>3. /\ DOMAIN logins' = DOMAIN logins \cup {ch}
        /\ logins' \in [DOMAIN logins' -> Login]
        /\ logins'[ch] = row
        /\ \A d \in DOMAIN logins \ {ch} : logins'[d] = table[d]
    BY <2>1, <2>2 DEF Put
  <2> QED
    BY <2>3 DEF table, row
<1> QED
  BY <1>2, <1>3, <1>4, <1>7 DEF Verify, AccessTyped, AccessTypeOK

\* An enrolment keeps the types and adds one login, of the new secret and version.
LEMMA EnrollTyped ==
  ASSUME AccessTyped, NEW ch \in Challenges, NEW n, Enroll(ch, n)
  PROVE  /\ AccessTyped'
         /\ DOMAIN logins' = DOMAIN logins \cup {ch}
         /\ logins'[ch].version = factor.version + 1
         /\ logins'[ch].code = <<ch, n>>
         /\ \A d \in DOMAIN logins \ {ch} : logins'[d] = [logins[d] EXCEPT !.revoked = TRUE]
<1>1. n \in Nat
  BY DEF Enroll
<1>2. ch \in DOMAIN challenges /\ challenges' = [challenges EXCEPT ![ch].open = FALSE]
  BY DEF Enroll, InContext, Usable
<1>3. DOMAIN challenges' = DOMAIN challenges /\ challenges' \in [DOMAIN challenges' -> Challenge]
  BY <1>2, CloseTyped
<1>4. factor.version + 1 \in Nat \ {0}
  BY DEF AccessTyped, AccessTypeOK, Factor
<1>5. factor' \in Factor /\ AttemptsLeft'
  BY <1>1, <1>4, AccessAssumption DEF Enroll, Factor, AttemptsLeft
<1>6. /\ Revoked(logins) \in [DOMAIN logins -> Login]
      /\ \A d \in DOMAIN logins : Revoked(logins)[d] = [logins[d] EXCEPT !.revoked = TRUE]
      /\ logins' = Issued(Revoked(logins), ch, factor.version + 1, <<ch, n>>)
  BY RevokedTyped DEF Enroll
<1>7. /\ DOMAIN logins' = DOMAIN logins \cup {ch}
      /\ logins' \in [DOMAIN logins' -> Login]
      /\ logins'[ch].version = factor.version + 1
      /\ logins'[ch].code = <<ch, n>>
      /\ \A d \in DOMAIN logins \ {ch} : logins'[d] = Revoked(logins)[d]
  <2> DEFINE table == Revoked(logins)
             row == [version |-> factor.version + 1, code |-> <<ch, n>>,
                     expires |-> now + LoginTicks, revoked |-> FALSE]
  <2>1. table \in [DOMAIN logins -> Login] /\ logins' = Put(table, ch, row)
    BY <1>6 DEF Issued
  <2>2. row \in Login
    BY <1>1, <1>4, AccessAssumption DEF AccessTyped, Login
  <2> HIDE DEF table, row
  <2>3. /\ DOMAIN logins' = DOMAIN logins \cup {ch}
        /\ logins' \in [DOMAIN logins' -> Login]
        /\ logins'[ch] = row
        /\ \A d \in DOMAIN logins \ {ch} : logins'[d] = table[d]
    BY <2>1, <2>2 DEF Put
  <2> QED
    BY <2>3 DEF table, row
<1>8. recoveryCodes' \subseteq Challenges \X RecoveryCodes
  BY DEF Enroll
<1>9. AccessTyped'
  BY <1>2, <1>3, <1>5, <1>7, <1>8 DEF Enroll, AccessTyped, AccessTypeOK
<1> QED
  BY <1>6, <1>7, <1>9

\* A recovery keeps the types.
LEMMA RecoverTyped ==
  ASSUME AccessTyped, NEW ch \in Challenges, NEW new \in Challenges, NEW code \in recoveryCodes,
         Recover(ch, new, code)
  PROVE  AccessTyped'
<1>1. "REPLACE" \in Purpose /\ factor.version + 1 \in Nat \ {0}
  BY DEF Purpose, AccessTyped, AccessTypeOK, Factor
<1>2. challenges' = Opened(new, "REPLACE", factor.version + 1)
  BY DEF Recover
<1>3. /\ DOMAIN challenges' = DOMAIN challenges \cup {new}
      /\ challenges' \in [DOMAIN challenges' -> Challenge]
  BY <1>1, <1>2, OpenedTyped
<1>4. factor' = [Unlocked EXCEPT !.version = factor.version + 1, !.failed = 0]
  BY UnlockedTyped DEF Recover, Factor
<1>5. factor' \in Factor /\ AttemptsLeft'
  <2>1. 0 \in 0..MaxAttempts /\ 0 < MaxAttempts
    BY AccessAssumption
  <2>2. factor' \in Factor /\ factor'.failed = 0
    BY <1>1, <1>4, <2>1, UnlockedTyped DEF Factor
  <2> QED
    BY <2>1, <2>2 DEF AttemptsLeft
<1>6. logins' \in [DOMAIN logins' -> Login] /\ DOMAIN logins' = DOMAIN logins
  BY RevokedTyped DEF Recover
<1> QED
  BY <1>3, <1>5, <1>6 DEF Recover, AccessTyped, AccessTypeOK

\* A logout keeps the types.
LEMMA LogoutTyped ==
  ASSUME AccessTyped, NEW ch \in Challenges, Logout(ch)
  PROVE  AccessTyped'
<1>1. ch \in DOMAIN logins /\ [logins[ch] EXCEPT !.revoked = TRUE] \in Login
  BY DEF Logout, AccessTyped, AccessTypeOK, Login
<1>2. logins' \in [DOMAIN logins' -> Login] /\ DOMAIN logins' = DOMAIN logins
  BY <1>1 DEF Logout, AccessTyped, AccessTypeOK
<1> QED
  BY <1>2 DEF Logout, AccessTyped, AccessTypeOK, AttemptsLeft

\* Every step keeps the types.
LEMMA AccessStepTyped ==
  ASSUME AccessTyped, [AccessSteps]_accessNowVars
  PROVE  AccessTyped'
<1>1. CASE \E ch \in Challenges : SignIn(ch)
  BY <1>1, SignInTyped
<1>2. ASSUME NEW ch \in Challenges, Look(ch)
      PROVE  AccessTyped'
  BY <1>2, UnlockedTyped DEF Look, AccessTyped, AccessTypeOK, AttemptsLeft
<1>3. ASSUME NEW ch \in Challenges, Cancel(ch)
      PROVE  AccessTyped'
  <2>1. ch \in DOMAIN challenges /\ challenges' = [challenges EXCEPT ![ch].open = FALSE]
    BY <1>3 DEF Cancel, InContext, Usable
  <2>2. DOMAIN challenges' = DOMAIN challenges /\ challenges' \in [DOMAIN challenges' -> Challenge]
    BY <2>1, CloseTyped
  <2> QED
    BY <1>3, <2>2, UnlockedTyped DEF Cancel, AccessTyped, AccessTypeOK, AttemptsLeft
<1>4. CASE \E ch \in Challenges : EnterWrongCode(ch)
  BY <1>4, EnterWrongCodeTyped
<1>5. CASE \E ch \in Challenges : Logout(ch)
  BY <1>5, LogoutTyped
<1>6. CASE \E ch \in Challenges, n \in (now - 1)..(now + 1) : Verify(ch, n)
  BY <1>6, VerifyTyped
<1>7. CASE \E ch \in Challenges, n \in (now - 1)..(now + 1) : Enroll(ch, n)
  BY <1>7, EnrollTyped
<1>8. CASE \E ch, new \in Challenges, code \in recoveryCodes : Recover(ch, new, code)
  BY <1>8, RecoverTyped
<1>9. CASE (Tick /\ UNCHANGED accessVars) \/ UNCHANGED accessNowVars
  BY <1>9 DEF Tick, accessVars, accessNowVars, AccessTyped, AccessTypeOK, AttemptsLeft
<1> QED
  BY <1>1, <1>2, <1>3, <1>4, <1>5, <1>6, <1>7, <1>8, <1>9, AccessStepCases

\* The rows of an account's access have their types, and a factor that is not locked has attempts
\* left: customer_access/models.py and the counters of mfa.py, failure and factor.
THEOREM AccessIsTyped == AccessSpec => []AccessTyped
<1>1. now = 0 /\ AccessInit => AccessTyped
  BY AccessInitTyped
<1>2. AccessTyped /\ [AccessSteps]_accessNowVars => AccessTyped'
  BY AccessStepTyped
<1> QED
  BY <1>1, <1>2, PTL DEF AccessSpec, AccessSteps, accessNowVars

----------------------------------------------------------------------------
(* Logins. *)

\* A login that is not revoked and has not expired keeps being accepted while the factor stays.
LEMMA SameFactorMatches ==
  ASSUME AccessTyped, LoginsMatchFactor, factor' = Unlocked, UNCHANGED <<logins, now>>
  PROVE  LoginsMatchFactor'
<1>1. factor'.version = factor.version /\ factor'.secret = factor.secret
  BY UnlockedTyped
<1> QED
  BY <1>1 DEF LoginsMatchFactor, SignedIn, Enrolled

\* A right code keeps the version: the new login and the old ones carry it.
LEMMA VerifyMatches ==
  ASSUME AccessTyped, LoginsMatchFactor, NEW ch \in Challenges, NEW n, Verify(ch, n)
  PROVE  LoginsMatchFactor'
<1>1. factor' = [Unlocked EXCEPT !.counter = n, !.failed = 0] /\ now' = now
  BY DEF Verify
<1>2. factor'.version = factor.version /\ factor'.secret = factor.secret
  BY <1>1, UnlockedTyped DEF Factor
<1>3. /\ DOMAIN logins' = DOMAIN logins \cup {ch}
      /\ logins'[ch].version = factor.version
      /\ \A d \in DOMAIN logins \ {ch} : logins'[d] = logins[d]
  BY VerifyTyped
<1>4. Enrolled
  BY DEF Verify
<1>5. SUFFICES ASSUME NEW d \in DOMAIN logins', ~logins'[d].revoked, logins'[d].expires > now'
               PROVE  SignedIn(d)'
  BY DEF LoginsMatchFactor
<1>6. CASE d = ch
  BY <1>2, <1>3, <1>4, <1>5, <1>6 DEF SignedIn, Enrolled
<1>7. CASE d # ch
  BY <1>1, <1>2, <1>3, <1>5, <1>7 DEF LoginsMatchFactor, SignedIn, Enrolled
<1> QED
  BY <1>6, <1>7

\* An enrolment revokes every login but the one it gives.
LEMMA EnrollMatches ==
  ASSUME AccessTyped, NEW ch \in Challenges, NEW n, Enroll(ch, n)
  PROVE  LoginsMatchFactor'
<1>1. factor'.version = factor.version + 1 /\ factor'.secret = ch
  BY DEF Enroll
<1>2. ch # NoSecret
  BY AccessAssumption DEF NoSecret
<1>3. SUFFICES ASSUME NEW d \in DOMAIN logins', ~logins'[d].revoked, logins'[d].expires > now'
               PROVE  SignedIn(d)'
  BY DEF LoginsMatchFactor
<1>4. d = ch
  <2>1. \A e \in DOMAIN logins \ {ch} : logins'[e].revoked
    <3> SUFFICES ASSUME NEW e \in DOMAIN logins \ {ch}
                 PROVE  logins'[e].revoked
      OBVIOUS
    <3>1. logins[e] \in Login /\ logins'[e] = [logins[e] EXCEPT !.revoked = TRUE]
      BY EnrollTyped DEF AccessTyped, AccessTypeOK
    <3> QED
      BY <3>1 DEF Login
  <2> QED
    BY <1>3, <2>1, EnrollTyped
<1>5. logins'[ch].version = factor.version + 1
  BY EnrollTyped
<1> QED
  BY <1>1, <1>2, <1>3, <1>4, <1>5 DEF SignedIn, Enrolled

\* A recovery revokes every login.
LEMMA RecoverMatches ==
  ASSUME AccessTyped, NEW ch \in Challenges, NEW new \in Challenges, NEW code \in recoveryCodes,
         Recover(ch, new, code)
  PROVE  LoginsMatchFactor'
<1>1. \A d \in DOMAIN logins' : logins'[d].revoked
  <2> SUFFICES ASSUME NEW d \in DOMAIN logins'
               PROVE  logins'[d].revoked
    OBVIOUS
  <2>1. d \in DOMAIN logins /\ logins'[d] = [logins[d] EXCEPT !.revoked = TRUE]
    BY RevokedTyped DEF Recover
  <2>2. logins[d] \in Login
    BY <2>1 DEF AccessTyped, AccessTypeOK
  <2> QED
    BY <2>1, <2>2 DEF Login
<1> QED
  BY <1>1 DEF LoginsMatchFactor

\* A logout revokes one login and leaves the others as they are.
LEMMA LogoutMatches ==
  ASSUME AccessTyped, LoginsMatchFactor, NEW ch \in Challenges, Logout(ch)
  PROVE  LoginsMatchFactor'
<1>1. /\ UNCHANGED <<factor, now>>
      /\ logins[ch] \in Login /\ ch \in DOMAIN logins
      /\ DOMAIN logins' = DOMAIN logins
      /\ logins'[ch] = [logins[ch] EXCEPT !.revoked = TRUE]
      /\ \A d \in DOMAIN logins \ {ch} : logins'[d] = logins[d]
  BY DEF Logout, AccessTyped, AccessTypeOK
<1>2. logins'[ch].revoked
  BY <1>1 DEF Login
<1>3. SUFFICES ASSUME NEW d \in DOMAIN logins', ~logins'[d].revoked, logins'[d].expires > now'
               PROVE  SignedIn(d)'
  BY DEF LoginsMatchFactor
<1>4. d \in DOMAIN logins \ {ch} /\ logins'[d] = logins[d]
  BY <1>1, <1>2, <1>3
<1> QED
  BY <1>1, <1>3, <1>4 DEF LoginsMatchFactor, SignedIn, Enrolled

\* Time only makes logins expire.
LEMMA TickMatches ==
  ASSUME AccessTyped, LoginsMatchFactor, Tick, UNCHANGED accessVars
  PROVE  LoginsMatchFactor'
<1>1. now' = now + 1 /\ UNCHANGED <<factor, logins>>
  BY DEF Tick, accessVars
<1>2. \A d \in DOMAIN logins : logins[d].expires \in Nat
  BY DEF AccessTyped, AccessTypeOK, Login
<1> QED
  BY <1>1, <1>2 DEF LoginsMatchFactor, SignedIn, Enrolled, AccessTyped

\* Every step keeps the logins to the factor.
LEMMA StepMatches ==
  ASSUME AccessTyped, LoginsMatchFactor, [AccessSteps]_accessNowVars
  PROVE  LoginsMatchFactor'
<1>1. ASSUME NEW ch \in Challenges, SignIn(ch) \/ Look(ch) \/ Cancel(ch)
      PROVE  LoginsMatchFactor'
  BY <1>1, SameFactorMatches DEF SignIn, Look, Cancel
<1>2. ASSUME NEW ch \in Challenges, EnterWrongCode(ch)
      PROVE  LoginsMatchFactor'
  <2>1. factor'.version = factor.version /\ factor'.secret = factor.secret
    BY <1>2, UnlockedTyped DEF EnterWrongCode, Factor
  <2> QED
    BY <1>2, <2>1 DEF EnterWrongCode, LoginsMatchFactor, SignedIn, Enrolled
<1>3. CASE \E ch \in Challenges : Logout(ch)
  BY <1>3, LogoutMatches
<1>4. CASE \E ch \in Challenges, n \in (now - 1)..(now + 1) : Verify(ch, n)
  BY <1>4, VerifyMatches
<1>5. CASE \E ch \in Challenges, n \in (now - 1)..(now + 1) : Enroll(ch, n)
  BY <1>5, EnrollMatches
<1>6. CASE \E ch, new \in Challenges, code \in recoveryCodes : Recover(ch, new, code)
  BY <1>6, RecoverMatches
<1>7. CASE Tick /\ UNCHANGED accessVars
  BY <1>7, TickMatches
<1>8. CASE UNCHANGED accessNowVars
  BY <1>8 DEF accessNowVars, accessVars, LoginsMatchFactor, SignedIn, Enrolled
<1> QED
  BY <1>1, <1>2, <1>3, <1>4, <1>5, <1>6, <1>7, <1>8, AccessStepCases

\* No login outlives a recovery or a new enrolment: one that has neither been revoked nor expired
\* carries the version of the factor that is enrolled, at every request (mfa.py, recover and
\* revoke_sessions; service.py, identity).
THEOREM LoginsAreOfTheFactor == AccessSpec => []LoginsMatchFactor
<1>1. now = 0 /\ AccessInit => AccessTyped /\ LoginsMatchFactor
  <2>1. ASSUME AccessInit
        PROVE  LoginsMatchFactor
    BY <2>1 DEF AccessInit, Nothing, LoginsMatchFactor
  <2> QED
    BY <2>1, AccessInitTyped
<1>2. AccessTyped /\ LoginsMatchFactor /\ [AccessSteps]_accessNowVars
        => AccessTyped' /\ LoginsMatchFactor'
  BY AccessStepTyped, StepMatches
<1> QED
  BY <1>1, <1>2, PTL DEF AccessSpec, AccessSteps, accessNowVars

----------------------------------------------------------------------------
(* Wrong codes. *)

\* At most one challenge is open.
OneOpen ==
  \A c, d \in DOMAIN challenges : challenges[c].open /\ challenges[d].open => c = d

\* A lock lasts longer than any challenge that was open when it began, and without a lock the
\* challenge that is open has counted no wrong code that the factor has not.
Counted ==
  \A c \in DOMAIN challenges : challenges[c].open =>
    /\ challenges[c].expires <= now + ChallengeTicks
    /\ factor.lockedUntil # 0 => challenges[c].expires <= factor.lockedUntil
    /\ (factor.lockedUntil = 0 /\ challenges[c].expires > now) =>
         challenges[c].attempts <= factor.failed

CountInv == AccessTyped /\ OneOpen /\ Counted

\* While a challenge is answered there is no lock, not even one that has run out.
LEMMA NoLockInContext ==
  ASSUME CountInv, NEW ch, InContext(ch)
  PROVE  /\ factor.lockedUntil = 0
         /\ Unlocked = factor
         /\ ch \in DOMAIN challenges
         /\ challenges[ch].open
         /\ challenges[ch].expires <= now + ChallengeTicks
         /\ challenges[ch].attempts <= factor.failed
<1>1. /\ factor.lockedUntil \in Nat /\ now \in Nat
      /\ ch \in DOMAIN challenges /\ challenges[ch] \in Challenge /\ challenges[ch].open
      /\ challenges[ch].expires > now
      /\ factor.lockedUntil <= now
  BY DEF CountInv, AccessTyped, AccessTypeOK, Factor, InContext, Usable, Locked
<1>2. challenges[ch].expires \in Nat
  BY <1>1 DEF Challenge
<1>3. factor.lockedUntil = 0
  BY <1>1, <1>2 DEF CountInv, Counted
<1>4. Unlocked = factor
  BY <1>3 DEF Unlocked
<1> QED
  BY <1>1, <1>3, <1>4 DEF CountInv, Counted

\* A new challenge is the only one that is open, and has counted nothing.
LEMMA OpenedCounts ==
  ASSUME CountInv, NEW ch \in Challenges, NEW purpose \in Purpose, NEW version \in Nat \ {0},
         challenges' = Opened(ch, purpose, version), now' = now,
         factor'.lockedUntil = 0, factor'.failed \in Nat
  PROVE  OneOpen' /\ Counted'
<1>1. AccessTyped
  BY DEF CountInv
<1>2. /\ DOMAIN challenges' = DOMAIN challenges \cup {ch}
      /\ challenges'[ch].attempts = 0
      /\ challenges'[ch].expires = now + ChallengeTicks
      /\ \A d \in DOMAIN challenges \ {ch} : ~challenges'[d].open
  BY <1>1, OpenedTyped
<1>3. \A d \in DOMAIN challenges' : challenges'[d].open => d = ch
  BY <1>2
<1>4. OneOpen'
  BY <1>3 DEF OneOpen
<1>5. now + ChallengeTicks <= now' + ChallengeTicks
  BY <1>1, AccessAssumption DEF AccessTyped
<1> QED
  BY <1>2, <1>3, <1>4, <1>5 DEF Counted

\* Without an open challenge there is nothing to count.
LEMMA ClosedCounts ==
  ASSUME CountInv, NEW ch, InContext(ch), challenges' = [challenges EXCEPT ![ch].open = FALSE]
  PROVE  OneOpen' /\ Counted'
<1>1. AccessTyped /\ OneOpen /\ ch \in DOMAIN challenges /\ challenges[ch].open
  BY NoLockInContext DEF CountInv
<1>2. /\ DOMAIN challenges' = DOMAIN challenges
      /\ ~challenges'[ch].open
      /\ \A d \in DOMAIN challenges \ {ch} : challenges'[d] = challenges[d]
  BY <1>1, CloseTyped
<1>3. \A d \in DOMAIN challenges' : ~challenges'[d].open
  BY <1>1, <1>2 DEF OneOpen
<1> QED
  BY <1>3 DEF OneOpen, Counted

\* The factor counts a wrong code with the challenge, and a lock outlasts the challenge.
LEMMA EnterWrongCodeCounts ==
  ASSUME CountInv, NEW ch \in Challenges, EnterWrongCode(ch)
  PROVE  OneOpen' /\ Counted'
<1> DEFINE failed == factor.failed + 1
           attempts == challenges[ch].attempts + 1
<1>1. /\ factor.lockedUntil = 0 /\ Unlocked = factor
      /\ ch \in DOMAIN challenges /\ challenges[ch].open
      /\ challenges[ch].expires <= now + ChallengeTicks
      /\ challenges[ch].attempts <= factor.failed
  BY NoLockInContext DEF EnterWrongCode
<1>2. AccessTyped /\ OneOpen /\ factor \in Factor /\ challenges[ch] \in Challenge
  BY <1>1 DEF CountInv, AccessTyped, AccessTypeOK
<1>3. attempts <= failed /\ failed \in Nat /\ attempts \in Nat
  BY <1>1, <1>2, AccessAssumption DEF Factor, Challenge
<1>4. /\ factor'.failed = failed
      /\ factor'.lockedUntil = IF failed = MaxAttempts THEN now + LockTicks ELSE 0
  BY <1>1, <1>2 DEF EnterWrongCode, Factor
<1>5. /\ DOMAIN challenges' = DOMAIN challenges
      /\ challenges'[ch] = [challenges[ch] EXCEPT !.attempts = attempts,
                                                 !.open = attempts < MaxAttempts]
      /\ \A d \in DOMAIN challenges \ {ch} : challenges'[d] = challenges[d]
      /\ now' = now
  BY <1>1, <1>2 DEF EnterWrongCode, AccessTyped, AccessTypeOK
<1> HIDE DEF failed, attempts
<1>6. /\ challenges'[ch].attempts = attempts
      /\ challenges'[ch].expires = challenges[ch].expires
  BY <1>2, <1>5 DEF Challenge
<1>7. \A d \in DOMAIN challenges' : challenges'[d].open => d = ch
  BY <1>1, <1>2, <1>5 DEF OneOpen
<1>8. /\ now \in Nat /\ challenges[ch].expires \in Nat
      /\ now + ChallengeTicks <= now + LockTicks
  BY <1>2, AccessAssumption DEF AccessTyped, Challenge
<1>9. factor'.lockedUntil # 0 => challenges[ch].expires <= factor'.lockedUntil
  BY <1>1, <1>4, <1>8, AccessAssumption
<1>10. OneOpen'
  BY <1>7 DEF OneOpen
<1>11. Counted'
  <2> SUFFICES /\ challenges'[ch].expires <= now' + ChallengeTicks
               /\ factor'.lockedUntil # 0 => challenges'[ch].expires <= factor'.lockedUntil
               /\ challenges'[ch].attempts <= factor'.failed
    BY <1>7 DEF Counted
  <2> QED
    BY <1>1, <1>3, <1>4, <1>5, <1>6, <1>9
<1> QED
  BY <1>10, <1>11

\* Time makes challenges and locks expire, and counts nothing.
LEMMA TickCounts ==
  ASSUME CountInv, Tick, UNCHANGED accessVars
  PROVE  OneOpen' /\ Counted'
<1>1. now' = now + 1 /\ UNCHANGED <<factor, challenges>> /\ now \in Nat
  BY DEF Tick, accessVars, CountInv, AccessTyped
<1>2. \A c \in DOMAIN challenges : challenges[c].expires \in Nat
  BY DEF CountInv, AccessTyped, AccessTypeOK, Challenge
<1> QED
  BY <1>1, <1>2, AccessAssumption DEF CountInv, OneOpen, Counted

\* Every step keeps the count.
LEMMA StepCounts ==
  ASSUME CountInv, [AccessSteps]_accessNowVars
  PROVE  CountInv'
<1>1. AccessTyped /\ AccessTyped'
  BY AccessStepTyped DEF CountInv
<1> SUFFICES OneOpen' /\ Counted'
  BY <1>1 DEF CountInv
<1>2. ASSUME NEW ch \in Challenges, SignIn(ch)
      PROVE  OneOpen' /\ Counted'
  <2> DEFINE purpose == IF Enrolled THEN "VERIFY" ELSE "ENROLL"
  <2>1. purpose \in Purpose /\ factor.version \in Nat \ {0}
    BY <1>1 DEF Purpose, AccessTyped, AccessTypeOK, Factor
  <2>2. challenges' = Opened(ch, purpose, factor.version) /\ now' = now
    BY <1>2 DEF SignIn
  <2>3. factor'.lockedUntil = 0 /\ factor'.failed \in Nat
    BY <1>1, <1>2, UnlockedTyped DEF SignIn, Factor
  <2> HIDE DEF purpose
  <2> QED
    BY <2>1, <2>2, <2>3, OpenedCounts
<1>3. ASSUME NEW ch \in Challenges, Look(ch)
      PROVE  OneOpen' /\ Counted'
  <2>1. UNCHANGED <<factor, challenges, now>>
    BY <1>3, NoLockInContext DEF Look
  <2> QED
    BY <2>1 DEF CountInv, OneOpen, Counted
<1>4. ASSUME NEW ch \in Challenges, NEW n, Cancel(ch) \/ Verify(ch, n) \/ Enroll(ch, n)
      PROVE  OneOpen' /\ Counted'
  <2>1. InContext(ch) /\ challenges' = [challenges EXCEPT ![ch].open = FALSE]
    BY <1>4 DEF Cancel, Verify, Enroll
  <2> QED
    BY <2>1, ClosedCounts
<1>5. CASE \E ch \in Challenges : EnterWrongCode(ch)
  BY <1>5, EnterWrongCodeCounts
<1>6. ASSUME NEW ch \in Challenges, Logout(ch)
      PROVE  OneOpen' /\ Counted'
  BY <1>6 DEF Logout, CountInv, OneOpen, Counted
<1>7. ASSUME NEW ch \in Challenges, NEW new \in Challenges, NEW code, Recover(ch, new, code)
      PROVE  OneOpen' /\ Counted'
  <2>1. "REPLACE" \in Purpose /\ factor.version + 1 \in Nat \ {0}
    BY <1>1 DEF Purpose, AccessTyped, AccessTypeOK, Factor
  <2>2. challenges' = Opened(new, "REPLACE", factor.version + 1) /\ now' = now
    BY <1>7 DEF Recover
  <2>3. factor'.lockedUntil = 0 /\ factor'.failed \in Nat
    BY <1>1, <1>7, UnlockedTyped DEF Recover, Factor
  <2> QED
    BY <2>1, <2>2, <2>3, OpenedCounts
<1>8. CASE Tick /\ UNCHANGED accessVars
  BY <1>8, TickCounts
<1>9. CASE UNCHANGED accessNowVars
  BY <1>9 DEF accessNowVars, accessVars, CountInv, OneOpen, Counted
<1> QED
  BY <1>2, <1>3, <1>4, <1>5, <1>6, <1>7, <1>8, <1>9, AccessStepCases

\* Signing in again, in however many browsers, gives no wrong code for free: what an open
\* challenge has counted, the factor has counted towards its lock (mfa.py, factor, start and
\* failure).
THEOREM WrongCodesCount == AccessSpec => []GuessesAreCounted
<1>1. now = 0 /\ AccessInit => CountInv
  <2>1. ASSUME AccessInit
        PROVE  OneOpen /\ Counted
    BY <2>1 DEF AccessInit, Nothing, OneOpen, Counted
  <2> QED
    BY <2>1, AccessInitTyped DEF CountInv
<1>2. CountInv /\ [AccessSteps]_accessNowVars => CountInv'
  BY StepCounts
<1>3. CountInv => GuessesAreCounted
  BY NoLockInContext DEF GuessesAreCounted
<1> QED
  BY <1>1, <1>2, <1>3, PTL DEF AccessSpec, AccessSteps, accessNowVars

----------------------------------------------------------------------------
(* Codes. *)

\* The challenge ch was answered, cancelled, replaced or used up.
ChallengeClosed(ch) == ch \in DOMAIN challenges /\ ~challenges[ch].open

\* A secret comes from a challenge that is closed, so that no other gets its name, and the codes
\* used with the present one are not later than its counter.
CodesAreSpent ==
  /\ Enrolled => ChallengeClosed(factor.secret)
  /\ \A ch \in DOMAIN logins :
       /\ ChallengeClosed(ch)
       /\ ChallengeClosed(logins[ch].code[1])
       /\ logins[ch].code[1] = factor.secret => logins[ch].code[2] <= factor.counter

CodesInv == AccessTyped /\ CodesAreSpent /\ CodesWorkOnce

\* A challenge that is closed stays closed.
LEMMA ClosedChallengesStayClosed ==
  ASSUME AccessTyped, [AccessSteps]_accessNowVars, NEW d, ChallengeClosed(d)
  PROVE  ChallengeClosed(d)'
<1>1. ASSUME NEW ch \in Challenges, SignIn(ch)
      PROVE  ChallengeClosed(d)'
  <2> DEFINE purpose == IF Enrolled THEN "VERIFY" ELSE "ENROLL"
  <2>1. purpose \in Purpose /\ factor.version \in Nat \ {0}
    BY DEF Purpose, AccessTyped, AccessTypeOK, Factor
  <2>2. challenges' = Opened(ch, purpose, factor.version) /\ ch \notin DOMAIN challenges
    BY <1>1 DEF SignIn
  <2> HIDE DEF purpose
  <2> QED
    BY <2>1, <2>2, OpenedTyped DEF ChallengeClosed
<1>2. ASSUME NEW ch \in Challenges, NEW n, Cancel(ch) \/ Verify(ch, n) \/ Enroll(ch, n)
      PROVE  ChallengeClosed(d)'
  <2>1. ch \in DOMAIN challenges /\ challenges' = [challenges EXCEPT ![ch].open = FALSE]
    BY <1>2 DEF Cancel, Verify, Enroll, InContext, Usable
  <2> QED
    BY <2>1, CloseTyped DEF ChallengeClosed
<1>3. ASSUME NEW ch \in Challenges, EnterWrongCode(ch)
      PROVE  ChallengeClosed(d)'
  <2>1. ch # d
    BY <1>3 DEF EnterWrongCode, InContext, Usable, ChallengeClosed
  <2> QED
    BY <1>3, <2>1 DEF EnterWrongCode, AccessTyped, AccessTypeOK, ChallengeClosed
<1>4. ASSUME NEW ch \in Challenges, NEW new \in Challenges, NEW code, Recover(ch, new, code)
      PROVE  ChallengeClosed(d)'
  <2>1. "REPLACE" \in Purpose /\ factor.version + 1 \in Nat \ {0}
    BY DEF Purpose, AccessTyped, AccessTypeOK, Factor
  <2>2. challenges' = Opened(new, "REPLACE", factor.version + 1) /\ new \notin DOMAIN challenges
    BY <1>4 DEF Recover
  <2>3. /\ DOMAIN challenges' = DOMAIN challenges \cup {new}
        /\ \A e \in DOMAIN challenges \ {new} : ~challenges'[e].open
    BY <2>1, <2>2, OpenedTyped
  <2> QED
    BY <2>2, <2>3 DEF ChallengeClosed
<1>5. ASSUME UNCHANGED challenges
      PROVE  ChallengeClosed(d)'
  BY <1>5 DEF ChallengeClosed
<1> QED
  BY <1>1, <1>2, <1>3, <1>4, <1>5, AccessStepCases DEF Look, Logout, accessVars, accessNowVars

\* A step that issues no login and changes neither the secret nor its counter spends no code.
LEMMA NothingIssued ==
  ASSUME CodesInv, [AccessSteps]_accessNowVars,
         factor'.secret = factor.secret, factor'.counter = factor.counter,
         DOMAIN logins' = DOMAIN logins,
         \A ch \in DOMAIN logins : logins'[ch].code = logins[ch].code
  PROVE  CodesAreSpent' /\ CodesWorkOnce'
<1>1. \A d : ChallengeClosed(d) => ChallengeClosed(d)'
  BY ClosedChallengesStayClosed DEF CodesInv
<1>2. CodesAreSpent'
  BY <1>1 DEF CodesInv, CodesAreSpent, Enrolled
<1>3. CodesWorkOnce'
  BY DEF CodesInv, CodesWorkOnce
<1> QED
  BY <1>2, <1>3

\* A right code is later than every code of its secret that was used.
LEMMA VerifySpends ==
  ASSUME CodesInv, [AccessSteps]_accessNowVars, NEW ch \in Challenges, NEW n, Verify(ch, n)
  PROVE  CodesAreSpent' /\ CodesWorkOnce'
<1>1. /\ \A d : ChallengeClosed(d) => ChallengeClosed(d)'
      /\ AccessTyped /\ CodesAreSpent /\ CodesWorkOnce
  BY ClosedChallengesStayClosed DEF CodesInv
<1>2. /\ ch \in DOMAIN challenges /\ challenges[ch].open
      /\ challenges' = [challenges EXCEPT ![ch].open = FALSE]
      /\ Enrolled
  BY DEF Verify, InContext, Usable
<1>3. n \in Int /\ n > factor.counter /\ factor.counter \in Nat
  BY <1>1 DEF Verify, CodeIsFresh, AccessTyped, AccessTypeOK, Factor
<1>4. factor'.secret = factor.secret /\ factor'.counter = n
  <2>1. factor' = [Unlocked EXCEPT !.counter = n, !.failed = 0]
    BY DEF Verify
  <2> QED
    BY <1>1, <2>1, UnlockedTyped DEF Factor
<1>5. /\ DOMAIN logins' = DOMAIN logins \cup {ch}
      /\ logins'[ch].code = <<factor.secret, n>>
      /\ \A d \in DOMAIN logins \ {ch} : logins'[d] = logins[d]
  BY <1>1, VerifyTyped
<1>6. ch \notin DOMAIN logins
  BY <1>1, <1>2 DEF CodesAreSpent, ChallengeClosed
<1>7. \A d \in DOMAIN logins :
        /\ logins'[d].code = logins[d].code
        /\ logins[d].code \in Challenges \X Nat
        /\ logins[d].code[1] = factor.secret => logins[d].code[2] <= factor.counter
  BY <1>1, <1>5, <1>6 DEF CodesAreSpent, AccessTyped, AccessTypeOK, Login
<1>8. ChallengeClosed(ch)' /\ ChallengeClosed(factor.secret)'
  <2>1. ChallengeClosed(ch)'
    BY <1>1, <1>2, CloseTyped DEF ChallengeClosed
  <2>2. ChallengeClosed(factor.secret)
    BY <1>1, <1>2 DEF CodesAreSpent
  <2> QED
    BY <1>1, <1>4, <2>1, <2>2
<1>9. CodesAreSpent'
  <2>1. (Enrolled => ChallengeClosed(factor.secret))'
    BY <1>4, <1>8
  <2>2. ASSUME NEW d \in DOMAIN logins'
        PROVE  /\ ChallengeClosed(d)'
               /\ ChallengeClosed(logins[d].code[1])'
               /\ logins'[d].code[1] = factor'.secret => logins'[d].code[2] <= factor'.counter
    <3>1. CASE d = ch
      BY <1>3, <1>4, <1>5, <1>8, <3>1
    <3>2. CASE d # ch
      <4>1. d \in DOMAIN logins
        BY <1>5, <3>2
      <4>2. ChallengeClosed(d) /\ ChallengeClosed(logins[d].code[1])
        BY <1>1, <4>1 DEF CodesAreSpent
      <4>3. logins'[d].code[1] = factor'.secret => logins'[d].code[2] <= factor'.counter
        BY <1>3, <1>4, <1>7, <4>1
      <4> QED
        BY <1>1, <1>7, <4>1, <4>2, <4>3
    <3> QED
      BY <3>1, <3>2
  <2> QED
    BY <2>1, <2>2 DEF CodesAreSpent
<1>10. CodesWorkOnce'
  <2>1. \A d \in DOMAIN logins : logins[d].code # <<factor.secret, n>>
    BY <1>3, <1>7
  <2> QED
    BY <1>1, <1>5, <1>7, <2>1 DEF CodesWorkOnce
<1> QED
  BY <1>9, <1>10

\* The code that enrols a secret is the first one of that secret.
LEMMA EnrollSpends ==
  ASSUME CodesInv, [AccessSteps]_accessNowVars, NEW ch \in Challenges, NEW n, Enroll(ch, n)
  PROVE  CodesAreSpent' /\ CodesWorkOnce'
<1>1. /\ \A d : ChallengeClosed(d) => ChallengeClosed(d)'
      /\ AccessTyped /\ CodesAreSpent /\ CodesWorkOnce
  BY ClosedChallengesStayClosed DEF CodesInv
<1>2. /\ ch \in DOMAIN challenges /\ challenges[ch].open
      /\ challenges' = [challenges EXCEPT ![ch].open = FALSE]
      /\ n \in Nat
      /\ factor'.secret = ch /\ factor'.counter = n
  BY DEF Enroll, InContext, Usable
<1>3. /\ DOMAIN logins' = DOMAIN logins \cup {ch}
      /\ logins'[ch].code = <<ch, n>>
      /\ \A d \in DOMAIN logins \ {ch} : logins'[d] = [logins[d] EXCEPT !.revoked = TRUE]
  BY <1>1, EnrollTyped
<1>4. ch \notin DOMAIN logins
  BY <1>1, <1>2 DEF CodesAreSpent, ChallengeClosed
<1>5. ASSUME NEW d \in DOMAIN logins
      PROVE  /\ logins'[d].code = logins[d].code
             /\ logins[d].code[1] # ch
  <2>1. logins[d] \in Login
    BY <1>1 DEF AccessTyped, AccessTypeOK
  <2>2. logins'[d].code = logins[d].code
    BY <1>3, <1>4, <2>1 DEF Login
  <2>3. logins[d].code[1] # ch
    BY <1>1, <1>2 DEF CodesAreSpent, ChallengeClosed
  <2> QED
    BY <2>2, <2>3
<1>6. ChallengeClosed(ch)'
  BY <1>1, <1>2, CloseTyped DEF ChallengeClosed
<1>7. CodesAreSpent'
  <2>1. ASSUME NEW d \in DOMAIN logins'
        PROVE  /\ ChallengeClosed(d)'
               /\ ChallengeClosed(logins[d].code[1])'
               /\ logins'[d].code[1] = factor'.secret => logins'[d].code[2] <= factor'.counter
    <3>1. CASE d = ch
      BY <1>2, <1>3, <1>6, <3>1
    <3>2. CASE d # ch
      <4>1. d \in DOMAIN logins
        BY <1>3, <3>2
      <4>2. ChallengeClosed(d) /\ ChallengeClosed(logins[d].code[1])
        BY <1>1, <4>1 DEF CodesAreSpent
      <4> QED
        BY <1>1, <1>2, <1>5, <4>1, <4>2
    <3> QED
      BY <3>1, <3>2
  <2> QED
    BY <1>2, <1>6, <2>1 DEF CodesAreSpent
<1>8. CodesWorkOnce'
  <2>1. \A d \in DOMAIN logins : logins[d].code # <<ch, n>>
    BY <1>5
  <2> QED
    BY <1>1, <1>3, <1>5, <2>1 DEF CodesWorkOnce
<1> QED
  BY <1>7, <1>8

\* Every step keeps the codes apart.
LEMMA StepSpends ==
  ASSUME CodesInv, [AccessSteps]_accessNowVars
  PROVE  CodesInv'
<1>1. AccessTyped /\ AccessTyped'
  BY AccessStepTyped DEF CodesInv
<1> SUFFICES CodesAreSpent' /\ CodesWorkOnce'
  BY <1>1 DEF CodesInv
<1>2. ASSUME NEW ch \in Challenges, SignIn(ch) \/ Look(ch) \/ Cancel(ch)
      PROVE  CodesAreSpent' /\ CodesWorkOnce'
  <2>1. factor' = Unlocked /\ logins' = logins
    BY <1>2 DEF SignIn, Look, Cancel
  <2> QED
    BY <1>1, <2>1, UnlockedTyped, NothingIssued
<1>3. ASSUME NEW ch \in Challenges, EnterWrongCode(ch)
      PROVE  CodesAreSpent' /\ CodesWorkOnce'
  <2>1. /\ factor'.secret = factor.secret /\ factor'.counter = factor.counter
        /\ logins' = logins
    BY <1>1, <1>3, UnlockedTyped DEF EnterWrongCode, Factor
  <2> QED
    BY <2>1, NothingIssued
<1>4. ASSUME NEW ch \in Challenges, Logout(ch)
      PROVE  CodesAreSpent' /\ CodesWorkOnce'
  <2>1. ch \in DOMAIN logins /\ logins[ch] \in Login
        /\ logins' = [logins EXCEPT ![ch].revoked = TRUE] /\ factor' = factor
    BY <1>1, <1>4 DEF Logout, AccessTyped, AccessTypeOK
  <2>2. \A d \in DOMAIN logins : logins'[d].code = logins[d].code
    BY <2>1 DEF Login
  <2> QED
    BY <2>1, <2>2, NothingIssued
<1>5. CASE \E ch \in Challenges, n \in (now - 1)..(now + 1) : Verify(ch, n)
  BY <1>5, VerifySpends
<1>6. CASE \E ch \in Challenges, n \in (now - 1)..(now + 1) : Enroll(ch, n)
  BY <1>6, EnrollSpends
<1>7. ASSUME NEW ch \in Challenges, NEW new \in Challenges, NEW code, Recover(ch, new, code)
      PROVE  CodesAreSpent' /\ CodesWorkOnce'
  <2>1. factor'.secret = factor.secret /\ factor'.counter = factor.counter
    BY <1>1, <1>7, UnlockedTyped DEF Recover, Factor
  <2>2. DOMAIN logins' = DOMAIN logins
    BY <1>1, <1>7, RevokedTyped DEF Recover
  <2>3. ASSUME NEW d \in DOMAIN logins
        PROVE  logins'[d].code = logins[d].code
    <3>1. logins[d] \in Login /\ logins'[d] = [logins[d] EXCEPT !.revoked = TRUE]
      BY <1>1, <1>7, RevokedTyped DEF Recover, AccessTyped, AccessTypeOK
    <3> QED
      BY <3>1 DEF Login
  <2> QED
    BY <2>1, <2>2, <2>3, NothingIssued
<1>8. CASE (Tick /\ UNCHANGED accessVars) \/ UNCHANGED accessNowVars
  BY <1>8, NothingIssued DEF accessVars, accessNowVars
<1> QED
  BY <1>2, <1>3, <1>4, <1>5, <1>6, <1>7, <1>8, AccessStepCases

\* No code of an authenticator gives two logins: not in two browsers that answer at once, not
\* after a recovery, and not as one of an older secret (mfa.py, verify and recover;
\* mfa_crypto.py, valid_totp_counter).
THEOREM CodesAreSingleUse == AccessSpec => []CodesWorkOnce
<1>1. now = 0 /\ AccessInit => CodesInv
  <2>1. ASSUME AccessInit
        PROVE  CodesAreSpent /\ CodesWorkOnce
    BY <2>1 DEF AccessInit, Nothing, NoSecret, Enrolled, CodesAreSpent, CodesWorkOnce
  <2> QED
    BY <2>1, AccessInitTyped DEF CodesInv
<1>2. CodesInv /\ [AccessSteps]_accessNowVars => CodesInv'
  BY StepSpends
<1>3. CodesInv => CodesWorkOnce
  BY DEF CodesInv
<1> QED
  BY <1>1, <1>2, <1>3, PTL DEF AccessSpec, AccessSteps, accessNowVars

----------------------------------------------------------------------------
(* All of it, for the modules that compose the access with other services. *)

AccessInv == CountInv /\ CodesInv /\ LoginsMatchFactor

\* A new account.
LEMMA AccessStarts ==
  ASSUME now = 0, AccessInit
  PROVE  AccessInv
<1>1. AccessTyped
  BY AccessInitTyped
<1>2. challenges = << >> /\ logins = << >> /\ ~Enrolled
  BY DEF AccessInit, Nothing, Enrolled
<1> QED
  BY <1>1, <1>2 DEF AccessInv, CountInv, OneOpen, Counted, CodesInv, CodesAreSpent,
                    CodesWorkOnce, LoginsMatchFactor

\* Every step of the customer's browsers and of the clock.
LEMMA StepKeepsAccess ==
  ASSUME AccessInv, [AccessSteps]_accessNowVars
  PROVE  AccessInv'
  BY StepCounts, StepSpends, StepMatches DEF AccessInv, CountInv

\* What the invariant means.
LEMMA AccessIsSafe ==
  ASSUME AccessInv
  PROVE  AccessTypeOK /\ GuessesAreCounted /\ CodesWorkOnce /\ LoginsMatchFactor
  BY NoLockInContext DEF AccessInv, CountInv, CodesInv, AccessTyped, GuessesAreCounted
=============================================================================
