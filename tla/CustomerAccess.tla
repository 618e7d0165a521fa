--------------------------- MODULE CustomerAccess ---------------------------
(***************************************************************************)
(* How a customer signs in: customer_access/service.py, mfa.py and         *)
(* mfa_crypto.py, for one account, since accounts share no row.            *)
(*                                                                         *)
(* The right password opens a challenge; an authenticator's code answers   *)
(* it and gives a login.  Every handler holds the row of the account's     *)
(* factor until its transaction ends, so each is one step; what comes in   *)
(* between are the steps of the customer's other browsers.                 *)
(*                                                                         *)
(* A secret is named by the challenge it was made for.  Its code at tick n *)
(* is the pair of both; other digits are a wrong code.  The limit on       *)
(* attempts to sign in is left out: it only ever refuses.                  *)
(***************************************************************************)
EXTENDS Tables

CONSTANTS
  Challenges,
  MaxAttempts,    \* wrong codes that lock a factor or close a challenge: 5
  ChallengeTicks, \* MFA_CHALLENGE_SECONDS
  LockTicks,      \* MFA_LOCK_SECONDS
  LoginTicks,     \* SESSION_LIFETIME_SECONDS
  RecoveryCodes   \* recovery codes given at each enrolment, numbered

ASSUME AccessAssumption ==
  /\ MaxAttempts \in Nat \ {0} /\ ChallengeTicks \in Nat \ {0} /\ LoginTicks \in Nat \ {0}
  /\ LockTicks \in Nat /\ LockTicks >= ChallengeTicks
  /\ "none" \notin Challenges

VARIABLES
  factor,        \* [secret, version, counter, failed, lockedUntil]
  challenges,    \* challenge -> [purpose, version, attempts, expires, open]
  logins,        \* challenge it came from -> [version, code, expires, revoked]
  recoveryCodes  \* recovery codes not used yet

accessVars == <<factor, challenges, logins, recoveryCodes>>

Purpose == {"ENROLL", "VERIFY", "REPLACE"}

NoSecret == "none"

\* lockedUntil is 0 when there is no lock.
Factor ==
  [secret : Challenges \cup {NoSecret}, version : Nat \ {0}, counter : Nat,
   failed : 0..MaxAttempts, lockedUntil : Nat]

Challenge ==
  [purpose : Purpose, version : Nat \ {0}, attempts : 0..MaxAttempts, expires : Nat,
   open : BOOLEAN]

Login ==
  [version : Nat \ {0}, code : Challenges \X Nat, expires : Nat, revoked : BOOLEAN]

AccessTypeOK ==
  /\ factor \in Factor
  /\ DOMAIN challenges \subseteq Challenges
  /\ challenges \in [DOMAIN challenges -> Challenge]
  /\ DOMAIN logins \subseteq DOMAIN challenges
  /\ logins \in [DOMAIN logins -> Login]
  /\ recoveryCodes \subseteq Challenges \X RecoveryCodes

AccessInit ==
  /\ factor = [secret |-> NoSecret, version |-> 1, counter |-> 0, failed |-> 0,
               lockedUntil |-> 0]
  /\ challenges = Nothing
  /\ logins = Nothing
  /\ recoveryCodes = {}

Enrolled == factor.secret # NoSecret

----------------------------------------------------------------------------
(* The factor and its challenges. *)

Locked == factor.lockedUntil > now

\* Mutant of Unlocked: a lock that has run out leaves the counter where it was.
UnlockedAsCounted == factor

\* factor(): the row as the handlers find it, when it is not locked.
Unlocked ==
  IF factor.lockedUntil = 0 THEN factor
  ELSE [factor EXCEPT !.failed = 0, !.lockedUntil = 0]

\* Mutant of Opened: the challenge of another browser stays open.
OpenedBeside(ch, purpose, version) ==
  Put(challenges, ch, [purpose |-> purpose, version |-> version, attempts |-> 0,
                       expires |-> now + ChallengeTicks, open |-> TRUE])

\* start(): the challenges after a new one has taken the place of all others.
Opened(ch, purpose, version) ==
  Put([d \in DOMAIN challenges |-> [challenges[d] EXCEPT !.open = FALSE]], ch,
      [purpose |-> purpose, version |-> version, attempts |-> 0,
       expires |-> now + ChallengeTicks, open |-> TRUE])

\* signup() and login(), with the right password.
SignIn(ch) ==
  /\ ch \in Challenges \ DOMAIN challenges
  /\ ~Locked
  /\ factor' = Unlocked
  /\ challenges' = Opened(ch, IF Enrolled THEN "VERIFY" ELSE "ENROLL", factor.version)
  /\ UNCHANGED <<logins, recoveryCodes, now>>

\* A challenge that context() takes.
Usable(ch) ==
  /\ ch \in DOMAIN challenges
  /\ challenges[ch].open
  /\ challenges[ch].expires > now
  /\ challenges[ch].attempts < MaxAttempts
  /\ challenges[ch].version = factor.version
  /\ challenges[ch].purpose = "ENROLL" => ~Enrolled

InContext(ch) == ~Locked /\ Usable(ch)

\* status() and setup() show what there is.
Look(ch) ==
  /\ InContext(ch)
  /\ factor' = Unlocked
  /\ UNCHANGED <<challenges, logins, recoveryCodes, now>>

Cancel(ch) ==
  /\ InContext(ch)
  /\ factor' = Unlocked
  /\ challenges' = [challenges EXCEPT ![ch].open = FALSE]
  /\ UNCHANGED <<logins, recoveryCodes, now>>

\* failure(), of verify() or recover(): both rows count it, and it is committed.
EnterWrongCode(ch) ==
  LET failed == Unlocked.failed + 1
      attempts == challenges[ch].attempts + 1
  IN /\ InContext(ch)
     /\ factor' = [Unlocked EXCEPT
          !.failed = failed,
          !.lockedUntil = IF failed = MaxAttempts THEN now + LockTicks ELSE @]
     /\ challenges' = [challenges EXCEPT
          ![ch].attempts = attempts,
          ![ch].open = attempts < MaxAttempts]
     /\ UNCHANGED <<logins, recoveryCodes, now>>

----------------------------------------------------------------------------
(* Codes. *)

Revoked(table) == [d \in DOMAIN table |-> [table[d] EXCEPT !.revoked = TRUE]]

\* _issue_session()
Issued(table, ch, version, code) ==
  Put(table, ch, [version |-> version, code |-> code, expires |-> now + LoginTicks,
                  revoked |-> FALSE])

\* Mutant of CodeIsFresh: the last code is good for as long as it is shown.
CodeIsShown(n) == n \in (now - 1)..(now + 1) /\ n >= factor.counter

\* valid_totp_counter(): the codes of the ticks around now, each later than the last one used.
CodeIsFresh(n) == n \in (now - 1)..(now + 1) /\ n > factor.counter

\* verify() of a customer with an authenticator.
Verify(ch, n) ==
  /\ InContext(ch)
  /\ challenges[ch].purpose = "VERIFY"
  /\ Enrolled
  /\ CodeIsFresh(n)
  /\ factor' = [Unlocked EXCEPT !.counter = n, !.failed = 0]
  /\ challenges' = [challenges EXCEPT ![ch].open = FALSE]
  /\ logins' = Issued(logins, ch, factor.version, <<factor.secret, n>>)
  /\ UNCHANGED <<recoveryCodes, now>>

\* verify() of a customer who sets an authenticator up, or replaces a lost one.
Enroll(ch, n) ==
  LET version == factor.version + 1
  IN /\ InContext(ch)
     /\ challenges[ch].purpose \in {"ENROLL", "REPLACE"}
     /\ n \in Nat \cap (now - 1)..(now + 1)
     /\ factor' = [secret |-> ch, version |-> version, counter |-> n, failed |-> 0,
                   lockedUntil |-> 0]
     /\ challenges' = [challenges EXCEPT ![ch].open = FALSE]
     /\ logins' = Issued(Revoked(logins), ch, version, <<ch, n>>)
     /\ recoveryCodes' = {ch} \X RecoveryCodes
     /\ UNCHANGED now

\* Mutant of Recover: who is signed in stays so.
RecoverAlone(ch, new, code) ==
  /\ InContext(ch)
  /\ challenges[ch].purpose = "VERIFY"
  /\ new \in Challenges \ DOMAIN challenges
  /\ code \in recoveryCodes
  /\ recoveryCodes' = recoveryCodes \ {code}
  /\ factor' = [Unlocked EXCEPT !.version = @ + 1, !.failed = 0]
  /\ challenges' = Opened(new, "REPLACE", factor.version + 1)
  /\ UNCHANGED <<logins, now>>

\* recover(): the secret stays until a new one is enrolled.
Recover(ch, new, code) ==
  /\ InContext(ch)
  /\ challenges[ch].purpose = "VERIFY"
  /\ new \in Challenges \ DOMAIN challenges
  /\ code \in recoveryCodes
  /\ recoveryCodes' = recoveryCodes \ {code}
  /\ factor' = [Unlocked EXCEPT !.version = @ + 1, !.failed = 0]
  /\ logins' = Revoked(logins)
  /\ challenges' = Opened(new, "REPLACE", factor.version + 1)
  /\ UNCHANGED now

Logout(ch) ==
  /\ ch \in DOMAIN logins
  /\ logins' = [logins EXCEPT ![ch].revoked = TRUE]
  /\ UNCHANGED <<factor, challenges, recoveryCodes, now>>

\* identity(): the login that a request shows is accepted.
SignedIn(ch) ==
  /\ ch \in DOMAIN logins
  /\ ~logins[ch].revoked
  /\ logins[ch].expires > now
  /\ logins[ch].version = factor.version
  /\ Enrolled

AccessNext ==
  \/ \E ch \in Challenges :
       \/ SignIn(ch) \/ Look(ch) \/ Cancel(ch) \/ EnterWrongCode(ch) \/ Logout(ch)
       \/ \E n \in (now - 1)..(now + 1) : Verify(ch, n) \/ Enroll(ch, n)
  \/ \E ch, new \in Challenges, code \in recoveryCodes : Recover(ch, new, code)

\* The customer's access by itself, as the clock runs.
AccessSpec ==
  /\ now = 0
  /\ AccessInit
  /\ [][AccessNext \/ (Tick /\ UNCHANGED accessVars)]_<<accessVars, now>>

----------------------------------------------------------------------------
(* Properties. *)

\* No code of an authenticator gives two logins, be it entered in two browsers, after a recovery
\* or for a new enrolment (mfa.py, verify and recover).
CodesWorkOnce ==
  \A ch, other \in DOMAIN logins : ch # other => logins[ch].code # logins[other].code

\* A login that has neither been revoked nor expired is one of the present factor: none outlives
\* a recovery or a new enrolment (mfa.py, recover and revoke_sessions; service.py, identity).
LoginsMatchFactor ==
  \A ch \in DOMAIN logins :
    (~logins[ch].revoked /\ logins[ch].expires > now) => SignedIn(ch)

\* The wrong codes entered in a challenge that still takes codes all count towards the lock of
\* the factor, whatever the customer's other browsers did (mfa.py, factor, start and failure).
GuessesAreCounted ==
  \A ch \in DOMAIN challenges : InContext(ch) => challenges[ch].attempts <= Unlocked.failed
=============================================================================
