------------------------------- MODULE Access -------------------------------
(***************************************************************************)
(* One seller's way into the cabinet: the password login and its second    *)
(* factor (routers/auth.py, routers/mfa.py), the session cookie with its   *)
(* version (dependencies.get_current_user), and what revokes cookies.      *)
(*                                                                         *)
(* A handler keeps what it read: the session factory does not expire       *)
(* objects on commit, so a version, a password check or a TOTP secret read *)
(* before the throttle's commits is used after them.  Each statement that  *)
(* reads is a step of its own, each transaction that writes is one step.   *)
(***************************************************************************)
EXTENDS Naturals, FiniteSets

CONSTANTS
  Requests,       \* handlers that run at the same time
  MaxVersion,     \* bound: bumps of users.token_version
  MaxStep,        \* bound: 30-second steps of the clock
  MaxSecret       \* bound: calls of /mfa/setup

ASSUME AccessAssumption == {MaxVersion, MaxStep, MaxSecret} \subseteq Nat

VARIABLES
  user,           \* the row of users
  mfa,            \* its row of mfa_secrets
  clock,          \* unix_time // 30
  sessions,       \* the session cookies handed out
  pendings,       \* the mfa_pending tokens handed out
  requests,       \* request -> where its handler stands
  issued,         \* history: how many secrets /mfa/setup has generated
  confirmed,      \* history: the secrets a /mfa/verify saw a code of
  retired,        \* history: the last password there was at a reset or a deletion
  accepted        \* history: step -> how often a code of that step was accepted

vars == <<user, mfa, clock, sessions, pendings, requests, issued, confirmed,
          retired, accepted>>

\* Passwords are numbered in the order the row got them.
User == [ver : Nat, pw : Nat, deleted : BOOLEAN, verified : BOOLEAN, reset : BOOLEAN]

Mfa == [present : BOOLEAN, secret : Nat, enabled : BOOLEAN, last : Nat]

\* pw: the password that opened it, 0 where no password was asked.
Session == [ver : Nat, pw : Nat, by : {"login", "code", "email", "manage"}]

Pending == [ver : Nat, pw : Nat]

Request ==
  [pc : {"idle"}] \cup [pc : {"login", "code_user"}, ver : Nat, pw : Nat]
  \cup [pc : {"code"}, ver : Nat, pw : Nat, secret : Nat]
  \cup [pc : {"manage"}]
  \cup [pc : {"restore"}, verified : BOOLEAN]
  \cup [pc : {"record"}, present : BOOLEAN, enabled : BOOLEAN, secret : Nat]

TypeOK ==
  /\ user \in User /\ user.ver <= MaxVersion
  /\ mfa \in Mfa
  /\ clock \in 1..MaxStep
  /\ sessions \subseteq Session
  /\ pendings \subseteq Pending
  /\ requests \in [Requests -> Request]
  /\ issued \in 0..MaxSecret
  /\ confirmed \subseteq 1..issued
  /\ retired \in 0..user.pw
  /\ accepted \in [0..MaxStep + 1 -> Nat]

\* A registered account that has confirmed its e-mail address.
Init ==
  /\ user = [ver |-> 0, pw |-> 1, deleted |-> FALSE, verified |-> TRUE, reset |-> FALSE]
  /\ mfa = [present |-> FALSE, secret |-> 0, enabled |-> FALSE, last |-> 0]
  /\ clock = 1
  /\ sessions = {}
  /\ pendings = {}
  /\ requests = [r \in Requests |-> [pc |-> "idle"]]
  /\ issued = 0
  /\ confirmed = {}
  /\ retired = 0
  /\ accepted = [s \in 0..MaxStep + 1 |-> 0]

At(r, pc) == requests[r].pc = pc

Goes(r, state) == requests' = [requests EXCEPT ![r] = state]

Ends(r) == Goes(r, [pc |-> "idle"])

\* token_version + 1, computed by the database.
Bumped(u) == [u EXCEPT !.ver = @ + 1]

CanBump == user.ver < MaxVersion

Usable(s) == ~user.deleted /\ s.ver = user.ver

\* A cookie leaves with the answer; one that is lost is one nobody shows.
Issues(s) == sessions' = sessions \cup {s}

(***************************************************************************)
(* POST /login.  A wrong password, an unverified or a deleted account end  *)
(* the request with no trace.                                              *)
(***************************************************************************)
LoginReadsUser(r) ==
  /\ At(r, "idle")
  /\ user.verified /\ ~user.deleted
  /\ Goes(r, [pc |-> "login", ver |-> user.ver, pw |-> user.pw])
  /\ UNCHANGED <<user, mfa, clock, sessions, pendings, issued, confirmed, retired, accepted>>

\* Mutant: the cookie carries the version of the moment it is built.
LoginAnswersLate(r) ==
  /\ At(r, "login")
  /\ IF mfa.present /\ mfa.enabled
     THEN /\ pendings' = pendings \cup {[ver |-> user.ver, pw |-> requests[r].pw]}
          /\ UNCHANGED sessions
     ELSE /\ sessions' = sessions \cup {[ver |-> user.ver, pw |-> requests[r].pw, by |-> "login"]}
          /\ UNCHANGED pendings
  /\ Ends(r)
  /\ UNCHANGED <<user, mfa, clock, issued, confirmed, retired, accepted>>

\* The second factor is read after the throttle's release has committed; the
\* version in the answer is the one the password was checked at.
LoginAnswers(r) ==
  LET q == requests[r] IN
  /\ At(r, "login")
  /\ IF mfa.present /\ mfa.enabled
     THEN /\ pendings' = pendings \cup {[ver |-> q.ver, pw |-> q.pw]}
          /\ UNCHANGED sessions
     ELSE /\ sessions' = sessions \cup {[ver |-> q.ver, pw |-> q.pw, by |-> "login"]}
          /\ UNCHANGED pendings
  /\ Ends(r)
  /\ UNCHANGED <<user, mfa, clock, issued, confirmed, retired, accepted>>

(***************************************************************************)
(* claim_totp_step.  A code of the captured secret matches its own step if *)
(* that is the present one or a neighbour; the UPDATE asks the row whether *)
(* the step is newer than the last one spent.                              *)
(***************************************************************************)
\* Mutant: the last step spent is accepted again.
ClaimableAgain(step) == step \in clock - 1..clock + 1 /\ step >= mfa.last

Claimable(step) == step \in clock - 1..clock + 1 /\ step > mfa.last

Accepts(step) == accepted' = [accepted EXCEPT ![step] = @ + 1]

(***************************************************************************)
(* POST /login/mfa.                                                        *)
(***************************************************************************)
CodeReadsUser(r) ==
  /\ At(r, "idle")
  /\ user.verified /\ ~user.deleted
  /\ \E p \in pendings :
       /\ p.ver = user.ver
       /\ Goes(r, [pc |-> "code_user", ver |-> p.ver, pw |-> p.pw])
  /\ UNCHANGED <<user, mfa, clock, sessions, pendings, issued, confirmed, retired, accepted>>

CodeReadsSecret(r) ==
  /\ At(r, "code_user")
  /\ mfa.present /\ mfa.enabled
  /\ Goes(r, [pc |-> "code", ver |-> requests[r].ver, pw |-> requests[r].pw,
              secret |-> mfa.secret])
  /\ UNCHANGED <<user, mfa, clock, sessions, pendings, issued, confirmed, retired, accepted>>

\* The step is burnt by a commit of its own, then the cookie is built.
CodeClaims(r) ==
  LET q == requests[r] IN
  /\ At(r, "code")
  /\ \E step \in 0..MaxStep + 1 :
       /\ Claimable(step)
       /\ mfa' = [mfa EXCEPT !.last = step]
       /\ Accepts(step)
  /\ Issues([ver |-> q.ver, pw |-> q.pw, by |-> "code"])
  /\ Ends(r)
  /\ UNCHANGED <<user, clock, pendings, issued, confirmed, retired>>

(***************************************************************************)
(* The handlers behind a session: get_current_user, then the MFA record,   *)
(* then the throttle's commit, then one transaction that writes.           *)
(***************************************************************************)
Authenticate(r) ==
  /\ At(r, "idle")
  /\ \E s \in sessions : Usable(s)
  /\ Goes(r, [pc |-> "manage"])
  /\ UNCHANGED <<user, mfa, clock, sessions, pendings, issued, confirmed, retired, accepted>>

ReadRecord(r) ==
  /\ At(r, "manage")
  /\ Goes(r, [pc |-> "record", present |-> mfa.present, enabled |-> mfa.enabled,
              secret |-> mfa.secret])
  /\ UNCHANGED <<user, mfa, clock, sessions, pendings, issued, confirmed, retired, accepted>>

\* POST /mfa/setup: an INSERT, or an UPDATE of the column that differs from
\* what was read, which is the secret alone.
Setup(r) ==
  LET q == requests[r] IN
  /\ At(r, "record") /\ ~q.enabled
  /\ issued < MaxSecret
  /\ issued' = issued + 1
  /\ \/ q.present /\ mfa' = [mfa EXCEPT !.secret = issued']
     \/ ~q.present /\ ~mfa.present
        /\ mfa' = [present |-> TRUE, secret |-> issued', enabled |-> FALSE, last |-> 0]
  /\ Ends(r)
  /\ UNCHANGED <<user, clock, sessions, pendings, confirmed, retired, accepted>>

\* Claim, flag and version in one transaction, the cookie from the version it wrote.
Switches(r, enabled) ==
  /\ CanBump
  /\ \E step \in 0..MaxStep + 1 :
       /\ Claimable(step)
       /\ mfa' = [mfa EXCEPT !.last = step, !.enabled = enabled]
       /\ Accepts(step)
  /\ user' = Bumped(user)
  /\ Issues([ver |-> user'.ver, pw |-> 0, by |-> "manage"])
  /\ Ends(r)

\* Mutant: enabling MFA leaves the other devices' cookies alone.
VerifyKeepsSessions(r) ==
  /\ At(r, "record") /\ requests[r].present /\ ~requests[r].enabled
  /\ \E step \in 0..MaxStep + 1 :
       /\ Claimable(step)
       /\ mfa' = [mfa EXCEPT !.last = step, !.enabled = TRUE]
       /\ Accepts(step)
  /\ Ends(r)
  /\ confirmed' = confirmed \cup {requests[r].secret}
  /\ UNCHANGED <<user, sessions, clock, pendings, issued, retired>>

\* POST /mfa/verify.
Verify(r) ==
  /\ At(r, "record") /\ requests[r].present /\ ~requests[r].enabled
  /\ Switches(r, TRUE)
  /\ confirmed' = confirmed \cup {requests[r].secret}
  /\ UNCHANGED <<clock, pendings, issued, retired>>

\* DELETE /mfa/disable.
Disable(r) ==
  /\ At(r, "record") /\ requests[r].present /\ requests[r].enabled
  /\ Switches(r, FALSE)
  /\ UNCHANGED <<clock, pendings, issued, confirmed, retired>>

Logout(r) ==
  /\ At(r, "manage") /\ CanBump
  /\ user' = Bumped(user)
  /\ Ends(r)
  /\ UNCHANGED <<mfa, clock, sessions, pendings, issued, confirmed, retired, accepted>>

DeleteAccount(r) ==
  /\ At(r, "manage") /\ CanBump
  /\ user' = [Bumped(user) EXCEPT !.deleted = TRUE]
  /\ retired' = user.pw
  /\ Ends(r)
  /\ UNCHANGED <<mfa, clock, sessions, pendings, issued, confirmed, accepted>>

(***************************************************************************)
(* POST /register over a deleted account: a SELECT without a lock, then    *)
(* bcrypt, then an UPDATE by id of the columns that differ from what was   *)
(* read.  It asks no more whether the account is deleted, and revokes      *)
(* nothing.                                                                *)
(***************************************************************************)
RestoreReadsUser(r) ==
  /\ At(r, "idle")
  /\ user.deleted
  /\ Goes(r, [pc |-> "restore", verified |-> user.verified])
  /\ UNCHANGED <<user, mfa, clock, sessions, pendings, issued, confirmed, retired, accepted>>

RestoreWrites(r) ==
  /\ At(r, "restore")
  /\ user' = [user EXCEPT !.deleted = FALSE, !.verified = @ /\ ~requests[r].verified,
                          !.pw = @ + 1]
  /\ Ends(r)
  /\ UNCHANGED <<mfa, clock, sessions, pendings, issued, confirmed, retired, accepted>>

\* A refusal (the throttle, a wrong code, a uniqueness error), a rollback, or
\* the process dies: nothing was written.
Drop(r) ==
  /\ ~At(r, "idle")
  /\ Ends(r)
  /\ UNCHANGED <<user, mfa, clock, sessions, pendings, issued, confirmed, retired, accepted>>

(***************************************************************************)
(* Without a session.                                                      *)
(***************************************************************************)
ForgotPassword ==
  /\ ~user.reset
  /\ user' = [user EXCEPT !.reset = TRUE]
  /\ UNCHANGED <<mfa, clock, sessions, pendings, requests, issued, confirmed, retired, accepted>>

\* _RESET_CONSUME, one statement.
ResetPassword ==
  /\ user.reset /\ CanBump
  /\ user' = [Bumped(user) EXCEPT !.reset = FALSE, !.pw = user.pw + 1, !.verified = TRUE]
  /\ retired' = user.pw
  /\ UNCHANGED <<mfa, clock, sessions, pendings, requests, issued, confirmed, accepted>>

VerifyEmail ==
  /\ ~user.verified
  /\ user' = [user EXCEPT !.verified = TRUE]
  /\ Issues([ver |-> user.ver, pw |-> 0, by |-> "email"])
  /\ UNCHANGED <<mfa, clock, pendings, requests, issued, confirmed, retired, accepted>>

Tick ==
  /\ clock < MaxStep
  /\ clock' = clock + 1
  /\ UNCHANGED <<user, mfa, sessions, pendings, requests, issued, confirmed, retired, accepted>>

Handler(r) ==
  \/ LoginReadsUser(r) \/ LoginAnswers(r)
  \/ CodeReadsUser(r) \/ CodeReadsSecret(r) \/ CodeClaims(r)
  \/ Authenticate(r) \/ ReadRecord(r)
  \/ Setup(r) \/ Verify(r) \/ Disable(r) \/ Logout(r) \/ DeleteAccount(r)
  \/ RestoreReadsUser(r) \/ RestoreWrites(r)
  \/ Drop(r)

Next ==
  \/ \E r \in Requests : Handler(r)
  \/ ForgotPassword \/ ResetPassword \/ VerifyEmail
  \/ Tick

Spec == Init /\ [][Next]_vars

(***************************************************************************)
(* Properties.                                                             *)
(***************************************************************************)
\* While the second factor is on, no cookie that a password alone opened
\* authenticates, however the login and the activation interleave
\* (mfa.py:228-231, auth.py:323-333).
PasswordSessionNeedsCode ==
  \A s \in sessions : mfa.enabled /\ Usable(s) => s.by # "login"

\* A reset or a deletion ends every password of before for good: no cookie that
\* one of them opened, with or without a code, authenticates after, also when
\* the login had read the account before and answers after, and when the
\* deletion is undone by registrations that overlap (auth.py:405-407,
\* referrals.py:256-259).
RetiredPasswordIsOut ==
  \A s \in sessions : Usable(s) /\ s.by \in {"login", "code"} => s.pw > retired

\* The cookies of a password end with it.  They do not if two registrations
\* restore one account: the second replaces the password by which a login came
\* in after the first, and revokes nothing (auth.py:152-179).
PasswordInForce ==
  \A s \in sessions : Usable(s) /\ s.by \in {"login", "code"} => s.pw = user.pw

\* One code is accepted once, by whichever of login, activation and
\* deactivation comes first, and across a new secret (auth.py:385-389).
CodeSpentOnce == \A step \in 0..MaxStep + 1 : accepted[step] <= 1

\* The secret that guards the login is one whose code the seller has entered:
\* "The user must call /verify with a valid code to activate MFA" (mfa.py:151).
EnabledSecretWasConfirmed == mfa.enabled => mfa.secret \in confirmed

=============================================================================
