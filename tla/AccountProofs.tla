---------------------------- MODULE AccountProofs ---------------------------
(***************************************************************************)
(* What Access and Billing promise of a seller's account, for any number   *)
(* of handlers, versions, steps, secrets, payments, calls, sellers and     *)
(* requests and for any cap.  The two share no variable, and in Billing    *)
(* payments and promo codes share none, so each has its own invariant.     *)
(***************************************************************************)
EXTENDS Access, Billing, FiniteSetTheorems, TLAPS

(***************************************************************************)
(* Sessions.  The argument of the two session properties is one: what a    *)
(* password opened is stamped with the version of the moment the account   *)
(* was read, so it counts only if nothing was revoked since.               *)
(***************************************************************************)
AccessTypeOK ==
  /\ user \in User
  /\ mfa \in Mfa
  /\ sessions \subseteq Session
  /\ pendings \subseteq Pending
  /\ requests \in [Requests -> Request]
  /\ issued \in Nat
  /\ retired \in Nat
  /\ accepted \in [0..MaxStep + 1 -> Nat]

\* x was stamped when the password pw was accepted: it is of the past, or no
\* reset and no deletion has come since.
Stamped(x) ==
  /\ x.ver <= user.ver
  /\ x.ver = user.ver => x.pw > retired

\* The password of an account that is not deleted is not a retired one, however
\* many registrations restored it.
StampInv ==
  /\ retired <= user.pw
  /\ ~user.deleted => user.pw > retired
  /\ \A s \in sessions : s.ver <= user.ver /\ (s.by \in {"login", "code"} => Stamped(s))
  /\ \A p \in pendings : Stamped(p)
  /\ \A r \in Requests : requests[r].pc \in {"login", "code_user", "code"} => Stamped(requests[r])

\* Enabling bumps the version, and nothing issues a bare login while it is on.
\* A record of the second factor is never taken away.
FactorInv ==
  /\ \A s \in sessions : mfa.enabled /\ s.by = "login" => s.ver < user.ver
  /\ mfa.enabled => mfa.present
  /\ \A r \in Requests :
       /\ requests[r].pc = "code" => mfa.present
       /\ requests[r].pc = "record" /\ requests[r].present => mfa.present

\* No step after the last one spent was accepted, and no step twice.  A record
\* that is inserted starts at 0, when nothing was accepted.
StepInv ==
  /\ ~mfa.present => mfa.last = 0
  /\ \A step \in 0..MaxStep + 1 :
       /\ accepted[step] <= 1
       /\ step > mfa.last => accepted[step] = 0

AccessInv == AccessTypeOK /\ StampInv /\ FactorInv /\ StepInv

LEMMA AccessInit == Init => AccessInv
  BY AccessAssumption
     DEF Init, AccessInv, AccessTypeOK, StampInv, FactorInv, StepInv, User, Mfa, Request

\* The row of users keeps its type under the writes the handlers make.
LEMMA UserWrites ==
  ASSUME user \in User
  PROVE  /\ Bumped(user) \in User
         /\ [Bumped(user) EXCEPT !.deleted = TRUE] \in User
         /\ [user EXCEPT !.reset = TRUE] \in User
         /\ [Bumped(user) EXCEPT !.reset = FALSE, !.pw = user.pw + 1, !.verified = TRUE] \in User
         /\ \A read \in BOOLEAN :
              [user EXCEPT !.deleted = FALSE, !.verified = @ /\ ~read, !.pw = @ + 1] \in User
         /\ [user EXCEPT !.verified = TRUE] \in User
<1>1. /\ Bumped(user) = [ver |-> user.ver + 1, pw |-> user.pw, deleted |-> user.deleted,
                         verified |-> user.verified, reset |-> user.reset]
      /\ Bumped(user) \in User
  BY DEF User, Bumped
<1>2. [Bumped(user) EXCEPT !.deleted = TRUE] \in User
  BY <1>1 DEF User
<1>3. [user EXCEPT !.reset = TRUE] \in User /\ [user EXCEPT !.verified = TRUE] \in User
  BY DEF User
<1>4. user.pw + 1 \in Nat
  BY DEF User
<1>5. \A u \in User, pw \in Nat :
        /\ [u EXCEPT !.reset = FALSE, !.pw = pw, !.verified = TRUE] \in User
        /\ [u EXCEPT !.deleted = FALSE, !.pw = pw] \in User
  BY DEF User
<1>6. ASSUME NEW read \in BOOLEAN
      PROVE  [user EXCEPT !.deleted = FALSE, !.verified = @ /\ ~read, !.pw = @ + 1] \in User
  BY <1>4 DEF User
<1> QED
  BY <1>1, <1>2, <1>3, <1>4, <1>5, <1>6

\* What a revocation leaves of the row.
LEMMA BumpedUser ==
  ASSUME user \in User
  PROVE  /\ Bumped(user).ver = user.ver + 1 /\ Bumped(user).pw = user.pw
         /\ Bumped(user).deleted = user.deleted
         /\ [Bumped(user) EXCEPT !.deleted = TRUE].ver = user.ver + 1
         /\ [Bumped(user) EXCEPT !.deleted = TRUE].pw = user.pw
         /\ [Bumped(user) EXCEPT !.deleted = TRUE].deleted
<1>1. Bumped(user) = [ver |-> user.ver + 1, pw |-> user.pw, deleted |-> user.deleted,
                      verified |-> user.verified, reset |-> user.reset]
  BY DEF User, Bumped
<1> QED
  BY <1>1

\* A claim spends a step nobody spent before.
LEMMA ClaimSpends ==
  ASSUME AccessInv, NEW step \in 0..MaxStep + 1, NEW enabled \in BOOLEAN,
         Claimable(step), Accepts(step), mfa.present,
         \/ mfa' = [mfa EXCEPT !.last = step]
         \/ mfa' = [mfa EXCEPT !.last = step, !.enabled = enabled]
  PROVE  StepInv' /\ mfa' \in Mfa /\ accepted' \in [0..MaxStep + 1 -> Nat]
<1>1. mfa \in Mfa /\ step \in Nat /\ MaxStep \in Nat
  BY AccessAssumption DEF AccessInv, AccessTypeOK
<1>2. mfa' \in Mfa /\ mfa'.last = step /\ mfa'.present
  BY <1>1 DEF Mfa
<1>3. accepted' \in [0..MaxStep + 1 -> Nat]
  BY DEF AccessInv, AccessTypeOK, Accepts
<1>4. /\ step > mfa.last
      /\ \A t \in 0..MaxStep + 1 : accepted'[t] = IF t = step THEN accepted[t] + 1 ELSE accepted[t]
  BY DEF AccessInv, AccessTypeOK, Accepts, Claimable
<1>5. ASSUME NEW t \in 0..MaxStep + 1
      PROVE  accepted'[t] <= 1 /\ (t > mfa'.last => accepted'[t] = 0)
  BY <1>1, <1>2, <1>4 DEF AccessInv, StepInv, Mfa
<1> QED
  BY <1>2, <1>3, <1>5 DEF StepInv

\* A handler that only reads, and remembers what it read.
LEMMA ReadKeeps ==
  ASSUME AccessInv, NEW r \in Requests, NEW state \in Request, Goes(r, state),
         state.pc \in {"login", "code_user", "code"} => Stamped(state),
         state.pc = "code" => mfa.present,
         state.pc = "record" /\ state.present => mfa.present,
         UNCHANGED <<user, mfa, sessions, pendings, issued, retired, accepted>>
  PROVE  AccessInv'
<1> USE DEF AccessInv, AccessTypeOK
<1>1. \A t \in Requests : requests'[t] = IF t = r THEN state ELSE requests[t]
  BY DEF Goes
<1>2. AccessTypeOK'
  BY DEF Goes
<1>3. StampInv'
  BY <1>1 DEF StampInv, Stamped
<1>4. FactorInv'
  BY <1>1 DEF FactorInv
<1>5. StepInv'
  BY DEF StepInv
<1> QED
  BY <1>2, <1>3, <1>4, <1>5

\* A revocation: the version is bumped, so every stamp of the past stops to
\* count, and a cookie that leaves with the answer is no password's.
LEMMA BumpKeeps ==
  ASSUME AccessInv, user' \in User, user'.ver = user.ver + 1,
         retired' \in Nat, retired' <= user'.pw, ~user'.deleted => user'.pw > retired',
         mfa' \in Mfa, mfa.present => mfa'.present, mfa'.enabled => mfa'.present,
         StepInv', accepted' \in [0..MaxStep + 1 -> Nat],
         sessions' \subseteq sessions \cup {[ver |-> user'.ver, pw |-> 0, by |-> "manage"]},
         requests' \in [Requests -> Request],
         \A t \in Requests : requests'[t] \in {requests[t], [pc |-> "idle"]},
         UNCHANGED <<pendings, issued>>
  PROVE  AccessInv'
<1> USE DEF AccessInv, AccessTypeOK
<1>1. user.ver \in Nat /\ user'.ver \in Nat
  BY DEF User
<1>2. AccessTypeOK'
  BY <1>1 DEF Session
<1>3. StampInv'
  <2>1. \A s \in sessions' : s.ver <= user'.ver /\ (s.by \in {"login", "code"} => Stamped(s)')
    BY <1>1 DEF StampInv, Stamped, Session
  <2>2. \A p \in pendings' : Stamped(p)'
    BY <1>1 DEF StampInv, Stamped, Pending
  <2>3. ASSUME NEW t \in Requests, requests'[t].pc \in {"login", "code_user", "code"}
        PROVE  Stamped(requests[t])'
    <3>1. requests'[t] = requests[t] /\ requests[t].ver \in Nat
      BY <2>3 DEF Request
    <3> QED
      BY <1>1, <2>3, <3>1 DEF StampInv, Stamped
  <2> QED
    BY <2>1, <2>2, <2>3 DEF StampInv
<1>4. FactorInv'
  <2>1. \A s \in sessions' : s.by = "login" => s.ver < user'.ver
    BY <1>1 DEF StampInv, Session
  <2>2. \A t \in Requests : requests'[t].pc \in {"code", "record"} => requests'[t] = requests[t]
    OBVIOUS
  <2> QED
    BY <2>1, <2>2 DEF FactorInv
<1> QED
  BY <1>2, <1>3, <1>4

LEMMA SwitchKeeps ==
  ASSUME AccessInv, NEW r \in Requests, NEW enabled \in BOOLEAN, Switches(r, enabled),
         At(r, "record"), requests[r].present, UNCHANGED <<pendings, issued, retired>>
  PROVE  AccessInv'
<1>1. PICK step \in 0..MaxStep + 1 :
        /\ Claimable(step) /\ Accepts(step)
        /\ mfa' = [mfa EXCEPT !.last = step, !.enabled = enabled]
  BY DEF Switches
<1>2. mfa.present
  BY DEF At, AccessInv, FactorInv
<1>3. StepInv' /\ mfa' \in Mfa /\ accepted' \in [0..MaxStep + 1 -> Nat]
  BY <1>1, <1>2, ClaimSpends
<1>4. mfa'.present
  BY <1>1, <1>2 DEF AccessInv, AccessTypeOK, Mfa
<1>5. user' = Bumped(user) /\ user' \in User /\ user'.ver = user.ver + 1
  BY UserWrites DEF Switches, Bumped, User, AccessInv, AccessTypeOK
<1>6. sessions' \subseteq sessions \cup {[ver |-> user'.ver, pw |-> 0, by |-> "manage"]}
  BY DEF Switches, Issues
<1>7. /\ requests' \in [Requests -> Request]
      /\ \A t \in Requests : requests'[t] \in {requests[t], [pc |-> "idle"]}
  BY DEF Switches, Ends, Goes, AccessInv, AccessTypeOK, Request
<1>8. user'.pw = user.pw /\ user'.deleted = user.deleted
  BY <1>5 DEF Bumped, AccessInv, AccessTypeOK, User
<1>9. retired' \in Nat /\ retired' <= user'.pw /\ (~user'.deleted => user'.pw > retired')
  BY <1>8 DEF AccessInv, AccessTypeOK, StampInv
<1> QED
  BY <1>3, <1>4, <1>5, <1>6, <1>7, <1>9, BumpKeeps

LEMMA AccessStep == AccessInv /\ [Next]_vars => AccessInv'
<1> SUFFICES ASSUME AccessInv, [Next]_vars PROVE AccessInv'
  OBVIOUS
<1> USE AccessAssumption DEF AccessInv, AccessTypeOK
<1>1. ASSUME NEW r \in Requests, LoginReadsUser(r) PROVE AccessInv'
  <2> DEFINE state == [pc |-> "login", ver |-> user.ver, pw |-> user.pw]
  <2>1. state \in Request /\ Stamped(state) /\ Goes(r, state)
    BY <1>1 DEF LoginReadsUser, Request, Stamped, StampInv, User
  <2> QED
    BY <1>1, <2>1, ReadKeeps DEF LoginReadsUser
<1>2. ASSUME NEW r \in Requests, LoginAnswers(r) PROVE AccessInv'
  <2> DEFINE q == requests[r]
  <2>1. q \in [pc : {"login", "code_user"}, ver : Nat, pw : Nat] /\ Stamped(q)
    BY <1>2 DEF LoginAnswers, At, Request, StampInv
  <2>2. requests' = [requests EXCEPT ![r] = [pc |-> "idle"]]
    BY <1>2 DEF LoginAnswers, Ends, Goes
  <2>3. UNCHANGED <<user, mfa, issued, retired, accepted>>
    BY <1>2 DEF LoginAnswers
  <2>4. /\ sessions' \subseteq sessions \cup {[ver |-> q.ver, pw |-> q.pw, by |-> "login"]}
        /\ mfa.enabled => sessions' = sessions
        /\ pendings' \subseteq pendings \cup {[ver |-> q.ver, pw |-> q.pw]}
    BY <1>2 DEF LoginAnswers, FactorInv
  <2>5. AccessTypeOK'
    BY <2>1, <2>2, <2>3, <2>4 DEF Session, Pending, Request
  <2>6. StampInv'
    BY <2>1, <2>2, <2>3, <2>4 DEF StampInv, Stamped
  <2>7. FactorInv'
    BY <2>2, <2>3, <2>4 DEF FactorInv
  <2>8. StepInv'
    BY <2>3 DEF StepInv
  <2> QED
    BY <2>5, <2>6, <2>7, <2>8
<1>3. ASSUME NEW r \in Requests, CodeReadsUser(r) PROVE AccessInv'
  <2>1. PICK p \in pendings : Goes(r, [pc |-> "code_user", ver |-> p.ver, pw |-> p.pw])
    BY <1>3 DEF CodeReadsUser
  <2> DEFINE state == [pc |-> "code_user", ver |-> p.ver, pw |-> p.pw]
  <2>2. state \in Request /\ Stamped(state)
    BY <2>1 DEF Request, Pending, StampInv, Stamped
  <2> QED
    BY <1>3, <2>1, <2>2, ReadKeeps DEF CodeReadsUser
<1>4. ASSUME NEW r \in Requests, CodeReadsSecret(r) PROVE AccessInv'
  <2> DEFINE state == [pc |-> "code", ver |-> requests[r].ver, pw |-> requests[r].pw,
                       secret |-> mfa.secret]
  <2>1. requests[r] \in [pc : {"login", "code_user"}, ver : Nat, pw : Nat]
    BY <1>4 DEF CodeReadsSecret, At, Request
  <2>2. state \in Request /\ Stamped(state) /\ Goes(r, state) /\ mfa.present
    BY <1>4, <2>1 DEF CodeReadsSecret, At, Request, Mfa, StampInv, Stamped
  <2> QED
    BY <1>4, <2>2, ReadKeeps DEF CodeReadsSecret
<1>5. ASSUME NEW r \in Requests, CodeClaims(r) PROVE AccessInv'
  <2> DEFINE q == requests[r]
  <2>1. PICK step \in 0..MaxStep + 1 :
          Claimable(step) /\ Accepts(step) /\ mfa' = [mfa EXCEPT !.last = step]
    BY <1>5 DEF CodeClaims
  <2>2. mfa.present /\ Stamped(q)
    BY <1>5 DEF CodeClaims, At, FactorInv, StampInv
  <2>3. StepInv' /\ mfa' \in Mfa /\ accepted' \in [0..MaxStep + 1 -> Nat]
    BY <2>1, <2>2, ClaimSpends
  <2>4. q.ver \in Nat /\ q.pw \in Nat
    BY <1>5 DEF CodeClaims, At, Request
  <2>5. sessions' \subseteq sessions \cup {[ver |-> q.ver, pw |-> q.pw, by |-> "code"]}
    BY <1>5 DEF CodeClaims, Issues
  <2>6. requests' = [requests EXCEPT ![r] = [pc |-> "idle"]] /\ UNCHANGED <<user, pendings, issued, retired>>
    BY <1>5 DEF CodeClaims, Ends, Goes
  <2>7. AccessTypeOK'
    BY <2>3, <2>4, <2>5, <2>6 DEF Session, Request
  <2>8. StampInv'
    BY <2>2, <2>5, <2>6 DEF StampInv, Stamped
  <2>9. FactorInv'
    BY <2>1, <2>2, <2>5, <2>6 DEF FactorInv, Mfa
  <2> QED
    BY <2>3, <2>7, <2>8, <2>9
<1>6. ASSUME NEW r \in Requests, Authenticate(r) PROVE AccessInv'
  BY <1>6, ReadKeeps DEF Authenticate, Request
<1>7. ASSUME NEW r \in Requests, ReadRecord(r) PROVE AccessInv'
  <2> DEFINE state == [pc |-> "record", present |-> mfa.present, enabled |-> mfa.enabled,
                       secret |-> mfa.secret]
  <2>1. state \in Request /\ Goes(r, state)
    BY <1>7 DEF ReadRecord, Request, Mfa
  <2> QED
    BY <1>7, <2>1, ReadKeeps DEF ReadRecord
<1>8. ASSUME NEW r \in Requests, Setup(r) PROVE AccessInv'
  <2>1. issued' = issued + 1 /\ issued' \in Nat
    BY <1>8 DEF Setup
  <2>2. requests' = [requests EXCEPT ![r] = [pc |-> "idle"]]
    BY <1>8 DEF Setup, Ends, Goes
  <2>3. UNCHANGED <<user, sessions, pendings, retired, accepted>>
    BY <1>8 DEF Setup
  <2>4. /\ mfa' \in Mfa /\ mfa'.present /\ mfa'.last = mfa.last
        /\ mfa'.enabled => mfa.enabled
    <3>1. CASE requests[r].present /\ mfa' = [mfa EXCEPT !.secret = issued']
      <4>1. mfa.present
        BY <1>8, <3>1 DEF Setup, At, FactorInv
      <4> QED
        BY <2>1, <3>1, <4>1 DEF Mfa
    <3>2. CASE /\ ~mfa.present
               /\ mfa' = [present |-> TRUE, secret |-> issued', enabled |-> FALSE, last |-> 0]
      BY <2>1, <3>2 DEF Mfa, StepInv
    <3> QED
      BY <1>8, <3>1, <3>2 DEF Setup
  <2>5. AccessTypeOK'
    BY <2>1, <2>2, <2>3, <2>4 DEF Request
  <2>6. StampInv'
    BY <2>2, <2>3 DEF StampInv, Stamped
  <2>7. FactorInv'
    BY <2>2, <2>3, <2>4 DEF FactorInv
  <2>8. StepInv'
    BY <2>3, <2>4 DEF StepInv
  <2> QED
    BY <2>5, <2>6, <2>7, <2>8
<1>9. ASSUME NEW r \in Requests, Verify(r) PROVE AccessInv'
  BY <1>9, SwitchKeeps DEF Verify
<1>10. ASSUME NEW r \in Requests, Disable(r) PROVE AccessInv'
  BY <1>10, SwitchKeeps DEF Disable
<1>11. ASSUME NEW r \in Requests, Logout(r) \/ DeleteAccount(r) PROVE AccessInv'
  <2>1. user' \in User /\ user'.ver = user.ver + 1 /\ user'.pw = user.pw
    BY <1>11, UserWrites, BumpedUser DEF Logout, DeleteAccount
  <2>2. /\ requests' \in [Requests -> Request]
        /\ \A t \in Requests : requests'[t] \in {requests[t], [pc |-> "idle"]}
    <3>1. requests' = [requests EXCEPT ![r] = [pc |-> "idle"]]
      BY <1>11 DEF Logout, DeleteAccount, Ends, Goes
    <3>2. [pc |-> "idle"] \in Request
      BY DEF Request
    <3> QED
      BY <3>1, <3>2
  <2>3. UNCHANGED <<mfa, sessions, pendings, issued, accepted>>
    BY <1>11 DEF Logout, DeleteAccount
  <2>4. retired' \in Nat /\ retired' <= user'.pw /\ (~user'.deleted => user'.pw > retired')
    <3>1. user.pw \in Nat
      BY DEF User
    <3>2. CASE Logout(r)
      BY <2>1, <3>1, <3>2, BumpedUser DEF Logout, StampInv
    <3>3. CASE DeleteAccount(r)
      BY <2>1, <3>1, <3>3, BumpedUser DEF DeleteAccount
    <3> QED
      BY <1>11, <3>2, <3>3
  <2> QED
    BY <2>1, <2>2, <2>3, <2>4, BumpKeeps DEF FactorInv, StepInv
<1>12. ASSUME NEW r \in Requests, Drop(r) \/ RestoreReadsUser(r) PROVE AccessInv'
  BY <1>12, ReadKeeps DEF Drop, RestoreReadsUser, Ends, Request, User
<1>13. CASE ForgotPassword
  <2>1. user' \in User /\ user'.ver = user.ver /\ user'.pw = user.pw /\ user'.deleted = user.deleted
    BY <1>13, UserWrites DEF ForgotPassword, User
  <2> QED
    BY <1>13, <2>1 DEF ForgotPassword, StampInv, FactorInv, StepInv, Stamped
<1>14. CASE ResetPassword
  <2>1. user' \in User /\ user'.ver = user.ver + 1
    BY <1>14, UserWrites DEF ResetPassword, Bumped, User
  <2>2. retired' \in Nat /\ retired' <= user'.pw /\ user'.pw > retired'
    BY <1>14 DEF ResetPassword, Bumped, User
  <2> QED
    BY <1>14, <2>1, <2>2, BumpKeeps DEF ResetPassword, FactorInv, StepInv
<1>15. ASSUME NEW r \in Requests, RestoreWrites(r) PROVE AccessInv'
  <2>1. requests[r].verified \in BOOLEAN
    BY <1>15 DEF RestoreWrites, At, Request
  <2>2. user' \in User /\ user'.ver = user.ver /\ user'.pw = user.pw + 1
    BY <1>15, <2>1, UserWrites DEF RestoreWrites, User
  <2>3. requests' = [requests EXCEPT ![r] = [pc |-> "idle"]]
    BY <1>15 DEF RestoreWrites, Ends, Goes
  <2>4. UNCHANGED <<mfa, sessions, pendings, issued, retired, accepted>>
    BY <1>15 DEF RestoreWrites
  <2>5. AccessTypeOK'
    BY <2>2, <2>3, <2>4 DEF Request
  <2>6. StampInv'
    BY <2>2, <2>3, <2>4 DEF StampInv, Stamped, User
  <2>7. FactorInv'
    BY <2>2, <2>3, <2>4 DEF FactorInv
  <2>8. StepInv'
    BY <2>4 DEF StepInv
  <2> QED
    BY <2>5, <2>6, <2>7, <2>8
<1>16. CASE VerifyEmail
  <2>1. user' \in User /\ user'.ver = user.ver /\ user'.pw = user.pw /\ user'.deleted = user.deleted
    BY <1>16, UserWrites DEF VerifyEmail, User
  <2>2. sessions' \subseteq sessions \cup {[ver |-> user.ver, pw |-> 0, by |-> "email"]}
    BY <1>16 DEF VerifyEmail, Issues
  <2>3. user.ver \in Nat
    BY DEF User
  <2>4. AccessTypeOK'
    BY <1>16, <2>1, <2>2, <2>3 DEF VerifyEmail, Session
  <2> QED
    BY <1>16, <2>1, <2>2, <2>3, <2>4 DEF VerifyEmail, StampInv, FactorInv, StepInv, Stamped
<1>17. CASE Tick \/ UNCHANGED vars
  BY <1>17 DEF Tick, vars, StampInv, FactorInv, StepInv, Stamped
<1> QED
  BY <1>1, <1>2, <1>3, <1>4, <1>5, <1>6, <1>7, <1>8, <1>9, <1>10, <1>11, <1>12, <1>13, <1>14,
     <1>15, <1>16, <1>17 DEF Next, Handler

LEMMA AccessInvariant == Spec => []AccessInv
  BY AccessInit, AccessStep, PTL DEF Spec

\* While the second factor is on, a cookie that a password alone opened does
\* not authenticate (mfa.py:228-231, auth.py:323-333).
THEOREM PasswordAloneIsNotEnough == Spec => []PasswordSessionNeedsCode
<1>1. AccessInv => PasswordSessionNeedsCode
  BY DEF AccessInv, AccessTypeOK, FactorInv, PasswordSessionNeedsCode, Usable, User, Session
<1> QED
  BY <1>1, AccessInvariant, PTL

\* No cookie of a password of before the last reset or deletion authenticates,
\* although a login may answer after it and any number of registrations may
\* undo the deletion together (auth.py:405-407, referrals.py:256-259).
THEOREM RetiredPasswordsAreOut == Spec => []RetiredPasswordIsOut
<1>1. AccessInv => RetiredPasswordIsOut
  BY DEF AccessInv, StampInv, Stamped, RetiredPasswordIsOut, Usable
<1> QED
  BY <1>1, AccessInvariant, PTL

\* One code is accepted once (auth.py:385-389).
THEOREM OneUsePerCode == Spec => []CodeSpentOnce
<1>1. AccessInv => CodeSpentOnce
  BY DEF AccessInv, StepInv, CodeSpentOnce
<1> QED
  BY <1>1, AccessInvariant, PTL

(***************************************************************************)
(* Payments.                                                               *)
(***************************************************************************)
RowStatus == {"pending"} \cup Settled
Heard == [pc : {"heard"}, kind : {"status", "webhook"}, payment : Payments,
          seen : RowStatus, answer : RowStatus]
CallState ==
  [pc : {"idle"}]
  \cup [pc : {"read"}, kind : {"status", "webhook"}, payment : Payments, seen : RowStatus]
  \cup Heard

PayTypeOK ==
  /\ provider \in [Payments -> {"none"} \cup RowStatus]
  /\ create \in [Payments -> {"new", "created", "committed", "offered", "over"}]
  /\ row \in [Payments -> {"none"} \cup RowStatus]
  /\ activated \subseteq Payments
  /\ call \in [Calls -> CallState]

\* A row is written after the payment was made and before anyone can pay.
CreateInv ==
  \A p \in Payments :
    /\ row[p] # "none" => provider[p] # "none"
    /\ create[p] \in {"new", "created"} => row[p] = "none"
    /\ create[p] = "committed" => row[p] # "none"
    /\ create[p] # "new" => provider[p] # "none"
    /\ create[p] = "offered" => row[p] # "none"
    /\ provider[p] = "succeeded" => create[p] = "offered"

\* A settled row says what YooKassa says, for good.
RowInv ==
  \A p \in Payments :
    /\ row[p] \in Settled => provider[p] = row[p]
    /\ row[p] = "succeeded" => p \in activated

\* What a handler remembers may be old only while it is "pending".
CallInv ==
  \A c \in Calls :
    LET q == call[c] IN
    /\ q.pc \in {"read", "heard"} =>
         /\ row[q.payment] # "none"
         /\ q.seen \in Settled => provider[q.payment] = q.seen
    /\ q.pc = "heard" =>
         /\ q.answer \in Settled => provider[q.payment] = q.answer
         /\ q.seen \in Settled => q.answer = q.seen

PayInv == PayTypeOK /\ CreateInv /\ RowInv /\ CallInv

LEMMA PayInit == BillingInit => PayInv
  BY DEF BillingInit, PayInv, PayTypeOK, CreateInv, RowInv, CallInv, RowStatus, CallState, Settled

\* A handler that writes writes a settled status, YooKassa's own.
LEMMA WritesTheTruth ==
  ASSUME PayInv, NEW c \in Calls, call[c].pc = "heard", Writes(call[c])
  PROVE  /\ call[c] \in Heard
         /\ call[c].answer \in Settled
         /\ provider[call[c].payment] = call[c].answer
<1>1. call[c] \in Heard
  BY DEF PayInv, PayTypeOK, CallState, Heard
<1>2. call[c].answer \in Settled
  BY <1>1 DEF PayInv, CallInv, Writes, Heard, RowStatus, Settled
<1> QED
  BY <1>1, <1>2 DEF PayInv, CallInv

LEMMA PayStep == PayInv /\ [BillingNext]_billingVars => PayInv'
<1> SUFFICES ASSUME PayInv, [BillingNext]_billingVars PROVE PayInv'
  OBVIOUS
<1> USE DEF PayInv, PayTypeOK, CreateInv, RowInv, CallInv, RowStatus, Settled, promoVars
<1>1. ASSUME NEW p \in Payments, CreateAtProvider(p) PROVE PayInv'
  BY <1>1 DEF CreateAtProvider, CallState, Heard
<1>2. ASSUME NEW p \in Payments, InsertRow(p) PROVE PayInv'
  BY <1>2 DEF InsertRow, CallState, Heard
<1>3. ASSUME NEW p \in Payments, ReturnUrl(p) PROVE PayInv'
  BY <1>3 DEF ReturnUrl, CallState, Heard
<1>4. ASSUME NEW p \in Payments, CreateDies(p) PROVE PayInv'
  BY <1>4 DEF CreateDies, CallState, Heard
<1>5. ASSUME NEW p \in Payments, ProviderSettles(p) PROVE PayInv'
  BY <1>5 DEF ProviderSettles, CallState, Heard
<1>6. ASSUME NEW c \in Calls, NEW p \in Payments, ReadPayment(c, p) PROVE PayInv'
  <2>1. PICK kind \in {"status", "webhook"} :
          call' = [call EXCEPT ![c] =
                     [pc |-> "read", kind |-> kind, payment |-> p, seen |-> row[p]]]
    BY <1>6 DEF ReadPayment, CallGoes
  <2> QED
    BY <1>6, <2>1 DEF ReadPayment, CallState, Heard
<1>7. ASSUME NEW c \in Calls, AskProvider(c) PROVE PayInv'
  <2>1. call[c] \in [pc : {"read"}, kind : {"status", "webhook"}, payment : Payments,
                     seen : RowStatus]
    BY <1>7 DEF AskProvider, CallState, Heard
  <2>2. provider[call[c].payment] \in RowStatus
    BY <1>7, <2>1 DEF AskProvider
  <2> QED
    BY <1>7, <2>1, <2>2 DEF AskProvider, CallGoes, CallState, Heard
<1>8. ASSUME NEW c \in Calls, WritePayment(c) PROVE PayInv'
  <2>1. CASE ~Writes(call[c])
    BY <1>8, <2>1 DEF WritePayment, CallGoes, CallState, Heard
  <2>2. CASE Writes(call[c])
    <3>1. /\ call[c] \in Heard
          /\ call[c].answer \in Settled
          /\ provider[call[c].payment] = call[c].answer
      BY <1>8, <2>2, WritesTheTruth DEF WritePayment
    <3> QED
      BY <1>8, <2>2, <3>1 DEF WritePayment, CallGoes, CallState, Heard
  <2> QED
    BY <2>1, <2>2
<1>9. ASSUME NEW c \in Calls, CallDies(c) PROVE PayInv'
  BY <1>9 DEF CallDies, CallGoes, CallState, Heard
<1>10. CASE UNCHANGED payVars
  BY <1>10 DEF payVars, CallState, Heard
<1>11. ASSUME NEW s \in Submits,
              CheckPromo(s) \/ InsertActivation(s) \/ ReserveSlot(s) \/ ApplyDies(s)
       PROVE  UNCHANGED payVars
  BY <1>11 DEF CheckPromo, InsertActivation, ReserveSlot, ApplyDies
<1>12. TogglePromo => UNCHANGED payVars
  BY DEF TogglePromo
<1> QED
  BY <1>1, <1>2, <1>3, <1>4, <1>5, <1>6, <1>7, <1>8, <1>9, <1>10, <1>11, <1>12 DEF BillingNext, billingVars

LEMMA PayInvariant == BillingSpec => []PayInv
  BY PayInit, PayStep, PTL DEF BillingSpec

\* Who paid has a row, wherever the handlers died, and a row that says
\* "succeeded" came with the plan (payments.py:113-124, 150-156).
THEOREM PaidIsKept == BillingSpec => []PaidIsNotLost
<1>1. PayInv => PaidIsNotLost
  BY DEF PayInv, CreateInv, RowInv, PaidIsNotLost
<1> QED
  BY <1>1, PayInvariant, PTL

\* A settled status is never taken back, although each handler writes over a
\* row it read before it asked YooKassa.
THEOREM SettledStaysSettled == BillingSpec => SettledIsKept
<1>1. PayInv /\ [BillingNext]_billingVars => [\A p \in Payments : row[p] \in Settled => row'[p] = row[p]]_billingVars
  <2> SUFFICES ASSUME PayInv, BillingNext, NEW p \in Payments, row[p] \in Settled
               PROVE  row'[p] = row[p]
    BY DEF billingVars
  <2>1. ASSUME NEW other \in Payments, InsertRow(other) PROVE row'[p] = row[p]
    BY <2>1 DEF InsertRow, PayInv, PayTypeOK, RowInv, CreateInv, Settled
  <2>2. ASSUME NEW c \in Calls, WritePayment(c) PROVE row'[p] = row[p]
    BY <2>2, WritesTheTruth DEF WritePayment, PayInv, PayTypeOK, RowInv
  <2>3. CASE UNCHANGED row
    BY <2>3
  <2> QED
    BY <2>1, <2>2, <2>3 DEF BillingNext, CreateAtProvider, ReturnUrl, CreateDies, ProviderSettles,
       ReadPayment, AskProvider, CallDies, CheckPromo, InsertActivation, ReserveSlot, ApplyDies,
       TogglePromo, payVars
<1> QED
  BY <1>1, PayInvariant, PTL DEF BillingSpec, SettledIsKept

(***************************************************************************)
(* The promo code.                                                         *)
(***************************************************************************)
Activated(users) == {u \in Users : users[u] > 0}

PromoTypeOK ==
  /\ promo \in [count : Nat, active : BOOLEAN]
  /\ activations \in [Users -> {0, 1}]
  /\ submit \in [Submits -> {"new", "checked", "inserted", "over"}]

\* The UNIQUE constraint: an open INSERT is its user's only row.
InsertInv ==
  \A s \in Submits : submit[s] = "inserted" =>
    /\ activations[By[s]] = 0
    /\ \A other \in Submits : By[other] = By[s] /\ submit[other] = "inserted" => other = s

CountInv ==
  /\ promo.count <= MaxActivations
  /\ promo.count = Cardinality(Activated(activations))

PromoInv == PromoTypeOK /\ InsertInv /\ CountInv

LEMMA PromoInit == BillingInit => PromoInv
<1> SUFFICES ASSUME BillingInit PROVE PromoInv
  OBVIOUS
<1>1. Activated(activations) = {}
  BY DEF BillingInit, Activated
<1>2. Cardinality({}) = 0
  BY FS_EmptySet
<1>3. Cardinality(Activated(activations)) = 0
  BY <1>1, <1>2
<1>4. promo.count = 0
  BY DEF BillingInit
<1>5. CountInv
  BY <1>3, <1>4, BillingAssumption DEF CountInv
<1> QED
  BY <1>5 DEF BillingInit, PromoInv, PromoTypeOK, InsertInv

\* One more slot for one more user.
LEMMA ReservedSlot ==
  ASSUME PromoInv, NEW s \in Submits, ReserveSlot(s)
  PROVE  CountInv'
<1>1. CASE promo.count < MaxActivations
  <2> DEFINE u == By[s]
  <2>1. u \in Users /\ activations[u] = 0
    BY BillingAssumption DEF ReserveSlot, PromoInv, InsertInv
  <2>2. activations' = [activations EXCEPT ![u] = 1]
    BY <1>1, <2>1 DEF ReserveSlot
  <2>3. /\ Activated(activations)' = Activated(activations) \cup {u}
        /\ u \notin Activated(activations)
    BY <2>1, <2>2 DEF Activated, PromoInv, PromoTypeOK
  <2>4. IsFiniteSet(Activated(activations))
    BY FS_Subset, BillingAssumption DEF Activated
  <2>5. Cardinality(Activated(activations)') = Cardinality(Activated(activations)) + 1
    BY <2>3, <2>4, FS_AddElement
  <2>6. promo'.count = promo.count + 1
    BY <1>1 DEF ReserveSlot, PromoInv, PromoTypeOK
  <2> QED
    BY <1>1, <2>5, <2>6, BillingAssumption DEF PromoInv, CountInv, PromoTypeOK, Activated
<1>2. CASE ~(promo.count < MaxActivations)
  BY <1>2 DEF ReserveSlot, PromoInv, CountInv, Activated
<1> QED
  BY <1>1, <1>2

LEMMA PromoStep == PromoInv /\ [BillingNext]_billingVars => PromoInv'
<1> SUFFICES ASSUME PromoInv, [BillingNext]_billingVars PROVE PromoInv'
  OBVIOUS
<1> USE BillingAssumption DEF PromoInv, PromoTypeOK, InsertInv
<1>1. ASSUME NEW s \in Submits, CheckPromo(s) PROVE PromoInv'
  BY <1>1 DEF CheckPromo, Moves, CountInv, Activated
<1>2. ASSUME NEW s \in Submits, InsertActivation(s) PROVE PromoInv'
  BY <1>2 DEF InsertActivation, Moves, CountInv, Activated
<1>3. ASSUME NEW s \in Submits, ReserveSlot(s) PROVE PromoInv'
  <2>1. CountInv'
    BY <1>3, ReservedSlot
  <2>2. By[s] \in Users /\ activations[By[s]] = 0
    BY <1>3 DEF ReserveSlot
  <2>3. PromoTypeOK'
    BY <1>3, <2>2 DEF ReserveSlot, Moves
  <2>4. InsertInv'
    BY <1>3, <2>2 DEF ReserveSlot, Moves
  <2> QED
    BY <2>1, <2>3, <2>4
<1>4. ASSUME NEW s \in Submits, ApplyDies(s) PROVE PromoInv'
  BY <1>4 DEF ApplyDies, Moves, CountInv, Activated
<1>5. CASE TogglePromo
  BY <1>5 DEF TogglePromo, CountInv, Activated
<1>6. CASE UNCHANGED promoVars
  BY <1>6 DEF promoVars, CountInv, Activated
<1> QED
  BY <1>1, <1>2, <1>3, <1>4, <1>5, <1>6 DEF BillingNext, billingVars, CreateAtProvider, InsertRow, ReturnUrl,
     CreateDies, ProviderSettles, ReadPayment, AskProvider, WritePayment, CallDies

\* The counter counts the users who hold the code, never above the cap,
\* however many requests passed the check together (promo.py:20-24, 208-240).
THEOREM CapHolds == BillingSpec => []CapIsHonoured
<1>1. PromoInv => CapIsHonoured
  BY DEF PromoInv, PromoTypeOK, CountInv, Activated, CapIsHonoured
<1> QED
  BY <1>1, PromoInit, PromoStep, PTL DEF BillingSpec

=============================================================================
