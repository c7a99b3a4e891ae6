----------------------------- MODULE Enrollment -----------------------------
(***************************************************************************)
(* Enrolling a second factor (auth/server/src/api/manage/totp.rs,          *)
(* passkey.rs) with the enrollment in flight on a session (session.rs).    *)
(* The manage API knows its user by the Authorization header and the       *)
(* enrollment by the session cookie, so users of one cookie jar meet on    *)
(* one session record. TOTP logins (api/login/totp.rs) use what was        *)
(* enrolled.                                                               *)
(*                                                                         *)
(* As in LoginSession, a request changes its own copy of the record, which *)
(* is written back after the response unless it is a server error. An      *)
(* enrollment is the number of the request that began it. A code is valid  *)
(* for the TOTP step it is made for and one step either side; what is not  *)
(* a code for the enrolled secret is invalid. Recovery codes are           *)
(* SecondFactor's.                                                         *)
(***************************************************************************)
EXTENDS Integers, Sequences, FiniteSets

CONSTANTS Person,       \* users of one cookie jar
          Plans,        \* bound: the requests sent, sequences of [op, factor, user]
          MaxAtOnce,    \* bound: requests at the same time
          LastTotpStep  \* bound: the clock, in TOTP steps

Factor == {"totp", "passkey"}
Nothing == 0
Unlocked == 1000000

ASSUME EnrollAssumption ==
  \A p \in Plans :
    /\ p \in Seq([op : {"begin", "confirm", "unenroll", "login"}, factor : Factor,
                  user : Person])
    /\ Len(p) < Unlocked

VARIABLES
  plan,         \* the requests still to be sent
  manage,       \* the requests so far: [op, factor, user, step, copy, found, code, answer, alone]
  kept,         \* the session record: factor -> enrollment, or Nothing
  factors,      \* the app's storage: user -> factor -> enrollment, or Nothing
  accepted,     \* ACCEPTED_TOTP_STEPS: user -> latest step, or -1
  lockedSince,  \* user -> the requests that were sent before its lock
  totpNow,      \* the clock
  codeLogins    \* history: the codes logins were accepted with

enrollVars == <<plan, manage, kept, factors, accepted, lockedSince, totpNow, codeLogins>>

Sent == 1..Len(manage)
RequestsLeft == plan # <<>>   \* bound: the environment acts until the last one is sent
Active == {r \in Sent : manage[r].step # "end"}

EnrollTypeOK ==
  /\ kept \in [Factor -> {Nothing} \cup Sent]
  /\ factors \in [Person -> [Factor -> {Nothing} \cup Sent]]
  /\ \A r \in Sent : manage[r].found \in {Nothing} \cup Sent

EnrollInit ==
  /\ plan \in Plans
  /\ manage = <<>>
  /\ kept = [f \in Factor |-> Nothing]
  /\ factors = [u \in Person |-> kept]
  /\ accepted = [u \in Person |-> -1]
  /\ lockedSince = [u \in Person |-> Unlocked]
  /\ totpNow = 0
  /\ codeLogins = {}

----------------------------------------------------------------------------
Goes(r, to) == manage' = [manage EXCEPT ![r] = [@ EXCEPT !.step = to]]
Ends(r, answer) == manage' = [manage EXCEPT ![r] =
                    [@ EXCEPT !.step = "end", !.answer = answer, !.copy = <<>>]]

\* The handler is done with the copy and its response is no server error.
Responds(r, copy, found, answer) ==
  manage' = [manage EXCEPT ![r] = [@ EXCEPT !.step = "respond", !.copy = copy,
                                            !.found = found, !.answer = answer]]

SendManage ==
  /\ plan # <<>> /\ Cardinality(Active) < MaxAtOnce
  /\ plan' = Tail(plan)
  /\ manage' = [r \in 1..Len(manage) + 1 |->
       IF r \in Sent THEN [manage[r] EXCEPT !.alone = @ /\ r \notin Active]
       ELSE [op |-> Head(plan).op, factor |-> Head(plan).factor, user |-> Head(plan).user,
             step |-> "sent", copy |-> <<>>, found |-> Nothing, code |-> -1, answer |-> "",
             alone |-> Active = {}]]
  /\ UNCHANGED <<kept, factors, accepted, lockedSince, totpNow, codeLogins>>

\* Mutant: the lock is only checked where an enrollment begins.
LockedAtBegin(r) == manage[r].op = "begin" /\ lockedSince[manage[r].user] # Unlocked

CheckUsernameLocked(r) == lockedSince[manage[r].user] # Unlocked

\* BeginTotpEnrollment, BeginPasskeyEnrollment: the state goes on the session
\* with its user, in the place of another one.
BeginEnrollment(r) ==
  /\ manage[r].step = "sent" /\ manage[r].op = "begin"
  /\ IF CheckUsernameLocked(r) THEN Ends(r, "locked")
     ELSE Responds(r, [kept EXCEPT ![manage[r].factor] = r], Nothing, "ok")
  /\ UNCHANGED <<plan, kept, factors, accepted, lockedSince, totpNow, codeLogins>>

\* Mutant: whoever holds the session completes what is on it.
AnyoneCompletes(beganBy, u) == TRUE

CheckEnrollmentUser(beganBy, u) == beganBy = u

\* Mutant: the enrollment is only taken by the user who began it.
LeftWhenRefused(found, u) ==
  IF manage[found].user = u THEN Nothing ELSE found

\* remove: what is left on the session of an enrollment that was found.
LeftOnSession(found, u) == Nothing

\* retrieve_totp_enrollment, retrieve_passkey_enrollment
RetrieveEnrollment(r) ==
  /\ manage[r].step = "sent" /\ manage[r].op = "confirm"
  /\ LET f == manage[r].factor
         found == kept[f]
         rest == [kept EXCEPT ![f] = LeftOnSession(found, manage[r].user)]
     IN CASE CheckUsernameLocked(r) -> Ends(r, "locked")
          [] ~CheckUsernameLocked(r) /\ found = Nothing -> Ends(r, "not initiated")
          [] ~CheckUsernameLocked(r) /\ found # Nothing ->
               IF CheckEnrollmentUser(manage[found].user, manage[r].user)
               THEN manage' = [manage EXCEPT ![r] =
                      [@ EXCEPT !.step = "check", !.copy = rest, !.found = found]]
               ELSE Responds(r, rest, found, "refused")
  /\ UNCHANGED <<plan, kept, factors, accepted, lockedSince, totpNow, codeLogins>>

\* totp.check_current with a skew of one step.
ValidSteps == {s \in totpNow - 1 .. totpNow + 1 : s >= 0}

\* ConfirmPasskeyEnrollment: a passkey that does not verify is a server error,
\* which leaves the enrollment on the session.
FinishPasskeyRegistration(r) ==
  /\ manage[r].step = "check" /\ manage[r].factor = "passkey"
  /\ Ends(r, "server error") \/ Goes(r, "store")
  /\ UNCHANGED <<plan, kept, factors, accepted, lockedSince, totpNow, codeLogins>>

\* ConfirmTotpEnrollment: a wrong code is none, and takes it.
CheckEnrollmentCode(r) ==
  /\ manage[r].step = "check" /\ manage[r].factor = "totp"
  /\ \/ Responds(r, manage[r].copy, manage[r].found, "invalid")
     \/ \E s \in ValidSteps :
          manage' = [manage EXCEPT ![r] = [@ EXCEPT !.step = "store", !.code = s]]
  /\ UNCHANGED <<plan, kept, factors, accepted, lockedSince, totpNow, codeLogins>>

\* update_user_stored_totp (after the recovery codes were hashed),
\* update_user_stored_passkey
StoreFactor(r) ==
  /\ manage[r].step = "store"
  /\ LET q == manage[r]
     IN \/ /\ factors' = [factors EXCEPT ![q.user][q.factor] = q.found]
           /\ IF q.factor = "totp" THEN Goes(r, "consume")
              ELSE Responds(r, q.copy, q.found, "ok")
        \/ Ends(r, "server error") /\ UNCHANGED factors
  /\ UNCHANGED <<plan, kept, accepted, lockedSince, totpNow, codeLogins>>

\* Mutant: the step of the enrollment is not consumed.
StepLeft(u, s) == accepted

\* consume_totp_step_in_process: what is accepted after it.
ConsumeTotpStep(u, s) == [accepted EXCEPT ![u] = IF s > @ THEN s ELSE @]

\* The end of ConfirmTotpEnrollment: whether the step was fresh is ignored.
ConsumeEnrollmentStep(r) ==
  /\ manage[r].step = "consume" /\ manage[r].op = "confirm"
  /\ accepted' = ConsumeTotpStep(manage[r].user, manage[r].code)
  /\ Responds(r, manage[r].copy, manage[r].found, "ok")
  /\ UNCHANGED <<plan, kept, factors, lockedSince, totpNow, codeLogins>>

\* unenroll_totp, unenroll_passkey
Unenroll(r) ==
  /\ manage[r].step = "sent" /\ manage[r].op = "unenroll"
  /\ IF CheckUsernameLocked(r) THEN Ends(r, "locked") /\ UNCHANGED factors
     ELSE /\ factors' = [factors EXCEPT ![manage[r].user][manage[r].factor] = Nothing]
          /\ Ends(r, "ok")
  /\ UNCHANGED <<plan, kept, accepted, lockedSince, totpNow, codeLogins>>

\* finish_totp_login of a user who passed the first factor.
CheckLoginCode(r) ==
  /\ manage[r].step = "sent" /\ manage[r].op = "login"
  /\ LET secret == factors[manage[r].user]["totp"]
     IN \/ Ends(r, "invalid")
        \/ /\ secret # Nothing
           /\ \E s \in ValidSteps :
                manage' = [manage EXCEPT ![r] =
                  [@ EXCEPT !.step = "consume", !.found = secret, !.code = s]]
  /\ UNCHANGED <<plan, kept, factors, accepted, lockedSince, totpNow, codeLogins>>

ConsumeLoginStep(r) ==
  /\ manage[r].step = "consume" /\ manage[r].op = "login"
  /\ LET q == manage[r]
         fresh == q.code > accepted[q.user]
     IN /\ accepted' = ConsumeTotpStep(q.user, q.code)
        /\ Ends(r, IF fresh THEN "ok" ELSE "used")
        /\ codeLogins' = codeLogins \cup
             {[user |-> q.user, secret |-> q.found, code |-> q.code] : x \in {y \in {0} : fresh}}
  /\ UNCHANGED <<plan, kept, factors, lockedSince, totpNow>>

\* The session layer saves the copy.
SaveRecord(r) ==
  /\ manage[r].step = "respond"
  /\ kept' = manage[r].copy
  /\ Ends(r, manage[r].answer)
  /\ UNCHANGED <<plan, factors, accepted, lockedSince, totpNow, codeLogins>>

\* The client disconnects: nothing is saved.
DropManage(r) ==
  /\ manage[r].step \notin {"sent", "end"}
  /\ Ends(r, "dropped")
  /\ UNCHANGED <<plan, kept, factors, accepted, lockedSince, totpNow, codeLogins>>

\* The app locks a username while it runs, or restarts with it locked.
LockUser(u) ==
  /\ lockedSince[u] = Unlocked /\ RequestsLeft
  /\ lockedSince' = [lockedSince EXCEPT ![u] = Len(manage)]
  /\ UNCHANGED <<plan, manage, kept, factors, accepted, totpNow, codeLogins>>

TotpTick ==
  /\ totpNow < LastTotpStep /\ RequestsLeft
  /\ totpNow' = totpNow + 1
  /\ UNCHANGED <<plan, manage, kept, factors, accepted, lockedSince, codeLogins>>

EnrollNext ==
  \/ SendManage \/ \E u \in Person : LockUser(u)
  \/ \E r \in Sent : \/ BeginEnrollment(r) \/ RetrieveEnrollment(r)
                     \/ FinishPasskeyRegistration(r) \/ CheckEnrollmentCode(r)
                     \/ StoreFactor(r) \/ ConsumeEnrollmentStep(r) \/ Unenroll(r)
                     \/ CheckLoginCode(r) \/ ConsumeLoginStep(r)
                     \/ SaveRecord(r) \/ DropManage(r)
  \/ TotpTick

EnrollSpec == EnrollInit /\ [][EnrollNext]_enrollVars

----------------------------------------------------------------------------
(* Properties *)

\* A second factor is stored for the user who began its enrollment, whoever
\* else shares the session.
OwnFactors ==
  EnrollTypeOK /\ \A u \in Person, f \in Factor :
    factors[u][f] # Nothing => manage[factors[u][f]].user = u

\* Once a username is locked its factors only change by requests sent before:
\* "Checked again, the lock may have been added since the enrollment began."
LockedFactorsStay ==
  \A u \in Person : factors'[u] # factors[u] =>
    \E r \in Active : manage[r].user = u /\ r <= lockedSince[u]

\* "a refused one has to be started again": an enrollment a confirm was refused
\* for is not stored later, where the requests did not overlap (overlapping
\* ones write back the record whole).
RefusedStartsAgain ==
  \A u \in Person, f \in Factor :
    factors'[u][f] \notin {factors[u][f], Nothing} =>
      ~\E r \in Sent : /\ manage[r].step = "end" /\ manage[r].alone
                       /\ manage[r].answer \in {"refused", "invalid"}
                       /\ manage[r].found = factors'[u][f]

\* "the enrollment code cannot be replayed as a login code": once a confirm was
\* answered, its code logs nobody in.
CodeNotReplayed ==
  \A login \in codeLogins' \ codeLogins :
    ~\E r \in Sent : /\ manage[r].op = "confirm" /\ manage[r].step = "end"
                     /\ manage[r].answer = "ok" /\ manage[r].code = login.code
                     /\ manage[r].user = login.user /\ manage[r].found = login.secret

\* Second factors are enrolled by their user, unless locked, once begun again
\* after a refusal, and the code that confirms one is used up.
EnrollmentsSound ==
  [][/\ OwnFactors' /\ LockedFactorsStay
     /\ RefusedStartsAgain /\ CodeNotReplayed]_enrollVars
=============================================================================
