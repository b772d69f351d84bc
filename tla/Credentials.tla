----------------------------- MODULE Credentials -----------------------------
(***************************************************************************)
(* Who gets a session in gateway-service: password login (auth/auth.go),   *)
(* Google SSO (auth.go), SAML (auth/saml.go), the password change and the  *)
(* forgot/reset flow (auth/password.go), and provisioning and              *)
(* deprovisioning over SCIM (auth/scim.go), for one account.               *)
(*                                                                         *)
(* Every handler reads the account, decides, and writes afterwards; a      *)
(* login is a process from its read of the account to the insert of its    *)
(* session, which is then the process's session.  Passwords are numbered   *)
(* by the change that set them.                                            *)
(***************************************************************************)
EXTENDS Naturals, FiniteSets

CONSTANTS
    Logins,        \* login attempts; each leads to one session at most
    Resets,        \* submissions of one reset link
    MaxPasswords,  \* bound: changes of the password
    MaxCredFaults  \* bound: revocations that fail

ASSUME CredConstants ==
    /\ IsFiniteSet(Logins) /\ IsFiniteSet(Resets)
    /\ MaxPasswords \in Nat /\ MaxCredFaults \in Nat

VARIABLES
    account,     \* the users row: exists, password, active
    login,       \* each login attempt and its session
    token,       \* the reset link: none, unused, used
    reset,       \* each submission of the link: how far it is
    change,      \* the password change that has updated the row and not revoked yet
    scim,        \* the SCIM request that has updated the row and not revoked yet
    credFaults   \* history: revocations that failed; the request succeeds all the same

credVars == <<account, login, token, reset, change, scim, credFaults>>

\* spared: a session the code leaves in on purpose, the acting device's at a change
\* of the password and those of a deleted account.
NoLogin == [pc |-> "idle", via |-> "none", pw |-> 0, raced |-> FALSE, spared |-> FALSE]
NoChange == [on |-> FALSE, by |-> "none"]

\* A login that has read the account before this write is still to insert its
\* session: it raced with the write.
Race(f) == [l \in Logins |-> IF f[l].pc = "granted" THEN [f[l] EXCEPT !.raced = TRUE] ELSE f[l]]

\* A row as it is inserted; whoever inserts it sets a password of its own.
Provisioned(active) == [account EXCEPT !.exists = TRUE, !.active = active]

SetPassword == account' = [account EXCEPT !.pw = @ + 1] /\ account.pw < MaxPasswords

-----------------------------------------------------------------------------
(* Logins *)

Grant(l, via) ==
    login' = [login EXCEPT ![l] = [pc |-> "granted", via |-> via, pw |-> account.pw,
                                   raced |-> FALSE, spared |-> FALSE]]

\* Login: the password that is presented is the one in the row.
PasswordLogin(l) ==
    /\ login[l].pc = "idle"
    /\ account.exists /\ account.active
    /\ Grant(l, "password")
    /\ UNCHANGED <<account, token, reset, change, scim, credFaults>>

\* SSOCallback: the row is not asked whether it is active; an account that does
\* not exist is provisioned.
SSOCallback(l) ==
    /\ login[l].pc = "idle"
    /\ account' = IF account.exists THEN account
                  ELSE Provisioned(TRUE)
    /\ Grant(l, "sso")
    /\ UNCHANGED <<token, reset, change, scim, credFaults>>

\* ACS: the assertion verified, and resolveOrProvision.
SamlACS(l) ==
    /\ login[l].pc = "idle"
    /\ account.exists => account.active
    /\ account' = IF account.exists THEN account
                  ELSE Provisioned(TRUE)
    /\ Grant(l, "saml")
    /\ UNCHANGED <<token, reset, change, scim, credFaults>>

\* Signup: a new tenant and its first admin, in one transaction, and a session.
Signup(l) ==
    /\ login[l].pc = "idle" /\ ~ account.exists
    /\ account' = Provisioned(TRUE)
    /\ Grant(l, "signup")
    /\ UNCHANGED <<token, reset, change, scim, credFaults>>

\* createSession and issueSessionToken.
IssueSession(l) ==
    /\ login[l].pc = "granted"
    /\ login' = [login EXCEPT ![l].pc = "live"]
    /\ UNCHANGED <<account, token, reset, change, scim, credFaults>>

-----------------------------------------------------------------------------
(* Revocation of sessions, after the write it belongs to *)

RevokedBut(keep) ==
    [l \in Logins |-> IF login[l].pc = "live" /\ l # keep THEN [login[l] EXCEPT !.pc = "revoked"]
                      ELSE IF l = keep THEN [login[l] EXCEPT !.spared = TRUE] ELSE login[l]]

\* The revocation, or its failure, which is only logged.
RevokeSessions(keep) ==
    \/ login' = RevokedBut(keep) /\ UNCHANGED credFaults
    \/ /\ credFaults < MaxCredFaults
       /\ credFaults' = credFaults + 1
       /\ UNCHANGED login

-----------------------------------------------------------------------------
(* Change, Forgot and Reset *)

\* Change, by the device of session l, which knows the current password.
ChangePassword(l) ==
    /\ login[l].pc = "live" /\ ~ change.on /\ account.exists
    /\ SetPassword
    /\ change' = [on |-> TRUE, by |-> l]
    /\ login' = Race(login)
    /\ UNCHANGED <<token, reset, scim, credFaults>>

ChangeRevokes ==
    /\ change.on
    /\ RevokeSessions(change.by)
    /\ change' = NoChange
    /\ UNCHANGED <<account, token, reset, scim>>

Forgot ==
    /\ account.exists /\ token = "none"
    /\ token' = "unused"
    /\ UNCHANGED <<account, login, reset, change, scim, credFaults>>

\* consumeResetToken: the link is looked up unused and not expired ...
ResetCheck(r) ==
    /\ reset[r] = "idle" /\ token = "unused"
    /\ reset' = [reset EXCEPT ![r] = "checked"]
    /\ UNCHANGED <<account, login, token, change, scim, credFaults>>

\* ... and burnt by the statement that still finds it unused; the others give up.
ResetBurn(r) ==
    /\ reset[r] = "checked"
    /\ token' = "used"
    /\ reset' = [reset EXCEPT ![r] = IF token = "unused" THEN "burnt" ELSE "refused"]
    /\ UNCHANGED <<account, login, change, scim, credFaults>>

ResetPassword(r) ==
    /\ reset[r] = "burnt"
    /\ SetPassword
    /\ reset' = [reset EXCEPT ![r] = "updated"]
    /\ login' = Race(login)
    /\ UNCHANGED <<token, change, scim, credFaults>>

\* Faulty variant: the acting user's sessions are kept, as after a change.
ResetRevokesNothing(r) ==
    /\ reset[r] = "updated"
    /\ reset' = [reset EXCEPT ![r] = "done"]
    /\ UNCHANGED <<account, token, login, change, scim, credFaults>>

ResetRevokes(r) ==
    /\ reset[r] = "updated"
    /\ RevokeSessions("none")
    /\ reset' = [reset EXCEPT ![r] = "done"]
    /\ UNCHANGED <<account, token, change, scim>>

-----------------------------------------------------------------------------
(* SCIM, and the administration of users *)

\* create; an account that exists is returned as it is.
ScimCreate(active) ==
    /\ ~ account.exists
    /\ account' = Provisioned(active)
    /\ UNCHANGED <<login, token, reset, change, scim, credFaults>>

\* replace, patch or deactivate with active = false.
ScimDeactivate ==
    /\ account.exists /\ scim = "idle"
    /\ account' = [account EXCEPT !.active = FALSE]
    /\ scim' = "revoke"
    /\ login' = Race(login)
    /\ UNCHANGED <<token, reset, change, credFaults>>

ScimRevokes ==
    /\ scim = "revoke"
    /\ RevokeSessions("none")
    /\ scim' = "idle"
    /\ UNCHANGED <<account, token, reset, change>>

ScimActivate ==
    /\ account.exists /\ ~ account.active
    /\ account' = [account EXCEPT !.active = TRUE]
    /\ UNCHANGED <<login, token, reset, change, scim, credFaults>>

\* CreateUser and Register.
CreateUser ==
    /\ ~ account.exists
    /\ account' = Provisioned(TRUE)
    /\ UNCHANGED <<login, token, reset, change, scim, credFaults>>

\* DeleteUser removes the row and revokes nothing; the next row of that name has
\* another password.
DeleteUser ==
    /\ account.exists /\ account.pw < MaxPasswords
    /\ account' = [exists |-> FALSE, active |-> TRUE, pw |-> account.pw + 1]
    /\ login' = [l \in Logins |-> IF login[l].pc \in {"granted", "live"}
                                  THEN [login[l] EXCEPT !.spared = TRUE] ELSE login[l]]
    /\ UNCHANGED <<token, reset, change, scim, credFaults>>

-----------------------------------------------------------------------------

CredInit ==
    /\ account \in [exists : BOOLEAN, pw : {0}, active : {TRUE}]
    /\ login = [l \in Logins |-> NoLogin]
    /\ token = "none"
    /\ reset = [r \in Resets |-> "idle"]
    /\ change = NoChange
    /\ scim = "idle"
    /\ credFaults = 0

CredNext ==
    \/ \E l \in Logins : PasswordLogin(l) \/ SSOCallback(l) \/ SamlACS(l) \/ Signup(l) \/ IssueSession(l)
                         \/ ChangePassword(l)
    \/ ChangeRevokes \/ Forgot
    \/ \E r \in Resets : ResetCheck(r) \/ ResetBurn(r) \/ ResetPassword(r) \/ ResetRevokes(r)
    \/ \E active \in BOOLEAN : ScimCreate(active)
    \/ CreateUser \/ DeleteUser
    \/ ScimDeactivate \/ ScimRevokes \/ ScimActivate

CredSpec == CredInit /\ [][CredNext]_credVars

-----------------------------------------------------------------------------
(* Properties *)

CredTypeOK ==
    /\ account \in [exists : BOOLEAN, pw : 0..MaxPasswords, active : BOOLEAN]
    /\ login \in [Logins -> [pc : {"idle", "granted", "live", "revoked"},
                             via : {"none", "password", "sso", "saml", "signup"},
                             pw : 0..MaxPasswords, raced : BOOLEAN, spared : BOOLEAN]]
    /\ token \in {"none", "unused", "used"}
    /\ reset \in [Resets -> {"idle", "checked", "refused", "burnt", "updated", "done"}]
    /\ change \in [on : BOOLEAN, by : Logins \cup {"none"}]
    /\ scim \in {"idle", "revoke"}
    /\ credFaults \in 0..MaxCredFaults

Settled == ~ change.on /\ \A r \in Resets : reset[r] # "updated"

\* "A compromised session can't outlive the credential change": once no change or
\* reset is half-way and no revocation failed, a session that began under an older
\* password is one the code spared, or one whose login had read the account before
\* the change and was recorded after it.
SessionsFollowPassword ==
    Settled /\ credFaults = 0 =>
        \A l \in Logins :
            login[l].pc = "live" /\ login[l].pw # account.pw => login[l].raced \/ login[l].spared

\* After a deactivation has revoked, the account has no session but those of
\* logins that were under way, and those of the SSO callback, which does not look.
DeactivatedIsOut ==
    ~ account.active /\ scim = "idle" /\ credFaults = 0 =>
        \A l \in Logins : login[l].pc = "live" =>
            login[l].raced \/ login[l].spared \/ login[l].via = "sso"

\* No session outlives what it rests on, the password or the account, in any order
\* of sign-ins, changes, resets and deprovisioning.
SessionsFollowAccount == SessionsFollowPassword /\ DeactivatedIsOut
=============================================================================
