---------------------------- MODULE SecondFactor ----------------------------
(***************************************************************************)
(* Multi-factor authentication of gateway-service (auth/mfa.go, totp.go)   *)
(* for one account: enrolment, confirmation, the second step of a login    *)
(* and switching it off.                                                   *)
(*                                                                         *)
(* The list of recovery codes is read, and written back whole without the  *)
(* code that was used; nothing ties a write to the list or to the secret   *)
(* that was read before it.  A secret is numbered by the enrolment that    *)
(* made it; a TOTP code is valid for its secret.                           *)
(***************************************************************************)
EXTENDS Naturals, FiniteSets

CONSTANTS
    Challenges,   \* second steps of logins, and requests to switch MFA off
    RecoveryCodes,
    MaxEnrols     \* bound: enrolments

ASSUME MfaConstants == IsFiniteSet(Challenges) /\ IsFiniteSet(RecoveryCodes) /\ MaxEnrols \in Nat

VARIABLES
    mfa,        \* the account: enabled, secret, recovery codes
    verifying,  \* the confirmation between its read of the secret and its update
    step,       \* each challenge: how far it is and the list it has read
    confirmed,  \* history: secrets a code was checked against in Verify
    usedCodes,  \* history: how often each recovery code of the current list was accepted
    races       \* history: a write that found another list, or another secret, than was read

mfaVars == <<mfa, verifying, step, confirmed, usedCodes, races>>

NoSecret == 0
NoStep == [pc |-> "idle", for |-> "login", secret |-> NoSecret, codes |-> {}]
NoVerify == [on |-> FALSE, secret |-> NoSecret]
NoUses == [c \in RecoveryCodes |-> 0]

-----------------------------------------------------------------------------
(* Enrolment *)

Enroll ==
    /\ ~ mfa.enabled /\ mfa.made < MaxEnrols
    /\ mfa' = [enabled |-> FALSE, secret |-> mfa.made + 1, made |-> mfa.made + 1, codes |-> {}]
    /\ UNCHANGED <<verifying, step, confirmed, usedCodes, races>>

\* Verify reads the secret and checks the code that was entered ...
VerifyRead ==
    /\ ~ verifying.on /\ mfa.secret # NoSecret
    /\ verifying' = [on |-> TRUE, secret |-> mfa.secret]
    /\ confirmed' = confirmed \cup {mfa.secret}
    /\ UNCHANGED <<mfa, step, usedCodes, races>>

\* ... and switches MFA on for whatever secret the row holds by then, with fresh
\* recovery codes.
VerifyEnable ==
    /\ verifying.on
    /\ mfa' = [mfa EXCEPT !.enabled = TRUE, !.codes = RecoveryCodes]
    /\ usedCodes' = NoUses
    /\ races' = [races EXCEPT !.secret = @ \/ mfa.secret # verifying.secret]
    /\ verifying' = NoVerify
    /\ UNCHANGED <<step, confirmed>>

-----------------------------------------------------------------------------
(* The second step of a login, and Disable *)

\* loadMFA, for an account that has MFA on.
Load(c, for) ==
    /\ step[c].pc = "idle" /\ mfa.enabled
    /\ step' = [step EXCEPT ![c] =
           [pc |-> "loaded", for |-> for, secret |-> mfa.secret, codes |-> mfa.codes]]
    /\ UNCHANGED <<mfa, verifying, confirmed, usedCodes, races>>

\* A TOTP code for the secret that was read.
UseTotp(c) ==
    /\ step[c].pc = "loaded" /\ step[c].secret # NoSecret
    /\ step' = [step EXCEPT ![c].pc = "passed"]
    /\ UNCHANGED <<mfa, verifying, confirmed, usedCodes, races>>

Accept(c, code) ==
    /\ step[c].pc = "loaded" /\ code \in step[c].codes
    /\ usedCodes' = [usedCodes EXCEPT ![code] = IF @ = 2 THEN 2 ELSE @ + 1]
    /\ step' = [step EXCEPT ![c].pc = "passed"]

\* Faulty variant: the code is accepted and not removed.
UseRecoveryCodeKeeping(c, code) ==
    /\ Accept(c, code)
    /\ UNCHANGED <<mfa, verifying, confirmed, races>>

\* consumeSecondFactor: the list that was read is written back without the code.
UseRecoveryCode(c, code) ==
    /\ Accept(c, code)
    /\ mfa' = [mfa EXCEPT !.codes = step[c].codes \ {code}]
    /\ races' = [races EXCEPT !.codes = @ \/ mfa.codes # step[c].codes]
    /\ UNCHANGED <<verifying, confirmed>>

\* Login: the session is issued.
FinishLogin(c) ==
    /\ step[c].pc = "passed" /\ step[c].for = "login"
    /\ step' = [step EXCEPT ![c] = NoStep]
    /\ UNCHANGED <<mfa, verifying, confirmed, usedCodes, races>>

\* Disable: MFA is switched off, whatever secret is in force by now.
FinishDisable(c) ==
    /\ step[c].pc = "passed" /\ step[c].for = "disable"
    /\ mfa' = [mfa EXCEPT !.enabled = FALSE, !.secret = NoSecret, !.codes = {}]
    /\ step' = [step EXCEPT ![c] = NoStep]
    /\ UNCHANGED <<verifying, confirmed, usedCodes, races>>

\* A wrong code, or a challenge that expires.
GiveUp(c) ==
    /\ step[c].pc = "loaded"
    /\ step' = [step EXCEPT ![c] = NoStep]
    /\ UNCHANGED <<mfa, verifying, confirmed, usedCodes, races>>

-----------------------------------------------------------------------------

MfaInit ==
    /\ mfa = [enabled |-> FALSE, secret |-> NoSecret, made |-> 0, codes |-> {}]
    /\ verifying = NoVerify
    /\ step = [c \in Challenges |-> NoStep]
    /\ confirmed = {}
    /\ usedCodes = NoUses
    /\ races = [codes |-> FALSE, secret |-> FALSE]

MfaNext ==
    \/ Enroll \/ VerifyRead \/ VerifyEnable
    \/ \E c \in Challenges :
          \/ \E for \in {"login", "disable"} : Load(c, for)
          \/ UseTotp(c) \/ FinishLogin(c) \/ FinishDisable(c) \/ GiveUp(c)
          \/ \E code \in RecoveryCodes : UseRecoveryCode(c, code)

MfaSpec == MfaInit /\ [][MfaNext]_mfaVars

-----------------------------------------------------------------------------
(* Properties *)

MfaTypeOK ==
    /\ mfa \in [enabled : BOOLEAN, secret : 0..MaxEnrols, made : 0..MaxEnrols,
                codes : SUBSET RecoveryCodes]
    /\ verifying \in [on : BOOLEAN, secret : 0..MaxEnrols]
    /\ step \in [Challenges -> [pc : {"idle", "loaded", "passed"}, for : {"login", "disable"},
                                secret : 0..MaxEnrols, codes : SUBSET RecoveryCodes]]
    /\ confirmed \subseteq 1..MaxEnrols
    /\ usedCodes \in [RecoveryCodes -> 0..2]
    /\ races \in [codes : BOOLEAN, secret : BOOLEAN]

\* "A matched recovery code is burned so it can't be replayed": a code of the
\* current list admits once, as long as no two requests had read the same list
\* (then the later write brings a used code back).
CodesAdmitOnce == ~ races.codes => \A c \in RecoveryCodes : usedCodes[c] <= 1

\* "MFA is not yet active; the user must confirm via Verify": a secret in force
\* was confirmed with a code, unless an enrolment replaced it while another
\* confirmation was between its check and its update.
SecretInForceConfirmed ==
    mfa.enabled /\ mfa.secret # NoSecret /\ ~ races.secret => mfa.secret \in confirmed

\* The second factor is one: the secret in force was confirmed and a recovery code
\* admits once, in any order of enrolments and sign-ins but the two named races.
SecondFactorHolds == CodesAdmitOnce /\ SecretInForceConfirmed
=============================================================================
