---------------------------- MODULE SecondFactor ----------------------------
(***************************************************************************)
(* The second factor of the accounts (setupMfa, enableMfa and disableMfa   *)
(* of AuthService): a secret is stored, confirmed by a code of it, and     *)
(* from then on login asks for its codes. A code is the secret it was      *)
(* computed from; what the authenticator library accepts is that.          *)
(***************************************************************************)
EXTENDS Handlers

CONSTANTS
  Holders,  \* ids of users
  Secrets   \* what generateSecret may draw; one is drawn once

VARIABLES
  factor,     \* user -> mfaSecret and mfaEnabled
  confirmed,  \* history: user -> the secrets a code was accepted for
  issued,     \* history: the secrets drawn so far
  reissued    \* history: who drew another one while the factor was enabled

secondFactor == <<factor, confirmed, issued, reissued>>

SecondFactorInit ==
  /\ factor = [u \in Holders |-> [secret |-> None, enabled |-> FALSE]]
  /\ confirmed = [u \in Holders |-> {}]
  /\ issued = {}
  /\ reissued = {}

(* verifyToken *)
Accepts(u, code) == factor[u].secret # None /\ code = factor[u].secret

-----------------------------------------------------------------------------
(* setupMfa writes the secret at once, and never looks at mfaEnabled. *)
SetupMfa(p, u, s) ==
  /\ AtOnce(p)
  /\ s \in Secrets \ issued
  /\ factor' = [factor EXCEPT ![u].secret = s]
  /\ issued' = issued \cup {s}
  /\ reissued' = IF factor[u].enabled THEN reissued \cup {u} ELSE reissued
  /\ UNCHANGED confirmed

(* enableMfa and disableMfa read the row and check the code, ... *)
Confirm(p, u, code, next) ==
  /\ Accepts(u, code)
  /\ Enter(p, next, [id |-> u, uses |-> {u}])
  /\ confirmed' = [confirmed EXCEPT ![u] = @ \cup {code}]
  /\ UNCHANGED <<factor, issued, reissued>>

(* Mutant: that setup has begun is enough. *)
EnableMfa_AnyCode(p, u, code) ==
  /\ factor[u].secret # None
  /\ Enter(p, "factor.enable", [id |-> u, uses |-> {u}])
  /\ UNCHANGED secondFactor

EnableMfa(p, u, code) == Confirm(p, u, code, "factor.enable")

DisableMfa(p, u, code) == Confirm(p, u, code, "factor.disable")

(* ... and write it by id. *)
WriteEnabled(p) ==
  /\ At(p, "factor.enable")
  /\ factor' = [factor EXCEPT ![frame[p].id].enabled = TRUE]
  /\ Finish(p)
  /\ UNCHANGED <<confirmed, issued, reissued>>

WriteDisabled(p) ==
  /\ At(p, "factor.disable")
  /\ factor' = [factor EXCEPT ![frame[p].id] = [secret |-> None, enabled |-> FALSE]]
  /\ reissued' = reissued \ {frame[p].id}
  /\ Finish(p)
  /\ UNCHANGED <<confirmed, issued>>

FactorRoutes(p) ==
  \E u \in Holders, s \in Secrets : SetupMfa(p, u, s) \/ EnableMfa(p, u, s) \/ DisableMfa(p, u, s)

ContinueFactor(p) ==
  \/ WriteEnabled(p) \/ WriteDisabled(p)
  \/ (Fail(p) /\ UNCHANGED secondFactor)

(* What the handlers rely on is the secret they checked the code with. *)
SecretsChanged == {u \in Holders : factor'[u].secret # factor[u].secret}

FactorNext ==
  /\ \E p \in Procs : FactorRoutes(p) \/ ContinueFactor(p)
  /\ Watch(SecretsChanged)

FactorSpec == HandlersInit /\ SecondFactorInit /\ [][FactorNext]_<<pc, frame, stale, secondFactor>>

-----------------------------------------------------------------------------
(* Properties *)

(* Login asks for codes of a secret only once the user has shown one of    *)
(* them, so that nobody who gives up during setup is locked out, unless    *)
(* the secret changed between the check of a code and the write it was     *)
(* for, or was drawn anew while the factor was enabled.                    *)
EnforcedIsConfirmed ==
  \A u \in Holders :
    factor[u].enabled => factor[u].secret \in confirmed[u] \/ u \in reissued \/ u \in stale
=============================================================================
