-------------------------------- MODULE SignIn --------------------------------
(***************************************************************************)
(* Signing in to one account: password, second factor, recovery codes and  *)
(* the identity provider (apps/api/src/routes/auth.ts, auth-mfa.ts,        *)
(* auth-oidc.ts over the Postgres identity store).                         *)
(*                                                                         *)
(* A request is one handler, suspended at the await named by its at field. *)
(* Passwords, authenticator codes and the statuses of the user, the        *)
(* organization and the membership are left out: a check of theirs that    *)
(* refuses ends a request that has written nothing, like Fail.  Which   *)
(* secret is stored does not matter: the person who signs in has them all. *)
(* A recovery code stands for a set of them; codes holds the unused ones.  *)
(***************************************************************************)
EXTENDS Naturals, FiniteSets

CONSTANTS
    Requests,
    Sessions,    \* session ids
    Challenges,  \* ids of second-factor challenges
    States,      \* ids of authorizations under way at the identity provider
    MaxCodes,    \* bound: recovery codes minted
    None

ASSUME SignInAssumption ==
    /\ MaxCodes \in Nat \ {0}
    /\ None \notin Challenges /\ None \notin States

\* The MFA columns of the user: whether there is a secret, one to confirm, and
\* the time of its confirmation.  While MFA is enabled there is a secret: without
\* one the challenge of a login could not be answered.
Mfa == {row \in [secret : BOOLEAN, pending : BOOLEAN, enabled : BOOLEAN] :
           row.enabled => row.secret}

NotEnrolled == [secret |-> FALSE, pending |-> FALSE, enabled |-> FALSE]

Enrolled == [secret |-> TRUE, pending |-> FALSE, enabled |-> TRUE]

\* What a request was accepted with, besides a password.
Evidence == [challenge : Challenges \cup {None}, code : 0 .. MaxCodes, state : States \cup {None}]

NoEvidence == [challenge |-> None, code |-> 0, state |-> None]

Location == {"idle", "gate", "challenge", "issue", "verify", "code", "redeem", "spend",
             "claim", "pend", "enable", "replace", "commit"}

\* A request: its await, its evidence, the MFA columns it read, the codes its
\* delete matched; enrolled is history: a login began while MFA was
\* enabled.
Request == [at : Location, evidence : Evidence, mfa : Mfa, doomed : SUBSET (1 .. MaxCodes),
            enrolled : BOOLEAN]

Idle == [at |-> "idle", evidence |-> NoEvidence, mfa |-> NotEnrolled, doomed |-> {},
         enrolled |-> FALSE]

Session == [evidence : Evidence, enrolled : BOOLEAN, valid : BOOLEAN]

ASSUME SessionAssumption == None \notin Session

Token == {"absent", "open", "expired", "consumed"}

VARIABLES
    mfa,         \* the MFA columns of the user
    codes,       \* unused recovery codes
    minted,      \* recovery codes minted so far
    challenges,  \* challenges[c]: the state of its row
    states,      \* states[x]: the state of its row
    sessions,    \* sessions[s]: its row, or None
    req,         \* req[r]: a request's local state
    lost         \* history: an enrollment that read before a confirmation wrote after it

vars == <<mfa, codes, minted, challenges, states, sessions, req, lost>>

TypeOK ==
    /\ mfa \in Mfa
    /\ codes \subseteq 1 .. minted
    /\ minted \in 0 .. MaxCodes
    /\ challenges \in [Challenges -> Token]
    /\ states \in [States -> Token]
    /\ sessions \in [Sessions -> Session \cup {None}]
    /\ req \in [Requests -> Request]
    /\ lost \in BOOLEAN

\* The account may have enrolled before, from a session that has ended.
Init ==
    /\ \/ mfa = NotEnrolled /\ minted = 0
       \/ mfa = Enrolled /\ minted = 1
    /\ codes = 1 .. minted
    /\ challenges = [c \in Challenges |-> "absent"]
    /\ states = [x \in States |-> "absent"]
    /\ sessions = [s \in Sessions |-> None]
    /\ req = [r \in Requests |-> Idle]
    /\ lost = FALSE

-----------------------------------------------------------------------------
(* Helpers                                                                 *)

At(r, location) == req[r].at = location

Goto(r, to) == req' = [req EXCEPT ![r].at = to]

Answer(r) == req' = [req EXCEPT ![r] = Idle]

Begin(r, at, evidence) ==
    req' = [req EXCEPT ![r] = [Idle EXCEPT !.at = at, !.evidence = evidence]]

SignedIn == \E s \in Sessions : sessions[s] # None /\ sessions[s].valid

\* The conditional updates match an unconsumed row, expired or not.
Unconsumed(token) == token \in {"open", "expired"}

-----------------------------------------------------------------------------
(* Password and challenge                                                  *)

\* privileged: the organization requires MFA and the role is a privileged one.
MfaGate(enrolled, privileged) ==
    IF enrolled THEN "verify" ELSE IF privileged THEN "enroll_required" ELSE "none"

Login(r) ==
    /\ At(r, "idle")
    /\ req' = [req EXCEPT ![r] = [Idle EXCEPT !.at = "gate", !.enrolled = mfa.enabled]]
    /\ UNCHANGED <<mfa, codes, minted, challenges, states, sessions, lost>>

Gate(r) ==
    /\ At(r, "gate")
    /\ \E privileged \in BOOLEAN :
          \/ MfaGate(mfa.enabled, privileged) = "verify" /\ Goto(r, "challenge")
          \/ MfaGate(mfa.enabled, privileged) = "none" /\ Goto(r, "issue")
          \/ MfaGate(mfa.enabled, privileged) = "enroll_required" /\ Answer(r)
    /\ UNCHANGED <<mfa, codes, minted, challenges, states, sessions, lost>>

\* The answer of a login that must verify: a new challenge.
Challenge(r, c) ==
    /\ At(r, "challenge")
    /\ challenges[c] = "absent"
    /\ challenges' = [challenges EXCEPT ![c] = "open"]
    /\ Answer(r)
    /\ UNCHANGED <<mfa, codes, minted, states, sessions, lost>>

\* issueHumanSession.
Issue(r, s) ==
    /\ At(r, "issue")
    /\ sessions[s] = None
    /\ sessions' = [sessions EXCEPT ![s] = [evidence |-> req[r].evidence,
                                            enrolled |-> req[r].enrolled, valid |-> TRUE]]
    /\ Answer(r)
    /\ UNCHANGED <<mfa, codes, minted, challenges, states, lost>>

-----------------------------------------------------------------------------
(* Verifying                                                               *)

\* A challenge is found while it is neither consumed nor expired.
Verify(r, c) ==
    /\ At(r, "idle")
    /\ challenges[c] = "open"
    /\ Begin(r, "verify", [NoEvidence EXCEPT !.challenge = c])
    /\ UNCHANGED <<mfa, codes, minted, challenges, states, sessions, lost>>

\* The user must have a secret; whether MFA is enabled is not looked at.
ReadSecret(r) ==
    /\ At(r, "verify")
    /\ IF mfa.secret THEN Goto(r, "code") ELSE Answer(r)
    /\ UNCHANGED <<mfa, codes, minted, challenges, states, sessions, lost>>

\* A code of the authenticator is accepted, or a recovery code is found unused.
Present(r) ==
    /\ At(r, "code")
    /\ \/ Goto(r, "spend")
       \/ \E code \in codes :
             req' = [req EXCEPT ![r].at = "redeem", ![r].evidence.code = code]
    /\ UNCHANGED <<mfa, codes, minted, challenges, states, sessions, lost>>

\* A row a replacement has deleted is locked until it commits.
Locked(code) == \E q \in Requests : At(q, "commit") /\ code \in req[q].doomed

\* Mutant: the update is not conditional.
RedeemAnyway(r) ==
    /\ At(r, "redeem")
    /\ ~Locked(req[r].evidence.code)
    /\ codes' = codes \ {req[r].evidence.code}
    /\ Goto(r, "spend")
    /\ UNCHANGED <<mfa, minted, challenges, states, sessions, lost>>

\* consumeRecoveryCode: a code used or replaced meanwhile is refused.
Redeem(r) ==
    /\ At(r, "redeem")
    /\ ~Locked(req[r].evidence.code)
    /\ codes' = codes \ {req[r].evidence.code}
    /\ IF req[r].evidence.code \in codes THEN Goto(r, "spend") ELSE Answer(r)
    /\ UNCHANGED <<mfa, minted, challenges, states, sessions, lost>>

\* consumeMfaChallenge: a challenge consumed meanwhile is refused.
Spend(r) ==
    LET c == req[r].evidence.challenge
    IN /\ At(r, "spend")
       /\ IF Unconsumed(challenges[c])
          THEN challenges' = [challenges EXCEPT ![c] = "consumed"] /\ Goto(r, "issue")
          ELSE Answer(r) /\ UNCHANGED challenges
       /\ UNCHANGED <<mfa, codes, minted, states, sessions, lost>>

-----------------------------------------------------------------------------
(* The identity provider                                                   *)

StartOidc(x) ==
    /\ states[x] = "absent"
    /\ states' = [states EXCEPT ![x] = "open"]
    /\ UNCHANGED <<mfa, codes, minted, challenges, sessions, req, lost>>

Callback(r, x) ==
    /\ At(r, "idle")
    /\ states[x] = "open"
    /\ Begin(r, "claim", [NoEvidence EXCEPT !.state = x])
    /\ UNCHANGED <<mfa, codes, minted, challenges, states, sessions, lost>>

\* consumeOidcState's update; the exchange and the mapping to the user follow.
Claim(r) ==
    LET x == req[r].evidence.state
    IN /\ At(r, "claim")
       /\ IF Unconsumed(states[x])
          THEN states' = [states EXCEPT ![x] = "consumed"] /\ Goto(r, "issue")
          ELSE Answer(r) /\ UNCHANGED states
       /\ UNCHANGED <<mfa, codes, minted, challenges, sessions, lost>>

-----------------------------------------------------------------------------
(* Enrolling                                                               *)

\* Mutant: the secret in use is given up with the new one unconfirmed.
EnrollAnew(r) ==
    /\ At(r, "idle") /\ SignedIn
    /\ req' = [req EXCEPT ![r] = [Idle EXCEPT !.at = "pend",
                                              !.mfa = [mfa EXCEPT !.pending = TRUE,
                                                                  !.secret = FALSE]]]
    /\ UNCHANGED <<mfa, codes, minted, challenges, states, sessions, lost>>

\* Enroll makes a secret and reads the columns it will write back with it.
Enroll(r) ==
    /\ At(r, "idle") /\ SignedIn
    /\ req' = [req EXCEPT ![r] = [Idle EXCEPT !.at = "pend",
                                              !.mfa = [mfa EXCEPT !.pending = TRUE]]]
    /\ UNCHANGED <<mfa, codes, minted, challenges, states, sessions, lost>>

\* Mutant: a new enrollment gives up the one in force.
PendOnly(r) ==
    /\ At(r, "pend")
    /\ mfa' = [NotEnrolled EXCEPT !.pending = TRUE]
    /\ lost' = (lost \/ (mfa.enabled /\ ~req[r].mfa.enabled))
    /\ Answer(r)
    /\ UNCHANGED <<codes, minted, challenges, states, sessions>>

\* All the columns are written, as they were read but for the pending secret.
Pend(r) ==
    /\ At(r, "pend")
    /\ mfa' = req[r].mfa
    /\ lost' = (lost \/ (mfa.enabled /\ ~req[r].mfa.enabled))
    /\ Answer(r)
    /\ UNCHANGED <<codes, minted, challenges, states, sessions>>

\* Confirm finds a pending secret and is shown a code of it.
Confirm(r) ==
    /\ At(r, "idle") /\ SignedIn /\ mfa.pending
    /\ Begin(r, "enable", NoEvidence)
    /\ UNCHANGED <<mfa, codes, minted, challenges, states, sessions, lost>>

Enable(r) ==
    /\ At(r, "enable")
    /\ mfa' = Enrolled
    /\ Goto(r, "replace")
    /\ UNCHANGED <<codes, minted, challenges, states, sessions, lost>>

Regenerate(r) ==
    /\ At(r, "idle") /\ SignedIn /\ mfa.enabled /\ mfa.secret
    /\ Begin(r, "replace", NoEvidence)
    /\ UNCHANGED <<mfa, codes, minted, challenges, states, sessions, lost>>

\* replaceRecoveryCodes: the delete matches the codes committed when it starts,
Replace(r) ==
    /\ At(r, "replace")
    /\ req' = [req EXCEPT ![r].at = "commit", ![r].doomed = codes]
    /\ UNCHANGED <<mfa, codes, minted, challenges, states, sessions, lost>>

\* and the commit adds the new ones.
Commit(r) ==
    /\ At(r, "commit") /\ minted < MaxCodes
    /\ minted' = minted + 1
    /\ codes' = (codes \ req[r].doomed) \cup {minted + 1}
    /\ Answer(r)
    /\ UNCHANGED <<mfa, challenges, states, sessions, lost>>

-----------------------------------------------------------------------------
(* The environment                                                         *)

\* A read, a write or the provider fails, or the process stops: what was
\* committed stays.
Fail(r) ==
    /\ ~At(r, "idle")
    /\ Answer(r)
    /\ UNCHANGED <<mfa, codes, minted, challenges, states, sessions, lost>>

\* Logout, or the end of a session's lifetime.
Logout(s) ==
    /\ sessions[s] # None /\ sessions[s].valid
    /\ sessions' = [sessions EXCEPT ![s].valid = FALSE]
    /\ UNCHANGED <<mfa, codes, minted, challenges, states, req, lost>>

ExpireChallenge(c) ==
    /\ challenges[c] = "open"
    /\ challenges' = [challenges EXCEPT ![c] = "expired"]
    /\ UNCHANGED <<mfa, codes, minted, states, sessions, req, lost>>

ExpireState(x) ==
    /\ states[x] = "open"
    /\ states' = [states EXCEPT ![x] = "expired"]
    /\ UNCHANGED <<mfa, codes, minted, challenges, sessions, req, lost>>

Next ==
    \/ \E r \in Requests :
          \/ Login(r) \/ Gate(r) \/ ReadSecret(r) \/ Present(r) \/ Redeem(r) \/ Spend(r)
          \/ Claim(r) \/ Enroll(r) \/ Pend(r) \/ Confirm(r) \/ Enable(r) \/ Regenerate(r)
          \/ Replace(r) \/ Commit(r) \/ Fail(r)
          \/ \E c \in Challenges : Challenge(r, c) \/ Verify(r, c)
          \/ \E s \in Sessions : Issue(r, s)
          \/ \E x \in States : Callback(r, x)
    \/ \E s \in Sessions : Logout(s)
    \/ \E c \in Challenges : ExpireChallenge(c)
    \/ \E x \in States : StartOidc(x) \/ ExpireState(x)

Spec == Init /\ [][Next]_vars

-----------------------------------------------------------------------------
(* Properties                                                              *)

\* docs/AUTH.md:60 "A used recovery code cannot be reused" and
\* docs/SELVO_ARCHITECTURE_CURRENT.md:232 "single use": a challenge, a recovery
\* code or an authorization signs in once, whatever requests overlap, codes are
\* replaced and steps fail.
OneSignInEach ==
    \A s, t \in Sessions :
        sessions[s] # None /\ sessions[t] # None /\ s # t =>
            LET e == sessions[s].evidence
                f == sessions[t].evidence
            IN  /\ e.challenge = f.challenge => e.challenge = None
                /\ e.code = f.code => e.code = 0
                /\ e.state = f.state => e.state = None

\* docs/AUTH.md:55 "yes / any / any: 202": a login that began while MFA was
\* enabled yields no session on the password alone, whoever enrolls again
\* meanwhile; unless an enrollment that had read before the confirmation wrote its
\* stale columns back.
SecondFactorHeld ==
    lost \/ \A s \in Sessions :
               sessions[s] # None /\ sessions[s].evidence = NoEvidence => ~sessions[s].enrolled
=============================================================================
