----------------------------- MODULE SignInProofs -----------------------------
(***************************************************************************)
(* Proofs about SignIn, for any requests, sessions, challenges, states and *)
(* codes.                                                                  *)
(*                                                                         *)
(* What a request has been accepted with is spent: its challenge and its   *)
(* authorization are consumed, its code is no longer among the unused.  So *)
(* nothing another request can still be accepted with is the same, and the *)
(* evidence of sessions and of requests about to open one is pairwise      *)
(* different.                                                              *)
(***************************************************************************)
EXTENDS SignIn, TLAPS

\* What a request has been accepted with so far.
Accepted(row) ==
    CASE row.at = "issue" -> row.evidence
      [] row.at = "spend" -> [NoEvidence EXCEPT !.code = row.evidence.code]
      [] OTHER -> NoEvidence

Held(row) == IF row = None THEN NoEvidence ELSE row.evidence

\* Under challenges cs, states xs, unused codes us of the m minted.
Paid(e, cs, xs, us, m) ==
    /\ e.challenge # None => cs[e.challenge] = "consumed"
    /\ e.state # None => xs[e.state] = "consumed"
    /\ e.code <= m /\ e.code \notin us

Differ(e, f) ==
    /\ e.challenge = f.challenge => e.challenge = None
    /\ e.code = f.code => e.code = 0
    /\ e.state = f.state => e.state = None

\* The evidence a request carries at each of its awaits.
Shape(row, m) ==
    /\ row.at \in {"verify", "code", "redeem", "spend"} =>
          row.evidence.challenge # None /\ row.evidence.state = None
    /\ row.at \in {"verify", "code"} => row.evidence.code = 0
    /\ row.at = "claim" =>
          row.evidence.state # None /\ row.evidence.code = 0 /\ row.evidence.challenge = None
    /\ row.at = "gate" => row.evidence = NoEvidence
    /\ row.evidence.code <= m

\* A login that began enrolled is at the gate, or past it without evidence.
LoginHeld(row, enabled) == row.at = "gate" /\ row.enrolled => enabled

IssueHeld(row) == row.at = "issue" /\ row.evidence = NoEvidence => ~row.enrolled

SessionHeld(row) == row # None /\ row.evidence = NoEvidence => ~row.enrolled

Distinct ==
    /\ \A s, t \in Sessions : s # t => Differ(Held(sessions[s]), Held(sessions[t]))
    /\ \A s \in Sessions : \A r \in Requests : Differ(Held(sessions[s]), Accepted(req[r]))
    /\ \A q, r \in Requests : q # r => Differ(Accepted(req[q]), Accepted(req[r]))

FactorHeld ==
    /\ \A r \in Requests : LoginHeld(req[r], mfa.enabled) /\ IssueHeld(req[r])
    /\ \A s \in Sessions : SessionHeld(sessions[s])

IInv ==
    /\ TypeOK
    /\ \A r \in Requests : /\ Shape(req[r], minted)
                           /\ Paid(Accepted(req[r]), challenges, states, codes, minted)
    /\ \A s \in Sessions : Paid(Held(sessions[s]), challenges, states, codes, minted)
    /\ Distinct
    /\ ~lost => FactorHeld

-----------------------------------------------------------------------------
(* Evidence                                                                *)

LEMMA NoEvidenceIs ==
    /\ NoEvidence \in Evidence
    /\ NoEvidence.challenge = None /\ NoEvidence.code = 0 /\ NoEvidence.state = None
BY SignInAssumption DEF NoEvidence, Evidence

LEMMA NotEnrolledIs ==
    /\ NotEnrolled \in Mfa /\ ~NotEnrolled.enabled
    /\ Enrolled \in Mfa /\ Enrolled.enabled
BY DEF NotEnrolled, Enrolled, Mfa

LEMMA IdleIs ==
    /\ Idle \in Request /\ Idle.at = "idle" /\ Idle.evidence = NoEvidence
    /\ Accepted(Idle) = NoEvidence
<1>1. Idle \in Request /\ Idle.at = "idle" /\ Idle.evidence = NoEvidence
  BY NoEvidenceIs, NotEnrolledIs DEF Idle, Request, Location
<1>2. QED
  BY <1>1 DEF Accepted

LEMMA CodeEvidence ==
    ASSUME NEW e \in Evidence
    PROVE  LET f == [NoEvidence EXCEPT !.code = e.code]
           IN  f \in Evidence /\ f.code = e.code /\ f.challenge = None /\ f.state = None
<1>1. \A g \in Evidence : LET f == [g EXCEPT !.code = e.code]
                          IN  /\ f \in Evidence /\ f.code = e.code
                              /\ f.challenge = g.challenge /\ f.state = g.state
  BY DEF Evidence
<1>2. QED
  BY <1>1, NoEvidenceIs

\* What Accepted says at each await.
LEMMA AcceptedIs ==
    ASSUME NEW row \in Request
    PROVE  /\ Accepted(row) \in Evidence
           /\ row.at = "issue" => Accepted(row) = row.evidence
           /\ row.at = "spend" => /\ Accepted(row).code = row.evidence.code
                                  /\ Accepted(row).challenge = None /\ Accepted(row).state = None
           /\ row.at \notin {"issue", "spend"} => Accepted(row) = NoEvidence
<1>1. row.evidence \in Evidence
  BY DEF Request
<1>2. CASE row.at = "issue"
  BY <1>1, <1>2 DEF Accepted
<1>3. CASE row.at = "spend"
  <2>1. Accepted(row) = [NoEvidence EXCEPT !.code = row.evidence.code]
    BY <1>3 DEF Accepted
  <2>2. QED
    BY <1>1, <1>3, <2>1, CodeEvidence
<1>4. CASE row.at \notin {"issue", "spend"}
  <2>1. Accepted(row) = NoEvidence
    BY <1>4 DEF Accepted
  <2>2. QED
    BY <1>4, <2>1, NoEvidenceIs
<1>5. QED
  BY <1>2, <1>3, <1>4

LEMMA HeldIs ==
    ASSUME NEW row \in Session \cup {None}
    PROVE  Held(row) \in Evidence /\ (row # None => Held(row) = row.evidence)
BY NoEvidenceIs DEF Held, Session

LEMMA DifferSymmetric == ASSUME NEW e, NEW f, Differ(e, f) PROVE Differ(f, e)
BY DEF Differ

LEMMA DifferNone ==
    ASSUME NEW e \in Evidence
    PROVE  Differ(e, NoEvidence) /\ Differ(NoEvidence, e)
BY NoEvidenceIs DEF Differ

LEMMA PaidNone == ASSUME TypeOK PROVE Paid(NoEvidence, challenges, states, codes, minted)
<1>1. 0 \notin codes /\ minted \in Nat
  BY SignInAssumption DEF TypeOK
<1>2. QED
  BY <1>1, NoEvidenceIs DEF Paid

\* What was spent stays spent.
Progress ==
    /\ minted' \in Nat /\ minted <= minted'
    /\ \A c \in Challenges : challenges[c] = "consumed" => challenges'[c] = "consumed"
    /\ \A x \in States : states[x] = "consumed" => states'[x] = "consumed"
    /\ \A code \in codes' : code \in codes \/ code > minted

LEMMA PaidStays ==
    ASSUME TypeOK, Progress, NEW e \in Evidence,
           Paid(e, challenges, states, codes, minted)
    PROVE  Paid(e, challenges', states', codes', minted')
<1>1. minted \in Nat /\ e.code \in Nat /\ e.code <= minted
  BY SignInAssumption DEF TypeOK, Evidence, Paid
<1>2. e.code <= minted' /\ e.code \notin codes'
  BY <1>1 DEF Paid, Progress
<1>3. QED
  BY <1>2 DEF Paid, Progress, Evidence

LEMMA ShapeStays ==
    ASSUME TypeOK, Progress, NEW row \in Request, Shape(row, minted)
    PROVE  Shape(row, minted')
<1>1. minted \in Nat /\ row.evidence.code \in Nat
  BY SignInAssumption DEF TypeOK, Request, Evidence
<1>2. row.evidence.code <= minted'
  BY <1>1 DEF Shape, Progress
<1>3. QED
  BY <1>2 DEF Shape

-----------------------------------------------------------------------------
(* Steps of one request                                                    *)

\* MFA is not disabled, unless by the enrollment that is recorded as lost.
Keeps == lost' \in BOOLEAN /\ (lost => lost') /\ (~lost' => (mfa.enabled => mfa'.enabled))

\* A step of one request that leaves the sessions alone preserves the invariant
\* when the request is as the invariant wants it.
LEMMA OneRequest ==
    ASSUME IInv, NEW r \in Requests, NEW new \in Request,
           req' = [req EXCEPT ![r] = new], UNCHANGED sessions,
           mfa' \in Mfa, minted' \in 0 .. MaxCodes, codes' \subseteq 1 .. minted',
           challenges' \in [Challenges -> Token], states' \in [States -> Token],
           Progress, Keeps,
           Shape(new, minted'), Paid(Accepted(new), challenges', states', codes', minted'),
           \A s \in Sessions : Differ(Held(sessions[s]), Accepted(new)),
           \A q \in Requests \ {r} : Differ(Accepted(req[q]), Accepted(new)),
           ~lost' => LoginHeld(new, mfa'.enabled) /\ IssueHeld(new)
    PROVE  IInv'
<1>1. TypeOK /\ TypeOK'
  BY DEF IInv, TypeOK, Keeps
<1>2. req'[r] = new /\ \A q \in Requests : q # r => req'[q] = req[q] /\ req[q] \in Request
  BY <1>1 DEF TypeOK
<1>3. \A s \in Sessions : sessions'[s] = sessions[s] /\ sessions[s] \in Session \cup {None}
  BY <1>1 DEF TypeOK
<1>4. \A q \in Requests : /\ Shape(req'[q], minted')
                          /\ Paid(Accepted(req'[q]), challenges', states', codes', minted')
  <2>1. ASSUME NEW q \in Requests, q # r
        PROVE  /\ Shape(req[q], minted')
               /\ Paid(Accepted(req[q]), challenges', states', codes', minted')
    <3>1. /\ req[q] \in Request /\ Shape(req[q], minted)
          /\ Paid(Accepted(req[q]), challenges, states, codes, minted)
      BY <1>2, <2>1 DEF IInv
    <3>2. Accepted(req[q]) \in Evidence
      BY <3>1, AcceptedIs
    <3>3. QED
      BY <1>1, <3>1, <3>2, ShapeStays, PaidStays
  <2>2. QED
    BY <1>2, <2>1
<1>5. \A s \in Sessions : Paid(Held(sessions'[s]), challenges', states', codes', minted')
  <2>1. \A s \in Sessions : /\ Held(sessions[s]) \in Evidence
                            /\ Paid(Held(sessions[s]), challenges, states, codes, minted)
    BY <1>3, HeldIs DEF IInv
  <2>2. QED
    BY <1>1, <1>3, <2>1, PaidStays
<1>6. Distinct'
  <2>1. \A s, t \in Sessions : s # t => Differ(Held(sessions'[s]), Held(sessions'[t]))
    BY <1>3 DEF IInv, Distinct
  <2>2. \A s \in Sessions : \A q \in Requests : Differ(Held(sessions'[s]), Accepted(req'[q]))
    BY <1>2, <1>3 DEF IInv, Distinct
  <2>3. \A p, q \in Requests : p # q => Differ(Accepted(req'[p]), Accepted(req'[q]))
    <3>1. SUFFICES ASSUME NEW p \in Requests, NEW q \in Requests, p # q
                   PROVE  Differ(Accepted(req'[p]), Accepted(req'[q]))
      OBVIOUS
    <3>2. CASE p # r /\ q # r
      BY <1>2, <3>1, <3>2 DEF IInv, Distinct
    <3>3. CASE q = r
      BY <1>2, <3>1, <3>3
    <3>4. CASE p = r
      BY <1>2, <3>1, <3>4, DifferSymmetric
    <3>5. QED
      BY <3>2, <3>3, <3>4
  <2>4. QED
    BY <2>1, <2>2, <2>3 DEF Distinct
<1>7. ASSUME ~lost' PROVE FactorHeld'
  <2>1. ~lost /\ (mfa.enabled => mfa'.enabled) /\ FactorHeld
    BY <1>7 DEF Keeps, IInv
  <2>2. \A s \in Sessions : SessionHeld(sessions'[s])
    BY <1>3, <2>1 DEF FactorHeld
  <2>3. \A q \in Requests : LoginHeld(req'[q], mfa'.enabled) /\ IssueHeld(req'[q])
    <3>1. \A q \in Requests : q # r => LoginHeld(req[q], mfa'.enabled) /\ IssueHeld(req[q])
      BY <2>1 DEF FactorHeld, LoginHeld
    <3>2. QED
      BY <1>2, <1>7, <3>1
  <2>4. QED
    BY <2>2, <2>3 DEF FactorHeld
<1>8. QED
  BY <1>1, <1>4, <1>5, <1>6, <1>7 DEF IInv

LEMMA ProgressNone == ASSUME TypeOK, UNCHANGED <<codes, minted, challenges, states>> PROVE Progress
BY SignInAssumption DEF TypeOK, Progress

\* When the request has not been accepted with anything, nothing can be the same.
LEMMA Unaccepted ==
    ASSUME IInv, NEW r \in Requests, NEW new \in Request,
           req' = [req EXCEPT ![r] = new], UNCHANGED sessions,
           mfa' \in Mfa, minted' \in 0 .. MaxCodes, codes' \subseteq 1 .. minted',
           challenges' \in [Challenges -> Token], states' \in [States -> Token],
           Progress, Keeps, Accepted(new) = NoEvidence, Shape(new, minted'),
           ~lost' => LoginHeld(new, mfa'.enabled) /\ IssueHeld(new)
    PROVE  IInv'
<1>1. TypeOK
  BY DEF IInv
<1>2. Paid(Accepted(new), challenges', states', codes', minted')
  BY <1>1, PaidNone, PaidStays, NoEvidenceIs
<1>3. \A s \in Sessions : Differ(Held(sessions[s]), Accepted(new))
  <2>1. \A s \in Sessions : Held(sessions[s]) \in Evidence
    BY <1>1, HeldIs DEF TypeOK
  <2>2. QED
    BY <2>1, DifferNone
<1>4. \A q \in Requests \ {r} : Differ(Accepted(req[q]), Accepted(new))
  <2>1. \A q \in Requests : Accepted(req[q]) \in Evidence
    BY <1>1, AcceptedIs DEF TypeOK
  <2>2. QED
    BY <2>1, DifferNone
<1>5. QED
  BY <1>2, <1>3, <1>4, OneRequest

LEMMA KeepsNone == ASSUME TypeOK, UNCHANGED <<mfa, lost>> PROVE Keeps
BY DEF TypeOK, Keeps

\* And when it has only read.
LEMMA Reads ==
    ASSUME IInv, NEW r \in Requests, NEW new \in Request,
           req' = [req EXCEPT ![r] = new],
           UNCHANGED <<mfa, codes, minted, challenges, states, sessions, lost>>,
           Accepted(new) = NoEvidence, Shape(new, minted),
           ~lost => LoginHeld(new, mfa.enabled) /\ IssueHeld(new)
    PROVE  IInv'
<1>1. TypeOK
  BY DEF IInv
<1>2. /\ Progress /\ Keeps
      /\ mfa' \in Mfa /\ minted' \in 0 .. MaxCodes /\ codes' \subseteq 1 .. minted'
      /\ challenges' \in [Challenges -> Token] /\ states' \in [States -> Token]
  BY <1>1, ProgressNone, KeepsNone DEF TypeOK
<1>3. Shape(new, minted') /\ (~lost' => LoginHeld(new, mfa'.enabled) /\ IssueHeld(new))
  OBVIOUS
<1>4. QED
  BY <1>2, <1>3, Unaccepted

\* A request that has ended, or begun, fits everywhere.
LEMMA IdleFits ==
    ASSUME TypeOK, NEW enabled
    PROVE  /\ Idle \in Request /\ Accepted(Idle) = NoEvidence
           /\ LoginHeld(Idle, enabled) /\ IssueHeld(Idle)
           /\ \A m \in Nat : Shape(Idle, m)
<1>1. NoEvidence.code = 0
  BY NoEvidenceIs
<1>2. QED
  BY <1>1, IdleIs DEF LoginHeld, IssueHeld, Shape

LEMMA AnswerKeeps ==
    ASSUME IInv, NEW r \in Requests, Answer(r), UNCHANGED sessions,
           mfa' \in Mfa, minted' \in 0 .. MaxCodes, codes' \subseteq 1 .. minted',
           challenges' \in [Challenges -> Token], states' \in [States -> Token],
           Progress, Keeps
    PROVE  IInv'
<1>1. TypeOK
  BY DEF IInv
<1>2. req' = [req EXCEPT ![r] = Idle]
  BY DEF Answer
<1>3. Idle \in Request /\ Accepted(Idle) = NoEvidence /\ IssueHeld(Idle)
  BY <1>1, IdleFits
<1>4. LoginHeld(Idle, mfa'.enabled)
  BY IdleIs DEF LoginHeld
<1>5. Shape(Idle, minted')
  BY <1>1, IdleFits DEF Progress
<1>6. QED
  BY <1>2, <1>3, <1>4, <1>5, Unaccepted

\* Moving on to an await at which nothing has been accepted.
LEMMA MoveIs ==
    ASSUME NEW row \in Request, NEW to \in Location
    PROVE  LET new == [row EXCEPT !.at = to]
           IN  /\ new \in Request /\ new.at = to
               /\ new.evidence = row.evidence /\ new.mfa = row.mfa
               /\ new.doomed = row.doomed /\ new.enrolled = row.enrolled
BY DEF Request

LEMMA BeginIs ==
    ASSUME NEW to \in Location, NEW e \in Evidence
    PROVE  LET new == [Idle EXCEPT !.at = to, !.evidence = e]
           IN  /\ new \in Request /\ new.at = to /\ new.evidence = e
               /\ new.enrolled = FALSE
<1>1. \A row \in Request : LET new == [row EXCEPT !.at = to, !.evidence = e]
                           IN  /\ new \in Request /\ new.at = to /\ new.evidence = e
                               /\ new.enrolled = row.enrolled
  BY DEF Request
<1>2. Idle \in Request /\ Idle.enrolled = FALSE
  BY IdleIs DEF Idle
<1>3. QED
  BY <1>1, <1>2

-----------------------------------------------------------------------------
(* Password and challenge                                                  *)

LEMMA LoginKeeps == ASSUME IInv, NEW r \in Requests, Login(r) PROVE IInv'
<1> DEFINE new == [Idle EXCEPT !.at = "gate", !.enrolled = mfa.enabled]
<1>1. TypeOK /\ mfa.enabled \in BOOLEAN /\ minted \in Nat
  BY SignInAssumption DEF IInv, TypeOK, Mfa
<1>2. new \in Request /\ new.at = "gate" /\ new.evidence = NoEvidence
      /\ new.enrolled = mfa.enabled
  <2>1. \A row \in Request :
           LET n == [row EXCEPT !.at = "gate", !.enrolled = mfa.enabled]
           IN  /\ n \in Request /\ n.at = "gate" /\ n.evidence = row.evidence
               /\ n.enrolled = mfa.enabled
    BY <1>1 DEF Request, Location
  <2>2. QED
    BY <2>1, IdleIs
<1>3. req' = [req EXCEPT ![r] = new]
  BY DEF Login
<1> HIDE DEF new
<1>4. Accepted(new) = NoEvidence
  BY <1>2, AcceptedIs
<1>5. Shape(new, minted)
  BY <1>1, <1>2, NoEvidenceIs DEF Shape
<1>6. LoginHeld(new, mfa.enabled) /\ IssueHeld(new)
  BY <1>2 DEF LoginHeld, IssueHeld
<1>7. QED
  BY <1>2, <1>3, <1>4, <1>5, <1>6, Reads DEF Login

LEMMA AnswersOnly ==
    ASSUME IInv, NEW r \in Requests, Answer(r),
           UNCHANGED <<mfa, codes, minted, challenges, states, sessions, lost>>
    PROVE  IInv'
<1>1. TypeOK
  BY DEF IInv
<1>2. /\ Progress /\ Keeps
      /\ mfa' \in Mfa /\ minted' \in 0 .. MaxCodes /\ codes' \subseteq 1 .. minted'
      /\ challenges' \in [Challenges -> Token] /\ states' \in [States -> Token]
  BY <1>1, ProgressNone, KeepsNone DEF TypeOK
<1>3. QED
  BY <1>2, AnswerKeeps

\* An enrolled login is not let through while MFA is enabled, and it still is.
LEMMA GateKeeps == ASSUME IInv, NEW r \in Requests, Gate(r) PROVE IInv'
<1>1. TypeOK /\ req[r] \in Request /\ minted \in Nat
  BY SignInAssumption DEF IInv, TypeOK
<1>2. req[r].at = "gate" /\ req[r].evidence = NoEvidence
  BY <1>1 DEF Gate, At, IInv, Shape
<1>3. UNCHANGED <<mfa, codes, minted, challenges, states, sessions, lost>>
  BY DEF Gate
<1>4. CASE Goto(r, "challenge")
  <2> DEFINE new == [req[r] EXCEPT !.at = "challenge"]
  <2>1. /\ new \in Request /\ new.at = "challenge" /\ new.evidence = NoEvidence
    BY <1>1, <1>2, MoveIs, ZenonT(60) DEF Location
  <2>2. req' = [req EXCEPT ![r] = new]
    BY <1>4 DEF Goto
  <2> HIDE DEF new
  <2>3. Accepted(new) = NoEvidence
    BY <2>1, AcceptedIs
  <2>4. Shape(new, minted) /\ LoginHeld(new, mfa.enabled) /\ IssueHeld(new)
    BY <1>1, <2>1, NoEvidenceIs DEF Shape, LoginHeld, IssueHeld
  <2>5. QED
    BY <1>3, <2>1, <2>2, <2>3, <2>4, Reads
<1>5. CASE ~mfa.enabled /\ Goto(r, "issue")
  <2> DEFINE new == [req[r] EXCEPT !.at = "issue"]
  <2>1. /\ new \in Request /\ new.at = "issue" /\ new.evidence = NoEvidence
        /\ new.enrolled = req[r].enrolled
    BY <1>1, <1>2, MoveIs, ZenonT(60) DEF Location
  <2>2. req' = [req EXCEPT ![r] = new]
    BY <1>5 DEF Goto
  <2> HIDE DEF new
  <2>3. Accepted(new) = NoEvidence
    BY <2>1, AcceptedIs
  <2>4. Shape(new, minted) /\ LoginHeld(new, mfa.enabled)
    BY <1>1, <2>1, NoEvidenceIs DEF Shape, LoginHeld
  <2>5. ~lost => IssueHeld(new)
    <3>1. ~lost => LoginHeld(req[r], mfa.enabled)
      BY DEF IInv, FactorHeld
    <3>2. QED
      BY <1>2, <1>5, <2>1, <3>1 DEF LoginHeld, IssueHeld
  <2>6. QED
    BY <1>3, <2>1, <2>2, <2>3, <2>4, <2>5, Reads
<1>6. CASE Answer(r)
  BY <1>3, <1>6, AnswersOnly
<1>7. Goto(r, "challenge") \/ (~mfa.enabled /\ Goto(r, "issue")) \/ Answer(r)
  BY DEF Gate, MfaGate
<1>8. QED
  BY <1>4, <1>5, <1>6, <1>7

LEMMA ChallengeKeeps ==
    ASSUME IInv, NEW r \in Requests, NEW c \in Challenges, Challenge(r, c) PROVE IInv'
<1>1. TypeOK
  BY DEF IInv
<1>2. /\ challenges' \in [Challenges -> Token]
      /\ \A d \in Challenges : challenges[d] = "consumed" => challenges'[d] = "consumed"
  BY <1>1 DEF TypeOK, Token, Challenge
<1>3. Progress /\ Keeps
  BY <1>1, <1>2, KeepsNone, SignInAssumption DEF TypeOK, Progress, Challenge
<1>4. QED
  BY <1>1, <1>2, <1>3, AnswerKeeps DEF TypeOK, Challenge

LEMMA IssueKeeps ==
    ASSUME IInv, NEW r \in Requests, NEW s \in Sessions, Issue(r, s) PROVE IInv'
<1> DEFINE row == [evidence |-> req[r].evidence, enrolled |-> req[r].enrolled, valid |-> TRUE]
<1>1. TypeOK /\ req[r] \in Request /\ req[r].at = "issue" /\ sessions[s] = None
  BY DEF IInv, TypeOK, Issue, At
<1>2. /\ row \in Session /\ row # None /\ row.evidence = req[r].evidence
      /\ row.enrolled = req[r].enrolled
  <2>1. row \in Session
    BY <1>1 DEF Request, Session
  <2>2. QED
    BY <2>1, SessionAssumption
<1>3. sessions' = [sessions EXCEPT ![s] = row] /\ req' = [req EXCEPT ![r] = Idle]
      /\ UNCHANGED <<mfa, codes, minted, challenges, states, lost>>
  BY DEF Issue, Answer
<1> HIDE DEF row
<1>4. Held(row) = Accepted(req[r])
  BY <1>1, <1>2, AcceptedIs DEF Held
<1>5. TypeOK'
  BY <1>1, <1>2, <1>3, IdleIs DEF TypeOK
<1>6. /\ sessions'[s] = row /\ req'[r] = Idle
      /\ \A t \in Sessions : t # s => sessions'[t] = sessions[t]
      /\ \A q \in Requests : q # r => req'[q] = req[q]
  BY <1>1, <1>3 DEF TypeOK
<1>7. /\ \A t \in Sessions : Held(sessions'[t]) \in Evidence
      /\ \A q \in Requests : Accepted(req'[q]) \in Evidence
  BY <1>5, HeldIs, AcceptedIs DEF TypeOK
<1>8. \A q \in Requests : /\ Shape(req'[q], minted)
                          /\ Paid(Accepted(req'[q]), challenges, states, codes, minted)
  <2>1. Shape(Idle, minted)
    BY <1>1, IdleFits, SignInAssumption DEF TypeOK
  <2>2. Paid(Accepted(Idle), challenges, states, codes, minted)
    BY <1>1, IdleIs, PaidNone
  <2>3. QED
    BY <1>6, <2>1, <2>2 DEF IInv
<1>9. \A t \in Sessions : Paid(Held(sessions'[t]), challenges, states, codes, minted)
  BY <1>4, <1>6 DEF IInv
<1>10. Distinct'
  <2>1. \A t \in Sessions : t # s => /\ Differ(Held(sessions[t]), Held(row))
                                      /\ Differ(Held(row), Held(sessions[t]))
    BY <1>4, DifferSymmetric DEF IInv, Distinct
  <2>2. \A t, u \in Sessions : t # u => Differ(Held(sessions'[t]), Held(sessions'[u]))
    <3>1. SUFFICES ASSUME NEW t \in Sessions, NEW u \in Sessions, t # u
                   PROVE  Differ(Held(sessions'[t]), Held(sessions'[u]))
      OBVIOUS
    <3>2. CASE t # s /\ u # s
      BY <1>6, <3>1, <3>2 DEF IInv, Distinct
    <3>3. CASE t = s \/ u = s
      BY <1>6, <2>1, <3>1, <3>3
    <3>4. QED
      BY <3>2, <3>3
  <2>3. \A t \in Sessions : \A q \in Requests : Differ(Held(sessions'[t]), Accepted(req'[q]))
    <3>1. SUFFICES ASSUME NEW t \in Sessions, NEW q \in Requests
                   PROVE  Differ(Held(sessions'[t]), Accepted(req'[q]))
      OBVIOUS
    <3>2. CASE q = r
      BY <1>6, <1>7, <3>2, IdleIs, DifferNone
    <3>3. CASE q # r /\ t = s
      BY <1>4, <1>6, <3>3 DEF IInv, Distinct
    <3>4. CASE q # r /\ t # s
      BY <1>6, <3>4 DEF IInv, Distinct
    <3>5. QED
      BY <3>2, <3>3, <3>4
  <2>4. \A p, q \in Requests : p # q => Differ(Accepted(req'[p]), Accepted(req'[q]))
    <3>1. SUFFICES ASSUME NEW p \in Requests, NEW q \in Requests, p # q
                   PROVE  Differ(Accepted(req'[p]), Accepted(req'[q]))
      OBVIOUS
    <3>2. CASE p # r /\ q # r
      BY <1>6, <3>1, <3>2 DEF IInv, Distinct
    <3>3. CASE p = r \/ q = r
      BY <1>6, <1>7, <3>3, IdleIs, DifferNone
    <3>4. QED
      BY <3>2, <3>3
  <2>5. QED
    BY <2>2, <2>3, <2>4 DEF Distinct
<1>11. ASSUME ~lost PROVE FactorHeld'
  <2>1. FactorHeld
    BY <1>11 DEF IInv
  <2>2. SessionHeld(row)
    BY <1>1, <1>2, <2>1 DEF FactorHeld, IssueHeld, SessionHeld
  <2>3. \A t \in Sessions : SessionHeld(sessions'[t])
    BY <1>6, <2>1, <2>2 DEF FactorHeld
  <2>4. LoginHeld(Idle, mfa.enabled) /\ IssueHeld(Idle)
    BY IdleIs DEF LoginHeld, IssueHeld
  <2>5. \A q \in Requests : LoginHeld(req'[q], mfa.enabled) /\ IssueHeld(req'[q])
    BY <1>6, <2>1, <2>4 DEF FactorHeld
  <2>6. QED
    BY <1>3, <2>3, <2>5 DEF FactorHeld
<1>12. QED
  BY <1>3, <1>5, <1>8, <1>9, <1>10, <1>11 DEF IInv

-----------------------------------------------------------------------------
(* Beginning a request                                                     *)

\* A request that begins with nothing accepted, and no history.
LEMMA BeginKeeps ==
    ASSUME IInv, NEW r \in Requests, NEW to \in Location \ {"issue", "spend"},
           NEW e \in Evidence, Begin(r, to, e),
           to \in {"verify", "code", "redeem"} => e.challenge # None /\ e.state = None,
           to = "claim" => e.state # None /\ e.challenge = None,
           to = "gate" => e = NoEvidence,
           e.code = 0,
           UNCHANGED <<mfa, codes, minted, challenges, states, sessions, lost>>
    PROVE  IInv'
<1> DEFINE new == [Idle EXCEPT !.at = to, !.evidence = e]
<1>1. new \in Request /\ new.at = to /\ new.evidence = e /\ new.enrolled = FALSE
  BY BeginIs, ZenonT(60)
<1>2. req' = [req EXCEPT ![r] = new]
  BY DEF Begin
<1> HIDE DEF new
<1>3. Accepted(new) = NoEvidence
  BY <1>1, AcceptedIs
<1>4. minted \in Nat
  BY SignInAssumption DEF IInv, TypeOK
<1>5. Shape(new, minted) /\ LoginHeld(new, mfa.enabled) /\ IssueHeld(new)
  BY <1>1, <1>4 DEF Shape, LoginHeld, IssueHeld
<1>6. QED
  BY <1>1, <1>2, <1>3, <1>5, Reads

LEMMA VerifyKeeps ==
    ASSUME IInv, NEW r \in Requests, NEW c \in Challenges, Verify(r, c) PROVE IInv'
<1> DEFINE e == [NoEvidence EXCEPT !.challenge = c]
<1>1. e \in Evidence /\ e.challenge = c /\ e.code = 0 /\ e.state = None /\ c # None
  BY SignInAssumption DEF NoEvidence, Evidence
<1>2. Begin(r, "verify", e)
  BY DEF Verify
<1> HIDE DEF e
<1>3. QED
  BY <1>1, <1>2, BeginKeeps DEF Verify, Location

LEMMA CallbackKeeps ==
    ASSUME IInv, NEW r \in Requests, NEW x \in States, Callback(r, x) PROVE IInv'
<1> DEFINE e == [NoEvidence EXCEPT !.state = x]
<1>1. e \in Evidence /\ e.state = x /\ e.code = 0 /\ e.challenge = None /\ x # None
  BY SignInAssumption DEF NoEvidence, Evidence
<1>2. Begin(r, "claim", e)
  BY DEF Callback
<1> HIDE DEF e
<1>3. QED
  BY <1>1, <1>2, BeginKeeps DEF Callback, Location

LEMMA ConfirmKeeps == ASSUME IInv, NEW r \in Requests, Confirm(r) PROVE IInv'
BY NoEvidenceIs, BeginKeeps DEF Confirm, Location

LEMMA RegenerateKeeps == ASSUME IInv, NEW r \in Requests, Regenerate(r) PROVE IInv'
BY NoEvidenceIs, BeginKeeps DEF Regenerate, Location

LEMMA EnrollKeeps == ASSUME IInv, NEW r \in Requests, Enroll(r) PROVE IInv'
<1> DEFINE new == [Idle EXCEPT !.at = "pend", !.mfa = [mfa EXCEPT !.pending = TRUE]]
<1>1. TypeOK /\ minted \in Nat
  BY SignInAssumption DEF IInv, TypeOK
<1>2. new \in Request /\ new.at = "pend" /\ new.evidence = NoEvidence
  <2>1. [mfa EXCEPT !.pending = TRUE] \in Mfa
    BY <1>1 DEF TypeOK, Mfa
  <2>2. \A row \in Request : \A m \in Mfa :
           LET n == [row EXCEPT !.at = "pend", !.mfa = m]
           IN  n \in Request /\ n.at = "pend" /\ n.evidence = row.evidence
    BY DEF Request, Location
  <2>3. QED
    BY <2>1, <2>2, IdleIs
<1>3. req' = [req EXCEPT ![r] = new]
  BY DEF Enroll
<1> HIDE DEF new
<1>4. Accepted(new) = NoEvidence
  BY <1>2, AcceptedIs
<1>5. Shape(new, minted) /\ LoginHeld(new, mfa.enabled) /\ IssueHeld(new)
  BY <1>1, <1>2, NoEvidenceIs DEF Shape, LoginHeld, IssueHeld
<1>6. QED
  BY <1>2, <1>3, <1>4, <1>5, Reads DEF Enroll

-----------------------------------------------------------------------------
(* Verifying                                                               *)

\* Moving on, with nothing accepted, from an await to one with the same shape.
LEMMA MoveReads ==
    ASSUME IInv, NEW r \in Requests, NEW to \in Location \ {"gate", "issue", "spend", "claim"},
           req[r].at \notin {"gate", "issue", "claim"}, Goto(r, to),
           to \in {"verify", "code", "redeem"} =>
              req[r].evidence.challenge # None /\ req[r].evidence.state = None,
           to \in {"verify", "code"} => req[r].evidence.code = 0,
           UNCHANGED <<mfa, codes, minted, challenges, states, sessions, lost>>
    PROVE  IInv'
<1> DEFINE new == [req[r] EXCEPT !.at = to]
<1>1. req[r] \in Request /\ Shape(req[r], minted)
  BY DEF IInv, TypeOK
<1>2. new \in Request /\ new.at = to /\ new.evidence = req[r].evidence
  BY <1>1, MoveIs
<1>3. req' = [req EXCEPT ![r] = new]
  BY DEF Goto
<1> HIDE DEF new
<1>4. Accepted(new) = NoEvidence
  BY <1>2, AcceptedIs
<1>5. Shape(new, minted) /\ LoginHeld(new, mfa.enabled) /\ IssueHeld(new)
  BY <1>1, <1>2 DEF Shape, LoginHeld, IssueHeld
<1>6. QED
  BY <1>2, <1>3, <1>4, <1>5, Reads

LEMMA ReadSecretKeeps == ASSUME IInv, NEW r \in Requests, ReadSecret(r) PROVE IInv'
<1>1. /\ req[r].at = "verify" /\ req[r].evidence.code = 0
      /\ req[r].evidence.challenge # None /\ req[r].evidence.state = None
  BY DEF IInv, Shape, ReadSecret, At
<1>2. CASE Goto(r, "code")
  BY <1>1, <1>2, MoveReads DEF ReadSecret, Location
<1>3. CASE Answer(r)
  BY <1>3, AnswersOnly DEF ReadSecret
<1>4. QED
  BY <1>2, <1>3 DEF ReadSecret

LEMMA PresentKeeps == ASSUME IInv, NEW r \in Requests, Present(r) PROVE IInv'
<1>1. /\ req[r] \in Request /\ req[r].at = "code" /\ req[r].evidence.code = 0
      /\ req[r].evidence.challenge # None /\ req[r].evidence.state = None
  BY DEF IInv, TypeOK, Shape, Present, At
<1>2. TypeOK /\ minted \in Nat /\ UNCHANGED <<mfa, codes, minted, challenges, states, sessions, lost>>
  BY SignInAssumption DEF IInv, TypeOK, Present
\* The authenticator's code: the request carries no recovery code.
<1>3. CASE Goto(r, "spend")
  <2> DEFINE new == [req[r] EXCEPT !.at = "spend"]
  <2>1. new \in Request /\ new.at = "spend" /\ new.evidence = req[r].evidence
    BY <1>1, MoveIs DEF Location
  <2>2. req' = [req EXCEPT ![r] = new]
    BY <1>3 DEF Goto
  <2> HIDE DEF new
  <2>3. Accepted(new) = NoEvidence
    <3>1. Accepted(new) = [NoEvidence EXCEPT !.code = 0]
      BY <1>1, <2>1 DEF Accepted
    <3>2. [NoEvidence EXCEPT !.code = 0] = NoEvidence
      BY DEF NoEvidence
    <3>3. QED
      BY <3>1, <3>2
  <2>4. Shape(new, minted) /\ LoginHeld(new, mfa.enabled) /\ IssueHeld(new)
    BY <1>1, <1>2, <2>1 DEF Shape, LoginHeld, IssueHeld
  <2>5. QED
    BY <1>2, <2>1, <2>2, <2>3, <2>4, Reads
<1>4. ASSUME NEW code \in codes,
             req' = [req EXCEPT ![r].at = "redeem", ![r].evidence.code = code]
      PROVE  IInv'
  <2> DEFINE new == [req[r] EXCEPT !.at = "redeem", !.evidence.code = code]
  <2>1. code \in 0 .. MaxCodes /\ code <= minted
    BY <1>2, SignInAssumption DEF TypeOK
  <2>2. /\ new \in Request /\ new.at = "redeem" /\ new.evidence.code = code
        /\ new.evidence.challenge = req[r].evidence.challenge
        /\ new.evidence.state = req[r].evidence.state
    <3>1. \A row \in Request : \A k \in 0 .. MaxCodes :
             LET n == [row EXCEPT !.at = "redeem", !.evidence.code = k]
             IN  /\ n \in Request /\ n.at = "redeem" /\ n.evidence.code = k
                 /\ n.evidence.challenge = row.evidence.challenge
                 /\ n.evidence.state = row.evidence.state
      BY ZenonT(60) DEF Request, Evidence, Location
    <3>2. QED
      BY <1>1, <2>1, <3>1
  <2>3. req' = [req EXCEPT ![r] = new]
    BY <1>2, <1>4 DEF TypeOK
  <2> HIDE DEF new
  <2>4. Accepted(new) = NoEvidence
    BY <2>2, AcceptedIs
  <2>5. Shape(new, minted) /\ LoginHeld(new, mfa.enabled) /\ IssueHeld(new)
    BY <1>1, <2>1, <2>2 DEF Shape, LoginHeld, IssueHeld
  <2>6. QED
    BY <1>2, <2>2, <2>3, <2>4, <2>5, Reads
<1>5. QED
  BY <1>3, <1>4 DEF Present

\* A code that is redeemed was unused, and the accepted ones are not.
LEMMA RedeemKeeps == ASSUME IInv, NEW r \in Requests, Redeem(r) PROVE IInv'
<1> DEFINE code == req[r].evidence.code
<1>1. TypeOK /\ req[r] \in Request /\ req[r].at = "redeem" /\ Shape(req[r], minted)
  BY DEF IInv, TypeOK, Redeem, At
<1>2. /\ codes' = codes \ {code}
      /\ UNCHANGED <<mfa, minted, challenges, states, sessions, lost>>
  BY DEF Redeem
<1>3. /\ Progress /\ Keeps
      /\ mfa' \in Mfa /\ minted' \in 0 .. MaxCodes /\ codes' \subseteq 1 .. minted'
      /\ challenges' \in [Challenges -> Token] /\ states' \in [States -> Token]
  <2>1. Keeps
    BY <1>1, <1>2, KeepsNone
  <2>2. codes' \subseteq codes
    BY <1>2
  <2>3. Progress
    BY <1>1, <1>2, <2>2, SignInAssumption DEF TypeOK, Progress
  <2>4. QED
    BY <1>1, <1>2, <2>1, <2>2, <2>3 DEF TypeOK
<1>4. CASE Answer(r)
  BY <1>2, <1>3, <1>4, AnswerKeeps
<1>5. CASE code \in codes /\ Goto(r, "spend")
  <2> DEFINE new == [req[r] EXCEPT !.at = "spend"]
  <2>1. new \in Request /\ new.at = "spend" /\ new.evidence = req[r].evidence
    BY <1>1, MoveIs DEF Location
  <2>2. req' = [req EXCEPT ![r] = new]
    BY <1>5 DEF Goto
  <2> HIDE DEF new
  <2>3. /\ Accepted(new).code = code
        /\ Accepted(new).challenge = None /\ Accepted(new).state = None
    BY <2>1, AcceptedIs
  <2>4. Shape(new, minted') /\ LoginHeld(new, mfa'.enabled) /\ IssueHeld(new)
    BY <1>1, <1>2, <2>1 DEF Shape, LoginHeld, IssueHeld
  <2>5. Paid(Accepted(new), challenges', states', codes', minted')
    BY <1>1, <1>2, <2>3 DEF Paid, Shape
  <2>6. \A s \in Sessions : Differ(Held(sessions[s]), Accepted(new))
    BY <1>5, <2>3 DEF IInv, Paid, Differ
  <2>7. \A q \in Requests \ {r} : Differ(Accepted(req[q]), Accepted(new))
    BY <1>5, <2>3 DEF IInv, Paid, Differ
  <2>8. QED
    BY <1>2, <1>3, <2>1, <2>2, <2>4, <2>5, <2>6, <2>7, OneRequest
<1>6. QED
  BY <1>4, <1>5 DEF Redeem

\* A challenge that is spent was not consumed, and the accepted ones are.
LEMMA SpendKeeps == ASSUME IInv, NEW r \in Requests, Spend(r) PROVE IInv'
<1> DEFINE e == req[r].evidence
<1> DEFINE c == req[r].evidence.challenge
<1>1. /\ TypeOK /\ req[r] \in Request /\ req[r].at = "spend" /\ Shape(req[r], minted)
      /\ e \in Evidence
  BY DEF IInv, TypeOK, Spend, At, Request
<1>2. c \in Challenges /\ c # None /\ e.state = None
  BY <1>1 DEF Shape, Evidence
<1>3. UNCHANGED <<mfa, codes, minted, states, sessions, lost>>
  BY DEF Spend
<1>4. CASE Answer(r) /\ UNCHANGED challenges
  BY <1>3, <1>4, AnswersOnly
<1>5. CASE /\ Unconsumed(challenges[c]) /\ Goto(r, "issue")
           /\ challenges' = [challenges EXCEPT ![c] = "consumed"]
  <2> DEFINE new == [req[r] EXCEPT !.at = "issue"]
  <2>1. new \in Request /\ new.at = "issue" /\ new.evidence = e
    BY <1>1, MoveIs, ZenonT(60) DEF Location
  <2>2. req' = [req EXCEPT ![r] = new]
    BY <1>5 DEF Goto
  <2> HIDE DEF new
  <2>3. Accepted(new) = e
    BY <2>1, AcceptedIs
  <2>4. challenges[c] # "consumed" /\ challenges'[c] = "consumed"
    BY <1>1, <1>2, <1>5 DEF Unconsumed, TypeOK
  <2>5. /\ challenges' \in [Challenges -> Token]
        /\ \A d \in Challenges : challenges[d] = "consumed" => challenges'[d] = "consumed"
    BY <1>1, <1>2, <1>5 DEF TypeOK, Token
  <2>6. /\ Progress /\ Keeps
        /\ mfa' \in Mfa /\ minted' \in 0 .. MaxCodes /\ codes' \subseteq 1 .. minted'
        /\ states' \in [States -> Token]
    BY <1>1, <1>3, <2>5, KeepsNone, SignInAssumption DEF TypeOK, Progress
  <2>7. Shape(new, minted')
    BY <1>1, <1>3, <2>1 DEF Shape
  <2>8. LoginHeld(new, mfa'.enabled) /\ IssueHeld(new)
    BY <1>2, <2>1, NoEvidenceIs DEF LoginHeld, IssueHeld
  <2>9. /\ Accepted(req[r]).code = e.code
        /\ Paid(Accepted(req[r]), challenges, states, codes, minted)
    BY <1>1, AcceptedIs DEF IInv
  <2>10. Paid(Accepted(new), challenges', states', codes', minted')
    BY <1>2, <1>3, <2>3, <2>4, <2>9 DEF Paid
  <2>11. \A s \in Sessions : Differ(Held(sessions[s]), Accepted(new))
    <3>1. SUFFICES ASSUME NEW s \in Sessions PROVE Differ(Held(sessions[s]), e)
      BY <2>3
    <3>2. /\ Paid(Held(sessions[s]), challenges, states, codes, minted)
          /\ Differ(Held(sessions[s]), Accepted(req[r]))
      BY DEF IInv, Distinct
    <3>3. QED
      BY <1>2, <2>4, <2>9, <3>2 DEF Paid, Differ
  <2>12. \A q \in Requests \ {r} : Differ(Accepted(req[q]), Accepted(new))
    <3>1. SUFFICES ASSUME NEW q \in Requests, q # r PROVE Differ(Accepted(req[q]), e)
      BY <2>3
    <3>2. /\ Paid(Accepted(req[q]), challenges, states, codes, minted)
          /\ Differ(Accepted(req[q]), Accepted(req[r]))
      BY <3>1 DEF IInv, Distinct
    <3>3. QED
      BY <1>2, <2>4, <2>9, <3>2 DEF Paid, Differ
  <2>13. QED
    BY <1>3, <2>1, <2>2, <2>5, <2>6, <2>7, <2>8, <2>10, <2>11, <2>12, OneRequest
<1>6. QED
  BY <1>4, <1>5 DEF Spend

LEMMA ClaimKeeps == ASSUME IInv, NEW r \in Requests, Claim(r) PROVE IInv'
<1> DEFINE e == req[r].evidence
<1> DEFINE x == req[r].evidence.state
<1>1. /\ TypeOK /\ req[r] \in Request /\ req[r].at = "claim" /\ Shape(req[r], minted)
      /\ e \in Evidence
  BY DEF IInv, TypeOK, Claim, At, Request
<1>2. x \in States /\ x # None /\ e.challenge = None /\ e.code = 0
  BY <1>1 DEF Shape, Evidence
<1>3. UNCHANGED <<mfa, codes, minted, challenges, sessions, lost>>
  BY DEF Claim
<1>4. CASE Answer(r) /\ UNCHANGED states
  BY <1>3, <1>4, AnswersOnly
<1>5. CASE /\ Unconsumed(states[x]) /\ Goto(r, "issue")
           /\ states' = [states EXCEPT ![x] = "consumed"]
  <2> DEFINE new == [req[r] EXCEPT !.at = "issue"]
  <2>1. new \in Request /\ new.at = "issue" /\ new.evidence = e
    BY <1>1, MoveIs, ZenonT(60) DEF Location
  <2>2. req' = [req EXCEPT ![r] = new]
    BY <1>5 DEF Goto
  <2> HIDE DEF new
  <2>3. Accepted(new) = e
    BY <2>1, AcceptedIs
  <2>4. states[x] # "consumed" /\ states'[x] = "consumed"
    BY <1>1, <1>2, <1>5 DEF Unconsumed, TypeOK
  <2>5. /\ states' \in [States -> Token]
        /\ \A y \in States : states[y] = "consumed" => states'[y] = "consumed"
    BY <1>1, <1>2, <1>5 DEF TypeOK, Token
  <2>6. /\ Progress /\ Keeps
        /\ mfa' \in Mfa /\ minted' \in 0 .. MaxCodes /\ codes' \subseteq 1 .. minted'
        /\ challenges' \in [Challenges -> Token]
    BY <1>1, <1>3, <2>5, KeepsNone, SignInAssumption DEF TypeOK, Progress
  <2>7. Shape(new, minted')
    BY <1>1, <1>3, <2>1 DEF Shape
  <2>8. LoginHeld(new, mfa'.enabled) /\ IssueHeld(new)
    BY <1>2, <2>1, NoEvidenceIs DEF LoginHeld, IssueHeld
  <2>9. 0 \notin codes /\ 0 <= minted
    BY <1>1, SignInAssumption DEF TypeOK
  <2>10. Paid(Accepted(new), challenges', states', codes', minted')
    BY <1>2, <1>3, <2>3, <2>4, <2>9 DEF Paid
  <2>11. \A s \in Sessions : Differ(Held(sessions[s]), Accepted(new))
    BY <1>2, <2>3, <2>4 DEF IInv, Paid, Differ
  <2>12. \A q \in Requests \ {r} : Differ(Accepted(req[q]), Accepted(new))
    BY <1>2, <2>3, <2>4 DEF IInv, Paid, Differ
  <2>13. QED
    BY <1>3, <2>1, <2>2, <2>5, <2>6, <2>7, <2>8, <2>10, <2>11, <2>12, OneRequest
<1>6. QED
  BY <1>4, <1>5 DEF Claim

-----------------------------------------------------------------------------
(* Enrolling                                                               *)

\* A write of the columns alone, which ends or moves on as given.
LEMMA ColumnsKeep ==
    ASSUME IInv, mfa' \in Mfa, UNCHANGED <<codes, minted, challenges, states>>
    PROVE  /\ TypeOK /\ Progress
           /\ minted' \in 0 .. MaxCodes /\ codes' \subseteq 1 .. minted'
           /\ challenges' \in [Challenges -> Token] /\ states' \in [States -> Token]
<1>1. TypeOK
  BY DEF IInv
<1>2. Progress
  BY <1>1, ProgressNone
<1>3. QED
  BY <1>1, <1>2 DEF TypeOK

\* A stale enrollment that turns MFA off is recorded as lost.
LEMMA PendKeeps == ASSUME IInv, NEW r \in Requests, Pend(r) PROVE IInv'
<1>1. mfa' \in Mfa /\ mfa' = req[r].mfa
  BY DEF IInv, TypeOK, Request, Pend
<1>2. TypeOK
  BY DEF IInv
<1>3. Keeps
  <2>1. lost \in BOOLEAN /\ lost' = (lost \/ (mfa.enabled /\ ~mfa'.enabled))
    BY <1>1, <1>2 DEF TypeOK, Pend
  <2>2. QED
    BY <2>1 DEF Keeps
<1>4. QED
  BY <1>1, <1>3, ColumnsKeep, AnswerKeeps DEF Pend

LEMMA EnableKeeps == ASSUME IInv, NEW r \in Requests, Enable(r) PROVE IInv'
<1> DEFINE new == [req[r] EXCEPT !.at = "replace"]
<1>1. TypeOK /\ req[r] \in Request /\ Shape(req[r], minted) /\ lost \in BOOLEAN
  BY DEF IInv, TypeOK
<1>2. /\ mfa' = Enrolled /\ mfa' \in Mfa /\ mfa'.enabled
      /\ UNCHANGED <<codes, minted, challenges, states, sessions, lost>>
  BY NotEnrolledIs DEF Enable
<1>3. new \in Request /\ new.at = "replace" /\ new.evidence = req[r].evidence
  BY <1>1, MoveIs DEF Location
<1>4. req' = [req EXCEPT ![r] = new]
  BY DEF Enable, Goto
<1> HIDE DEF new
<1>5. Keeps
  BY <1>1, <1>2 DEF Keeps
<1>6. Accepted(new) = NoEvidence
  BY <1>3, AcceptedIs
<1>7. Shape(new, minted') /\ LoginHeld(new, mfa'.enabled) /\ IssueHeld(new)
  BY <1>1, <1>2, <1>3 DEF Shape, LoginHeld, IssueHeld
<1>8. QED
  BY <1>2, <1>3, <1>4, <1>5, <1>6, <1>7, ColumnsKeep, Unaccepted

LEMMA ReplaceKeeps == ASSUME IInv, NEW r \in Requests, Replace(r) PROVE IInv'
<1> DEFINE new == [req[r] EXCEPT !.at = "commit", !.doomed = codes]
<1>1. TypeOK /\ req[r] \in Request /\ Shape(req[r], minted)
  BY DEF IInv, TypeOK
<1>2. new \in Request /\ new.at = "commit" /\ new.evidence = req[r].evidence
  <2>1. codes \subseteq 1 .. MaxCodes
    BY <1>1, SignInAssumption DEF TypeOK
  <2>2. QED
    BY <1>1, <2>1 DEF Request, Location
<1>3. req' = [req EXCEPT ![r] = new]
  BY <1>1 DEF Replace, TypeOK
<1> HIDE DEF new
<1>4. Accepted(new) = NoEvidence
  BY <1>2, AcceptedIs
<1>5. Shape(new, minted) /\ LoginHeld(new, mfa.enabled) /\ IssueHeld(new)
  BY <1>1, <1>2 DEF Shape, LoginHeld, IssueHeld
<1>6. QED
  BY <1>2, <1>3, <1>4, <1>5, Reads DEF Replace

\* A code that is added is none that was ever accepted.
LEMMA CommitKeeps == ASSUME IInv, NEW r \in Requests, Commit(r) PROVE IInv'
<1>1. /\ TypeOK /\ minted \in Nat /\ minted < MaxCodes /\ MaxCodes \in Nat
      /\ codes \subseteq 1 .. minted
  BY SignInAssumption DEF IInv, TypeOK, Commit
<1>2. /\ minted' = minted + 1 /\ Answer(r)
      /\ UNCHANGED <<mfa, challenges, states, sessions, lost>>
  BY DEF Commit
<1>3. \A code \in codes' : code \in codes \/ code = minted + 1
  BY DEF Commit
<1>4. minted' \in 0 .. MaxCodes /\ codes' \subseteq 1 .. minted'
  <2>1. minted' \in 0 .. MaxCodes
    BY <1>1, <1>2
  <2>2. ASSUME NEW code \in codes' PROVE code \in 1 .. (minted + 1)
    <3>1. CASE code = minted + 1
      BY <1>1, <3>1
    <3>2. CASE code \in codes
      <4>1. code \in 1 .. minted
        BY <1>1, <3>2
      <4>2. QED
        BY <1>1, <4>1
    <3>3. QED
      BY <1>3, <3>1, <3>2
  <2>3. QED
    BY <1>2, <2>1, <2>2
<1>5. Progress
  BY <1>1, <1>2, <1>3 DEF Progress
<1>6. Keeps
  BY <1>1, <1>2, KeepsNone
<1>7. QED
  BY <1>1, <1>2, <1>4, <1>5, <1>6, AnswerKeeps DEF TypeOK

-----------------------------------------------------------------------------
(* The environment                                                         *)

\* A step of no request.
LEMMA TokensKeep ==
    ASSUME IInv, UNCHANGED <<mfa, codes, minted, sessions, req, lost>>,
           challenges' \in [Challenges -> Token], states' \in [States -> Token], Progress
    PROVE  IInv'
<1>1. TypeOK /\ TypeOK'
  BY DEF IInv, TypeOK
<1>2. \A q \in Requests : Paid(Accepted(req[q]), challenges', states', codes', minted')
  <2>1. \A q \in Requests : /\ Accepted(req[q]) \in Evidence
                            /\ Paid(Accepted(req[q]), challenges, states, codes, minted)
    BY <1>1, AcceptedIs DEF IInv, TypeOK
  <2>2. QED
    BY <1>1, <2>1, PaidStays
<1>3. \A s \in Sessions : Paid(Held(sessions[s]), challenges', states', codes', minted')
  <2>1. \A s \in Sessions : /\ Held(sessions[s]) \in Evidence
                            /\ Paid(Held(sessions[s]), challenges, states, codes, minted)
    BY <1>1, HeldIs DEF IInv, TypeOK
  <2>2. QED
    BY <1>1, <2>1, PaidStays
<1>4. Distinct' /\ (~lost' => FactorHeld')
  BY DEF IInv, Distinct, FactorHeld
<1>5. QED
  BY <1>1, <1>2, <1>3, <1>4 DEF IInv

LEMMA StartOidcKeeps == ASSUME IInv, NEW x \in States, StartOidc(x) PROVE IInv'
<1>1. TypeOK
  BY DEF IInv
<1>2. /\ states' \in [States -> Token]
      /\ \A y \in States : states[y] = "consumed" => states'[y] = "consumed"
  BY <1>1 DEF TypeOK, Token, StartOidc
<1>3. Progress
  BY <1>1, <1>2, SignInAssumption DEF TypeOK, Progress, StartOidc
<1>4. QED
  BY <1>1, <1>2, <1>3, TokensKeep DEF StartOidc, TypeOK

LEMMA ExpireStateKeeps == ASSUME IInv, NEW x \in States, ExpireState(x) PROVE IInv'
<1>1. TypeOK
  BY DEF IInv
<1>2. /\ states' \in [States -> Token]
      /\ \A y \in States : states[y] = "consumed" => states'[y] = "consumed"
  BY <1>1 DEF TypeOK, Token, ExpireState
<1>3. Progress
  BY <1>1, <1>2, SignInAssumption DEF TypeOK, Progress, ExpireState
<1>4. QED
  BY <1>1, <1>2, <1>3, TokensKeep DEF ExpireState, TypeOK

LEMMA ExpireChallengeKeeps ==
    ASSUME IInv, NEW c \in Challenges, ExpireChallenge(c) PROVE IInv'
<1>1. TypeOK
  BY DEF IInv
<1>2. /\ challenges' \in [Challenges -> Token]
      /\ \A d \in Challenges : challenges[d] = "consumed" => challenges'[d] = "consumed"
  BY <1>1 DEF TypeOK, Token, ExpireChallenge
<1>3. Progress
  BY <1>1, <1>2, SignInAssumption DEF TypeOK, Progress, ExpireChallenge
<1>4. QED
  BY <1>1, <1>2, <1>3, TokensKeep DEF ExpireChallenge, TypeOK

\* A session keeps its evidence.
LEMMA LogoutKeeps == ASSUME IInv, NEW s \in Sessions, Logout(s) PROVE IInv'
<1> DEFINE row == [sessions[s] EXCEPT !.valid = FALSE]
<1>1. TypeOK /\ sessions[s] \in Session /\ sessions[s] # None
  BY DEF IInv, TypeOK, Logout
<1>2. /\ row \in Session /\ row.evidence = sessions[s].evidence
      /\ row.enrolled = sessions[s].enrolled
  <2>1. \A y \in Session : LET n == [y EXCEPT !.valid = FALSE]
                           IN  /\ n \in Session /\ n.evidence = y.evidence
                               /\ n.enrolled = y.enrolled
    BY DEF Session
  <2>2. QED
    BY <1>1, <2>1
<1>3. sessions' = [sessions EXCEPT ![s] = row]
  BY DEF Logout
<1>4. UNCHANGED <<mfa, codes, minted, challenges, states, req, lost>>
  BY DEF Logout
<1> HIDE DEF row
<1>5. row # None
  BY <1>2, SessionAssumption
<1>6. Held(row) = Held(sessions[s]) /\ (SessionHeld(sessions[s]) => SessionHeld(row))
  BY <1>1, <1>2, <1>5 DEF Held, SessionHeld
<1>7. \A t \in Sessions : /\ Held(sessions'[t]) = Held(sessions[t])
                          /\ SessionHeld(sessions[t]) => SessionHeld(sessions'[t])
  BY <1>1, <1>3, <1>6 DEF TypeOK
<1>8. TypeOK'
  BY <1>1, <1>2, <1>3, <1>4 DEF TypeOK
<1>9. /\ \A r \in Requests : /\ Shape(req'[r], minted')
                             /\ Paid(Accepted(req'[r]), challenges', states', codes', minted')
      /\ \A t \in Sessions : Paid(Held(sessions'[t]), challenges', states', codes', minted')
  BY <1>4, <1>7 DEF IInv
<1>10. Distinct'
  BY <1>4, <1>7 DEF IInv, Distinct
<1>11. ~lost' => FactorHeld'
  BY <1>4, <1>7 DEF IInv, FactorHeld
<1>12. QED
  BY <1>8, <1>9, <1>10, <1>11 DEF IInv

-----------------------------------------------------------------------------
(* The theorems                                                            *)

LEMMA InitIInv == Init => IInv
<1> SUFFICES ASSUME Init PROVE IInv
  OBVIOUS
<1>1. TypeOK
  <2>1. minted \in 0 .. MaxCodes /\ mfa \in Mfa /\ codes = 1 .. minted
    BY SignInAssumption, NotEnrolledIs DEF Init
  <2>2. QED
    BY <2>1, IdleIs DEF Init, TypeOK, Token
<1>2. \A r \in Requests : req[r] = Idle
  BY DEF Init
<1>3. \A s \in Sessions : sessions[s] = None /\ Held(sessions[s]) = NoEvidence
  BY DEF Init, Held
<1>4. Paid(NoEvidence, challenges, states, codes, minted)
  BY <1>1, PaidNone
<1>5. Accepted(Idle) = NoEvidence /\ IssueHeld(Idle) /\ LoginHeld(Idle, mfa.enabled)
      /\ Shape(Idle, minted)
  BY <1>1, IdleFits, SignInAssumption DEF TypeOK
<1>6. Differ(NoEvidence, NoEvidence)
  BY NoEvidenceIs, DifferNone
<1>7. Distinct
  BY <1>2, <1>3, <1>5, <1>6 DEF Distinct
<1>8. FactorHeld
  BY <1>2, <1>3, <1>5 DEF FactorHeld, SessionHeld
<1>9. QED
  BY <1>1, <1>2, <1>3, <1>4, <1>5, <1>7, <1>8 DEF IInv

LEMMA NextIInv == IInv /\ [Next]_vars => IInv'
<1> SUFFICES ASSUME IInv, [Next]_vars PROVE IInv'
  OBVIOUS
<1>1. ASSUME UNCHANGED vars PROVE IInv'
  BY <1>1 DEF vars, IInv, TypeOK, Distinct, FactorHeld
<1>2. ASSUME NEW r \in Requests,
             \/ Login(r) \/ Gate(r) \/ ReadSecret(r) \/ Present(r) \/ Redeem(r) \/ Spend(r)
             \/ Claim(r) \/ Enroll(r) \/ Pend(r) \/ Confirm(r) \/ Enable(r) \/ Regenerate(r)
             \/ Replace(r) \/ Commit(r)
      PROVE  IInv'
  BY <1>2, LoginKeeps, GateKeeps, ReadSecretKeeps, PresentKeeps, RedeemKeeps, SpendKeeps,
     ClaimKeeps, EnrollKeeps, PendKeeps, ConfirmKeeps, EnableKeeps, RegenerateKeeps,
     ReplaceKeeps, CommitKeeps
<1>3. ASSUME NEW r \in Requests, Fail(r) PROVE IInv'
  BY <1>3, AnswersOnly DEF Fail
<1>4. ASSUME NEW r \in Requests, NEW c \in Challenges, Challenge(r, c) \/ Verify(r, c)
      PROVE  IInv'
  BY <1>4, ChallengeKeeps, VerifyKeeps
<1>5. ASSUME NEW r \in Requests, NEW s \in Sessions, Issue(r, s) PROVE IInv'
  BY <1>5, IssueKeeps
<1>6. ASSUME NEW r \in Requests, NEW x \in States, Callback(r, x) PROVE IInv'
  BY <1>6, CallbackKeeps
<1>7. ASSUME NEW s \in Sessions, Logout(s) PROVE IInv'
  BY <1>7, LogoutKeeps
<1>8. ASSUME NEW c \in Challenges, ExpireChallenge(c) PROVE IInv'
  BY <1>8, ExpireChallengeKeeps
<1>9. ASSUME NEW x \in States, StartOidc(x) \/ ExpireState(x) PROVE IInv'
  BY <1>9, StartOidcKeeps, ExpireStateKeeps
<1>10. QED
  BY <1>1, <1>2, <1>3, <1>4, <1>5, <1>6, <1>7, <1>8, <1>9 DEF Next

LEMMA Invariant == Spec => []IInv
BY InitIInv, NextIInv, PTL DEF Spec

\* The rows are what the tables hold, and MFA is enabled only over a secret with
\* which a login's challenge can be answered (routes/auth-mfa.ts).
THEOREM TypeCorrect == Spec => []TypeOK
<1>1. IInv => TypeOK
  BY DEF IInv
<1>2. QED
  BY <1>1, Invariant, PTL

\* A challenge, a recovery code or an authorization signs in once, for any number
\* of overlapping requests (prisma-identity.ts, the conditional updates).
THEOREM OneSignInEachHolds == Spec => []OneSignInEach
<1>1. IInv => OneSignInEach
  <2>1. SUFFICES ASSUME IInv, NEW s \in Sessions, NEW t \in Sessions,
                        sessions[s] # None, sessions[t] # None, s # t
                 PROVE  Differ(sessions[s].evidence, sessions[t].evidence)
    BY DEF OneSignInEach, Differ
  <2>2. Differ(Held(sessions[s]), Held(sessions[t]))
    BY <2>1 DEF IInv, Distinct
  <2>3. QED
    BY <2>1, <2>2 DEF Held
<1>2. QED
  BY <1>1, Invariant, PTL

\* No session on a password alone for a login that began enrolled, unless a stale
\* enrollment wrote over the confirmation (routes/auth.ts, routes/auth-mfa.ts).
THEOREM SecondFactorHeldHolds == Spec => []SecondFactorHeld
<1>1. IInv => SecondFactorHeld
  BY DEF IInv, FactorHeld, SessionHeld, SecondFactorHeld
<1>2. QED
  BY <1>1, Invariant, PTL
=============================================================================
