------------------------- MODULE ConfirmGateProofs -------------------------
(***************************************************************************)
(* The confirmation gate, for every set of calls, tokens and operations    *)
(* and for any bound on time and restarts: a token is redeemed at most     *)
(* once while it is valid, nothing is approved around the gate, and the    *)
(* gate implements the token ledger.                                       *)
(***************************************************************************)
EXTENDS ConfirmGate, TLAPS

\* The inductive invariant holds in the initial state: no token is issued
\* and no call has begun.
LEMMA GateInit == Init => IInv
<1> SUFFICES ASSUME Init PROVE IInv
  OBVIOUS
<1> USE GateAssumption DEF Init, FirstKey
<1>1. TypeOK
  BY DEF TypeOK, Token, Call, Outcomes, TokenErrors, TokenPhase, Critical
<1>2. MutexHeld /\ Unanswered /\ TokenBound /\ TestStillTrue
  BY DEF MutexHeld, Unanswered, TokenBound, TestStillTrue, TokenPhase, Critical
<1>3. Remembered
  BY DEF Remembered
<1>4. UsedOnceWhileValid /\ ApprovedByGate
  BY DEF UsedOnceWhileValid, ApprovedByGate
<1> QED
  BY <1>1, <1>2, <1>3, <1>4 DEF IInv

\* Every step of the gate keeps its variables in their types.
LEMMA GateType == IInv /\ [Next]_vars => TypeOK'
<1> SUFFICES ASSUME IInv, [Next]_vars PROVE TypeOK'
  OBVIOUS
<1>0. TypeOK /\ TokenBound
  BY DEF IInv
<1> USE <1>0, GateAssumption DEF TypeOK, Return, Goto, Outcomes, TokenErrors,
        TokenPhase, Critical, Token, Call
<1>1. ASSUME NEW n \in Nonces, NEW o \in Ops, IssueToken(n, o) PROVE TypeOK'
  BY <1>1 DEF IssueToken
<1>2. ASSUME NEW c \in Calls, NEW o \in Ops, CheckBypassed(c, o) PROVE TypeOK'
  BY <1>2 DEF CheckBypassed
<1>3. ASSUME NEW c \in Calls, NEW o \in Ops, NEW n \in Nonces \cup {NoNonce},
             ValidateToken(c, o, n)
      PROVE TypeOK'
  BY <1>3 DEF ValidateToken, TokenError
<1>4. ASSUME NEW c \in Calls, Lock(c) PROVE TypeOK'
  BY <1>4 DEF Lock
<1>5. ASSUME NEW c \in Calls, TestNonce(c) PROVE TypeOK'
  BY <1>5 DEF TestNonce
<1>6. ASSUME NEW c \in Calls, InsertNonce(c) PROVE TypeOK'
  BY <1>6 DEF InsertNonce, TokenBound
<1>7. ASSUME NEW c \in Calls, SweepExpired(c) PROVE TypeOK'
  BY <1>7 DEF SweepExpired
<1>8. ASSUME NEW c \in Calls, NEW reply \in Reply, Confirm(c, reply) PROVE TypeOK'
  BY <1>8 DEF Confirm
<1>9. CASE Tick
  BY <1>9 DEF Tick
<1>10. CASE Restart
  BY <1>10 DEF Restart, FreshKey
<1>11. CASE UNCHANGED vars
  BY <1>11 DEF vars
<1> QED
  BY <1>1, <1>2, <1>3, <1>4, <1>5, <1>6, <1>7, <1>8, <1>9, <1>10, <1>11 DEF Next, Check


\* The conjuncts of the inductive invariant that relate several variables.
Related ==
  /\ MutexHeld
  /\ Unanswered
  /\ TokenBound
  /\ TestStillTrue
  /\ Remembered
  /\ UsedOnceWhileValid
  /\ ApprovedByGate

\* Every step of the gate keeps the relations between the map, the mutex,
\* the calls and the history of redemptions.
LEMMA GateRelated == IInv /\ [Next]_vars => Related'
<1> SUFFICES ASSUME IInv, [Next]_vars PROVE Related'
  OBVIOUS
<1>0. /\ TypeOK /\ MutexHeld /\ Unanswered /\ TokenBound
      /\ TestStillTrue /\ Remembered /\ UsedOnceWhileValid /\ ApprovedByGate
  BY DEF IInv
<1> USE <1>0, GateAssumption
<1> USE DEF TypeOK, Token, Call, TokenPhase, Critical, Return, Goto, Issued
<1>1. ASSUME NEW n \in Nonces, NEW o \in Ops, IssueToken(n, o) PROVE Related'
  <2>1. MutexHeld' /\ TestStillTrue' /\ Unanswered'
    BY <1>1 DEF IssueToken, MutexHeld, TestStillTrue, Unanswered
  <2>2. TokenBound'
    BY <1>1 DEF IssueToken, TokenBound
  <2>3. Remembered'
    BY <1>1 DEF IssueToken, Remembered
  <2>4. UsedOnceWhileValid'
    BY <1>1 DEF IssueToken, Remembered, UsedOnceWhileValid
  <2>5. ApprovedByGate'
    BY <1>1 DEF IssueToken, Remembered, ApprovedByGate
  <2> QED
    BY <2>1, <2>2, <2>3, <2>4, <2>5 DEF Related
<1>2. ASSUME NEW c \in Calls, NEW o \in Ops, CheckBypassed(c, o) PROVE Related'
  <2>1. MutexHeld' /\ TokenBound' /\ TestStillTrue' /\ Unanswered'
    BY <1>2 DEF CheckBypassed, Idle, MutexHeld, TokenBound, TestStillTrue, Unanswered
  <2>2. Remembered' /\ UsedOnceWhileValid'
    BY <1>2 DEF CheckBypassed, Remembered, UsedOnceWhileValid
  <2>3. ApprovedByGate'
    BY <1>2 DEF CheckBypassed, Bypass, ApprovedByGate, Idle
  <2> QED
    BY <2>1, <2>2, <2>3 DEF Related
<1>3. ASSUME NEW c \in Calls, NEW o \in Ops, NEW n \in Nonces \cup {NoNonce},
             ValidateToken(c, o, n)
      PROVE Related'
  <2>1. MutexHeld' /\ TestStillTrue' /\ Unanswered'
    BY <1>3 DEF ValidateToken, Idle, MutexHeld, TestStillTrue, Unanswered
  <2>2. TokenBound'
    BY <1>3 DEF ValidateToken, TokenError, TokenBound
  <2>3. Remembered' /\ UsedOnceWhileValid'
    BY <1>3 DEF ValidateToken, Remembered, UsedOnceWhileValid
  <2>4. TokenError(o, n) # "approved"
    BY DEF TokenError
  <2>5. ApprovedByGate'
    BY <1>3, <2>4 DEF ValidateToken, Unanswered, ApprovedByGate, Idle
  <2> QED
    BY <2>1, <2>2, <2>3, <2>4, <2>5 DEF Related
<1>4. ASSUME NEW c \in Calls, Lock(c) PROVE Related'
  <2>1. MutexHeld' /\ Unanswered'
    BY <1>4 DEF Lock, MutexFree, MutexHeld, Unanswered
  <2>2. TokenBound' /\ TestStillTrue'
    BY <1>4 DEF Lock, TokenBound, TestStillTrue
  <2>3. Remembered' /\ UsedOnceWhileValid'
    BY <1>4 DEF Lock, Remembered, UsedOnceWhileValid
  <2>4. ApprovedByGate'
    BY <1>4 DEF Lock, ApprovedByGate
  <2> QED
    BY <2>1, <2>2, <2>3, <2>4 DEF Related
<1>5. ASSUME NEW c \in Calls, TestNonce(c) PROVE Related'
  <2>1. MutexHeld' /\ Unanswered'
    BY <1>5 DEF TestNonce, MutexHeld, Unanswered
  <2>2. TokenBound' /\ TestStillTrue'
    BY <1>5 DEF TestNonce, TokenBound, TestStillTrue
  <2>3. Remembered' /\ UsedOnceWhileValid'
    BY <1>5 DEF TestNonce, Remembered, UsedOnceWhileValid
  <2>4. ApprovedByGate'
    BY <1>5 DEF TestNonce, ApprovedByGate
  <2> QED
    BY <2>1, <2>2, <2>3, <2>4 DEF Related
<1>6. ASSUME NEW c \in Calls, InsertNonce(c) PROVE Related'
  <2>1. MutexHeld' /\ Unanswered'
    BY <1>6 DEF InsertNonce, MutexHeld, Unanswered
  <2>2. TokenBound'
    BY <1>6 DEF InsertNonce, TokenBound
  <2>3. TestStillTrue'
    BY <1>6 DEF InsertNonce, MutexHeld, TestStillTrue
  <2>4. Remembered'
    BY <1>6 DEF InsertNonce, TokenBound, Remembered
  <2>5. UsedOnceWhileValid'
    BY <1>6 DEF InsertNonce, TokenBound, TestStillTrue, Remembered,
       UsedOnceWhileValid
  <2>6. ApprovedByGate'
    BY <1>6 DEF InsertNonce, ApprovedByGate
  <2> QED
    BY <2>1, <2>2, <2>3, <2>4, <2>5, <2>6 DEF Related
<1>7. ASSUME NEW c \in Calls, SweepExpired(c) PROVE Related'
  <2>1. MutexHeld' /\ Unanswered'
    BY <1>7 DEF SweepExpired, MutexHeld, Unanswered
  <2>2. TokenBound'
    BY <1>7 DEF SweepExpired, TokenBound
  <2>3. TestStillTrue'
    BY <1>7 DEF SweepExpired, TestStillTrue
  <2>4. Remembered'
    BY <1>7 DEF SweepExpired, Swept, Expired, Remembered
  <2>5. UsedOnceWhileValid' /\ ApprovedByGate'
    BY <1>7 DEF SweepExpired, UsedOnceWhileValid, ApprovedByGate
  <2> QED
    BY <2>1, <2>2, <2>3, <2>4, <2>5 DEF Related
<1>8. ASSUME NEW c \in Calls, NEW reply \in Reply, Confirm(c, reply) PROVE Related'
  <2>1. MutexHeld' /\ TokenBound' /\ TestStillTrue' /\ Unanswered'
    BY <1>8 DEF Confirm, MutexHeld, TokenBound, TestStillTrue, Unanswered
  <2>2. Remembered' /\ UsedOnceWhileValid'
    BY <1>8 DEF Confirm, Remembered, UsedOnceWhileValid
  <2>3. ApprovedByGate'
    BY <1>8 DEF Confirm, TokenBound, ApprovedByGate
  <2> QED
    BY <2>1, <2>2, <2>3 DEF Related
<1>9. CASE Tick
  <2>1. MutexHeld' /\ TokenBound' /\ TestStillTrue' /\ Unanswered'
    BY <1>9 DEF Tick, MutexHeld, TokenBound, TestStillTrue, Unanswered
  <2>2. Remembered'
    BY <1>9 DEF Tick, Remembered
  <2>3. UsedOnceWhileValid'
    BY <1>9 DEF Tick, UsedOnceWhileValid
  <2>4. ApprovedByGate'
    BY <1>9 DEF Tick, ApprovedByGate
  <2> QED
    BY <2>1, <2>2, <2>3, <2>4 DEF Related
<1>10. CASE Restart
  <2>1. MutexHeld' /\ TokenBound' /\ TestStillTrue' /\ Unanswered'
    BY <1>10 DEF Restart, Idle, MutexHeld, TokenBound, TestStillTrue, Unanswered
  <2>2. Remembered'
    BY <1>10 DEF Restart, FreshKey, Remembered
  <2>3. UsedOnceWhileValid'
    BY <1>10 DEF Restart, UsedOnceWhileValid
  <2>4. ApprovedByGate'
    BY <1>10 DEF Restart, ApprovedByGate
  <2> QED
    BY <2>1, <2>2, <2>3, <2>4 DEF Related
<1>11. CASE UNCHANGED vars
  BY <1>11 DEF vars, MutexHeld, Unanswered, TokenBound, TestStillTrue, Remembered,
     UsedOnceWhileValid, ApprovedByGate, Related
<1> QED
  BY <1>1, <1>2, <1>3, <1>4, <1>5, <1>6, <1>7, <1>8, <1>9, <1>10, <1>11 DEF Next, Check

\* The invariant is inductive.
LEMMA GateStep == IInv /\ [Next]_vars => IInv'
BY GateType, GateRelated DEF IInv, Related

\* The inductive invariant of the gate: the mutex has one owner, what a call has
\* tested under it stays true until it inserts, and the consumed nonces remember
\* every redemption of a token that is still valid (Gate.RequireToken).
THEOREM GateInvariant == Spec => []IInv
BY GateInit, GateStep, PTL DEF Spec

\* The gate's variables keep their types: Gate and the calls of Check.
THEOREM GateTypeCorrect == Spec => []TypeOK
<1>1. IInv => TypeOK
  BY DEF IInv
<1> QED
  BY GateInit, GateStep, <1>1, PTL DEF Spec

\* A token is redeemed by at most one call until it has expired, for any
\* number of concurrent calls and tokens (RequireToken under Gate.mu).
THEOREM TokenUsedOnceWhileValid == Spec => []UsedOnceWhileValid
<1>1. IInv => UsedOnceWhileValid
  BY DEF IInv
<1> QED
  BY GateInit, GateStep, <1>1, PTL DEF Spec

\* Nothing is approved around the gate: outside auto-write mode, and always
\* for exec and delete, an approval comes from a call that redeemed a token
\* for its own operation (Gate.Check).
THEOREM ApprovalsPassTheGate == Spec => []ApprovedByGate
<1>1. IInv => ApprovedByGate
  BY DEF IInv
<1> QED
  BY GateInit, GateStep, <1>1, PTL DEF Spec

\* The gate's initial state is a ledger with no token.
LEMMA LedgerInitial == Init => Ledger!LedgerInit
BY DEF Init, FirstKey, Ledger!LedgerInit

\* A step of the gate is one step of the ledger, or none: only issuing,
\* inserting a nonce, the clock and a restart show.
LEMMA LedgerStep == IInv /\ [Next]_vars => [Ledger!LedgerNext]_(Ledger!ledgerVars)
<1> SUFFICES ASSUME IInv, [Next]_vars
             PROVE  [Ledger!LedgerNext]_(Ledger!ledgerVars)
  OBVIOUS
<1>0. TypeOK /\ TokenBound /\ TestStillTrue /\ Remembered
  BY DEF IInv
<1> USE <1>0, GateAssumption DEF Ledger!ledgerVars
<1>1. ASSUME NEW n \in Nonces, NEW o \in Ops, IssueToken(n, o)
      PROVE  Ledger!Issue(n)
  <2>1. redeemed[n] = {} /\ n \notin {m \in Nonces : token[m].key = key}
    BY <1>1 DEF IssueToken, Issued, Remembered, TypeOK
  <2>2. token'[n].expiry = clock + TokenTTL /\ token'[n].key = key'
    BY <1>1 DEF IssueToken, TypeOK
  <2>3. \A m \in Nonces \ {n} : token'[m] = token[m]
    BY <1>1 DEF IssueToken, TypeOK
  <2>4. {m \in Nonces : token'[m].key = key'}
          = {m \in Nonces : token[m].key = key} \cup {n}
    BY <1>1, <2>2, <2>3 DEF IssueToken
  <2>5. [m \in Nonces |-> token'[m].expiry]
          = [[m \in Nonces |-> token[m].expiry] EXCEPT ![n] = clock + TokenTTL]
    BY <2>2, <2>3
  <2> QED
    BY <1>1, <2>1, <2>4, <2>5 DEF IssueToken, Ledger!Issue, TypeOK
<1>2. ASSUME NEW c \in Calls, InsertNonce(c)
      PROVE  Ledger!Redeem(call[c].nonce, c)
  <2> DEFINE n == call[c].nonce
  <2>1. n \in Nonces /\ token[n].key = key /\ n \notin consumed
    BY <1>2 DEF InsertNonce, TokenBound, TestStillTrue, TokenPhase, Critical
  <2>2. redeemed[n] = {} \/ clock > token[n].expiry
    BY <2>1 DEF Remembered, TypeOK, Token
  <2> QED
    BY <1>2, <2>1, <2>2 DEF InsertNonce, Ledger!Redeem
<1>3. CASE Tick
  BY <1>3 DEF Tick, Ledger!LedgerNext, Ledger!Pass
<1>4. CASE Restart
  <2>1. \A n \in Nonces : token[n].key # key'
    BY <1>4 DEF Restart, FreshKey, Remembered, TypeOK, Token
  <2> QED
    BY <1>4, <2>1 DEF Restart, Ledger!LedgerNext, Ledger!Revoke
<1>5. ASSUME NEW c \in Calls, Check(c), ~InsertNonce(c)
      PROVE  UNCHANGED <<clock, key, token, redeemed>>
  BY <1>5 DEF Check, CheckBypassed, ValidateToken, Lock, TestNonce,
     SweepExpired, Confirm
<1>6. UNCHANGED <<clock, key, token, redeemed>> => UNCHANGED Ledger!ledgerVars
  OBVIOUS
<1>7. CASE UNCHANGED vars
  BY <1>6, <1>7 DEF vars
<1> QED
  BY <1>1, <1>2, <1>3, <1>4, <1>5, <1>6, <1>7
     DEF Next, Ledger!LedgerNext, InsertNonce, TokenBound, TokenPhase, Critical

\* The gate implements the token ledger: what the handlers rely on holds of
\* the map, the mutex and the sweep (Gate.RequireToken, Gate.IssueToken).
THEOREM GateImplementsLedger == Spec => ImplementsLedger
BY LedgerInitial, LedgerStep, GateInit, GateStep, PTL
   DEF Spec, ImplementsLedger, Ledger!LedgerSpec

=============================================================================
