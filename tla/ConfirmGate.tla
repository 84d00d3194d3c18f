---------------------------- MODULE ConfirmGate ----------------------------
(***************************************************************************)
(* The confirmation gate of pkg/confirm: single-use tokens that bind one   *)
(* operation, and the question put to the user before it runs.  Calls of   *)
(* Gate.Check run concurrently (one goroutine per MCP request) against one *)
(* Gate; the map of consumed nonces is guarded by a mutex, the expiry test *)
(* is not.                                                                 *)
(*                                                                         *)
(* A token is a record per nonce.  Its signature is the number of the      *)
(* process whose random key made it: a verification succeeds exactly under *)
(* the same key, so tokens do not survive a restart.  Tool, cluster,       *)
(* namespace, kind, name and payload hash are one value, the operation.    *)
(***************************************************************************)
EXTENDS Integers

CONSTANTS
  Calls,          \* concurrent calls of Check, each made once
  Nonces,         \* the random nonces that IssueToken can draw
  Ops,            \* operations a token can bind
  NeverBypassed,  \* operations whose handler passes bypass = false
  Deletions,      \* operations whose handler passes a typedName
  AutoWrite,      \* --allow-auto-write
  TokenTTL,       \* life of a token, in seconds
  MaxClock,       \* bound of the clock
  MaxRestarts,    \* bound of the restarts
  NoNonce, NoOp, NoCall

ASSUME GateAssumption ==
  /\ Deletions \subseteq NeverBypassed
  /\ NeverBypassed \subseteq Ops
  /\ AutoWrite \in BOOLEAN
  /\ TokenTTL \in Nat /\ MaxClock \in Nat /\ MaxRestarts \in Nat
  /\ NoNonce \notin Nonces /\ NoOp \notin Ops /\ NoCall \notin Calls

VARIABLES
  clock,     \* what nowFn().Unix() returns
  key,       \* the running process's HMAC key; 0 signs nothing
  token,     \* the body and the signing key of each nonce's token
  consumed,  \* keys of the map Gate.consumed; the value is the token's expiry
  mu,        \* holder of Gate.mu
  pc,        \* where each call of Check stands
  call,      \* the operation and the token of each call
  outcome,   \* what Check returned
  redeemed   \* history: the calls that inserted each nonce

vars == <<clock, key, token, consumed, mu, pc, call, outcome, redeemed>>

Token == [op : Ops \cup {NoOp}, key : Nat, expiry : Nat]
Call == [op : Ops \cup {NoOp}, nonce : Nonces \cup {NoNonce}]
TokenErrors == {"invalid", "expired", "mismatch", "consumed"}
Outcomes == TokenErrors \cup {"none", "approved", "cancelled", "unsupported", "lost"}

\* RequireToken holds the mutex from Lock to its deferred Unlock.
Critical == {"test", "insert", "sweep"}
TokenPhase == {"lock"} \cup Critical

Issued(n) == token[n].key # 0
Idle(c) == pc[c] = "idle"

\* (Defect: a Gate not made by NewGate, whose zero key signs every token.)
ZeroKey == 0
FirstKey == 1

Init ==
  /\ clock = 0
  /\ key = FirstKey
  /\ token = [n \in Nonces |-> [op |-> NoOp, key |-> 0, expiry |-> 0]]
  /\ consumed = {}
  /\ mu = NoCall
  /\ pc = [c \in Calls |-> "idle"]
  /\ call = [c \in Calls |-> [op |-> NoOp, nonce |-> NoNonce]]
  /\ outcome = [c \in Calls |-> "none"]
  /\ redeemed = [n \in Nonces |-> {}]

Return(c, result) ==
  /\ pc' = [pc EXCEPT ![c] = "done"]
  /\ outcome' = [outcome EXCEPT ![c] = result]

Goto(c, label) ==
  /\ pc' = [pc EXCEPT ![c] = label]
  /\ UNCHANGED outcome

\* planChange: a fresh random nonce, signed, with the operation and expiry.
IssueToken(n, o) ==
  /\ ~Issued(n)
  /\ token' = [token EXCEPT ![n] =
                 [op |-> o, key |-> key, expiry |-> clock + TokenTTL]]
  /\ UNCHANGED <<clock, key, consumed, mu, pc, call, outcome, redeemed>>

(***************************************************************************)
(* Check.  The tests made before the mutex is taken read only the token,   *)
(* the key and the clock; the call begins when it reads the clock.         *)
(***************************************************************************)
\* (Defect: every handler passes cfg.AutoWrite.)
BypassAll(o) == AutoWrite
Bypass(o) == AutoWrite /\ o \notin NeverBypassed

\* now > Expiry in RequireToken, and exp < now in its sweep.
Expired(n) == clock > token[n].expiry

\* The error RequireToken returns before taking the mutex, in its order.
\* NoNonce stands for every malformed, undecodable or badly signed string.
TokenError(o, n) ==
  CASE n = NoNonce              -> "invalid"
    [] token[n].key # key       -> "invalid"
    [] Expired(n)               -> "expired"
    [] token[n].op # o          -> "mismatch"
    [] OTHER                    -> "none"

CheckBypassed(c, o) ==
  /\ Idle(c)
  /\ Bypass(o)
  /\ call' = [call EXCEPT ![c] = [op |-> o, nonce |-> NoNonce]]
  /\ Return(c, "approved")
  /\ UNCHANGED <<clock, key, token, consumed, mu, redeemed>>

ValidateToken(c, o, n) ==
  /\ Idle(c)
  /\ ~Bypass(o)
  /\ n # NoNonce => Issued(n)
  /\ call' = [call EXCEPT ![c] = [op |-> o, nonce |-> n]]
  /\ IF TokenError(o, n) = "none"
       THEN Goto(c, "lock")
       ELSE Return(c, TokenError(o, n))
  /\ UNCHANGED <<clock, key, token, consumed, mu, redeemed>>

\* (Defect: the map is used without taking the mutex.)
MutexIgnored == TRUE
MutexFree == mu = NoCall

Lock(c) ==
  /\ pc[c] = "lock"
  /\ MutexFree
  /\ mu' = c
  /\ Goto(c, "test")
  /\ UNCHANGED <<clock, key, token, consumed, call, redeemed>>

\* The used nonce returns through the deferred Unlock.
TestNonce(c) ==
  /\ pc[c] = "test"
  /\ \/ /\ call[c].nonce \in consumed
        /\ mu' = NoCall
        /\ Return(c, "consumed")
     \/ /\ call[c].nonce \notin consumed
        /\ Goto(c, "insert")
        /\ UNCHANGED mu
  /\ UNCHANGED <<clock, key, token, consumed, call, redeemed>>

InsertNonce(c) ==
  /\ pc[c] = "insert"
  /\ consumed' = consumed \cup {call[c].nonce}
  /\ redeemed' = [redeemed EXCEPT ![call[c].nonce] = @ \cup {c}]
  /\ Goto(c, "sweep")
  /\ UNCHANGED <<clock, key, token, mu, call>>

\* (Defect: the sweep also drops the nonces in their last valid second.)
SweptEarly == {n \in consumed : clock >= token[n].expiry}
Swept == {n \in consumed : Expired(n)}

\* (Defect: the mutex is unlocked by the early return only.)
SweepKeepsMutex(c) ==
  /\ pc[c] = "sweep"
  /\ consumed' = consumed \ Swept
  /\ Goto(c, "ask")
  /\ UNCHANGED <<clock, key, token, mu, call, redeemed>>

\* The clock is read again: the nonce just inserted can be swept at once.
SweepExpired(c) ==
  /\ pc[c] = "sweep"
  /\ consumed' = consumed \ Swept
  /\ mu' = NoCall
  /\ Goto(c, "ask")
  /\ UNCHANGED <<clock, key, token, call, redeemed>>

(***************************************************************************)
(* Confirm: the dialog.  The form of a deletion asks for the exact name,   *)
(* any other form offers approve and reject.  The reply is an error, a      *)
(* refusal, or what an accepted form carries, which can be anything.       *)
(***************************************************************************)
Reply == {"error", "declined or cancelled", "exact name", "approve", "other"}

ConfirmingReply(o) == IF o \in Deletions THEN "exact name" ELSE "approve"

Confirm(c, reply) ==
  /\ pc[c] = "ask"
  /\ Return(c, CASE reply = "error" -> "unsupported"
                 [] reply = ConfirmingReply(call[c].op) -> "approved"
                 [] OTHER -> "cancelled")
  /\ UNCHANGED <<clock, key, token, consumed, mu, call, redeemed>>

(***************************************************************************)
(* The environment: time passes, and the process can die and start again   *)
(* with a new random key, an empty map and no call in flight.              *)
(***************************************************************************)
Tick ==
  /\ clock < MaxClock
  /\ clock' = clock + 1
  /\ UNCHANGED <<key, token, consumed, mu, pc, call, outcome, redeemed>>

\* (Defect: the key is kept across restarts, the map is not.)
KeptKey == key
FreshKey == key + 1

Restart ==
  /\ key <= MaxRestarts
  /\ key' = FreshKey
  /\ consumed' = {}
  /\ mu' = NoCall
  /\ pc' = [c \in Calls |-> IF Idle(c) THEN "idle" ELSE "done"]
  /\ outcome' = [c \in Calls |-> IF pc[c] \in {"idle", "done"}
                                   THEN outcome[c] ELSE "lost"]
  /\ UNCHANGED <<clock, token, call, redeemed>>

Check(c) ==
  \/ \E o \in Ops : CheckBypassed(c, o)
  \/ \E o \in Ops, n \in Nonces \cup {NoNonce} : ValidateToken(c, o, n)
  \/ Lock(c)
  \/ TestNonce(c)
  \/ InsertNonce(c)
  \/ SweepExpired(c)
  \/ \E reply \in Reply : Confirm(c, reply)

Next ==
  \/ \E n \in Nonces, o \in Ops : IssueToken(n, o)
  \/ \E c \in Calls : Check(c)
  \/ Tick
  \/ Restart

Spec == Init /\ [][Next]_vars

\* The scheduler runs every goroutine and a free mutex is handed over; the
\* user, the next call and the clock owe nothing.
Fairness ==
  \A c \in Calls : /\ WF_vars(Lock(c))
                   /\ WF_vars(TestNonce(c))
                   /\ WF_vars(InsertNonce(c))
                   /\ WF_vars(SweepExpired(c))

FairSpec == Spec /\ Fairness

-----------------------------------------------------------------------------

\* The gate seen as the ledger of tokens it implements.
Ledger == INSTANCE TokenLedger WITH
  live <- {n \in Nonces : token[n].key = key},
  expiry <- [n \in Nonces |-> token[n].expiry]

\* Every step of the gate is a step of the token ledger or leaves it alone:
\* issue, redeem while unused or expired, expire with the process.
ImplementsLedger == Ledger!LedgerSpec

\* Type correctness of the gate's state and of its calls.
TypeOK ==
  /\ clock \in Nat
  /\ key \in Nat \ {0}
  /\ token \in [Nonces -> Token]
  /\ consumed \subseteq Nonces
  /\ mu \in Calls \cup {NoCall}
  /\ pc \in [Calls -> TokenPhase \cup {"idle", "ask", "done"}]
  /\ call \in [Calls -> Call]
  /\ outcome \in [Calls -> Outcomes]
  /\ redeemed \in [Nonces -> SUBSET Calls]

\* Until the second of its expiry has passed a token is redeemed by at most
\* one call, however the calls, the sweeps and the restarts interleave
\* (RequireToken's test and insertion under Gate.mu).
UsedOnceWhileValid ==
  \A n \in Nonces : clock <= token[n].expiry =>
    \A c, d \in redeemed[n] : c = d

\* What the package comment promises: a token is redeemed at most once, ever.
SingleUse ==
  \A n \in Nonces : \A c, d \in redeemed[n] : c = d

\* An operation is approved only in auto-write mode and then never a deletion
\* or an exec, or by a call that redeemed a token issued for that very
\* operation (Check and the handlers' bypass argument).
ApprovedByGate ==
  \A c \in Calls : outcome[c] = "approved" =>
    \/ AutoWrite /\ call[c].op \notin NeverBypassed
    \/ /\ call[c].nonce \in Nonces
       /\ c \in redeemed[call[c].nonce]
       /\ token[call[c].nonce].op = call[c].op

\* The conjuncts of the inductive invariant.  The mutex has one holder.
MutexHeld ==
  \A c \in Calls : pc[c] \in Critical => mu = c

\* A call past the first tests holds a token of this process for its own
\* operation; a call in the dialog has redeemed it.
TokenBound ==
  \A c \in Calls : pc[c] \in TokenPhase \cup {"ask"} =>
    /\ call[c].nonce \in Nonces
    /\ token[call[c].nonce].key = key
    /\ token[call[c].nonce].op = call[c].op
    /\ pc[c] \in {"sweep", "ask"} => c \in redeemed[call[c].nonce]

\* A call has an outcome only when it is done.
Unanswered == \A c \in Calls : pc[c] # "done" => outcome[c] = "none"

\* Between the test and the insertion nobody else inserts the nonce.
TestStillTrue ==
  \A c \in Calls : pc[c] = "insert" => call[c].nonce \notin consumed

\* A nonce redeemed under the running key stays in the map until the token
\* has expired, and no nonce is redeemed before its token is issued.
Remembered ==
  \A n \in Nonces :
    /\ token[n].key <= key
    /\ redeemed[n] # {} => Issued(n)
    /\ redeemed[n] # {} /\ token[n].key = key /\ clock <= token[n].expiry
         => n \in consumed

\* The inductive invariant behind UsedOnceWhileValid and ApprovedByGate.
IInv ==
  /\ TypeOK
  /\ MutexHeld
  /\ Unanswered
  /\ TokenBound
  /\ TestStillTrue
  /\ Remembered
  /\ UsedOnceWhileValid
  /\ ApprovedByGate

\* Every token check ends: no path through RequireToken keeps the mutex and
\* no call is stuck behind it (lock, deferred unlock on every return).
TokenCheckEnds ==
  \A c \in Calls : pc[c] \in TokenPhase ~> pc[c] \in {"ask", "done"}

=============================================================================
