---------------------------- MODULE TokenLedger ----------------------------
(***************************************************************************)
(* What the confirmation gate promises the rest of the server: tokens are  *)
(* issued with an expiry, die with the process that issued them, and are   *)
(* redeemed at most once as long as they have not expired.  How a used     *)
(* token is recognised (map, mutex, sweep) is left to the implementation.  *)
(***************************************************************************)
EXTENDS Integers

CONSTANTS Nonces, Calls

VARIABLES clock, live, expiry, redeemed

ledgerVars == <<clock, live, expiry, redeemed>>

LedgerInit ==
  /\ clock = 0
  /\ live = {}
  /\ expiry = [n \in Nonces |-> 0]
  /\ redeemed = [n \in Nonces |-> {}]

Issue(n) ==
  /\ n \notin live
  /\ redeemed[n] = {}
  /\ live' = live \cup {n}
  /\ expiry'[n] \in Nat /\ expiry'[n] >= clock
  /\ expiry' = [expiry EXCEPT ![n] = expiry'[n]]
  /\ UNCHANGED <<clock, redeemed>>

\* A token that is still valid must not have been redeemed before.
Redeem(n, c) ==
  /\ n \in live
  /\ redeemed[n] = {} \/ clock > expiry[n]
  /\ redeemed' = [redeemed EXCEPT ![n] = @ \cup {c}]
  /\ UNCHANGED <<clock, live, expiry>>

Pass ==
  /\ clock' = clock + 1
  /\ UNCHANGED <<live, expiry, redeemed>>

Revoke ==
  /\ live' = {}
  /\ UNCHANGED <<clock, expiry, redeemed>>

LedgerNext ==
  \/ \E n \in Nonces : Issue(n)
  \/ \E n \in Nonces, c \in Calls : Redeem(n, c)
  \/ Pass
  \/ Revoke

LedgerSpec == LedgerInit /\ [][LedgerNext]_ledgerVars

=============================================================================
