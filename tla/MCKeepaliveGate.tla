-------------------------- MODULE MCKeepaliveGate --------------------------
(***************************************************************************)
(* Small instances of the keepalive gate: three dialogs on one session,    *)
(* alone or beside a dialog of another session.                            *)
(***************************************************************************)
EXTENDS KeepaliveGate, TLC

CONSTANTS d1, d2, d3, d4, s1, s2

MCOneSession == (d1 :> s1) @@ (d2 :> s1) @@ (d3 :> s1)
MCTwoSessions == MCOneSession @@ (d4 :> s2)

=============================================================================
