--------------------------- MODULE MCConfirmGate ---------------------------
(***************************************************************************)
(* Small instances of the confirmation gate.  Three calls race for two     *)
(* tokens of two operations, one that auto-write bypasses and a deletion,  *)
(* which is never bypassed and confirmed by typing the name; in the other  *)
(* instance two calls present one token of a command.                      *)
(***************************************************************************)
EXTENDS ConfirmGate, TLC

CONSTANTS create, exec, delete

MCOps == {create, delete}
MCDeletions == {delete}
MCCommands == {exec}
MCNone == {}

GateSymmetry == Permutations(Calls) \cup Permutations(Nonces)

=============================================================================
