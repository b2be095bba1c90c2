----------------------------- MODULE MCExpansion -----------------------------
(***************************************************************************)
(* TLC instances of Expansion: two ports, the boot thread and one          *)
(* application.                                                            *)
(***************************************************************************)
EXTENDS Expansion

CONSTANTS boot, app

TwoCallers == {boot, app}
TwoClients == {boot, app, "control", "worker"}

=============================================================================
