-------------------------- MODULE MCViewDispatcher --------------------------
(***************************************************************************)
(* Instances of ViewDispatcher for TLC.                                    *)
(***************************************************************************)
EXTENDS ViewDispatcher, TLC

CONSTANTS v1, v2, v3

\* Two views upright and one turned.
OneTurned == v1 :> "Horizontal" @@ v2 :> "Horizontal" @@ v3 :> "Vertical"
UprightAndTurned == v1 :> "Horizontal" @@ v3 :> "Vertical"
=============================================================================
