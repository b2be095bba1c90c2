------------------------------ MODULE MCLoader ------------------------------
(***************************************************************************)
(* TLC instances of Loader: the three threads of the loader.               *)
(***************************************************************************)
EXTENDS Loader

ThreeThreads == {"app", "menu", "apps"}

=============================================================================
