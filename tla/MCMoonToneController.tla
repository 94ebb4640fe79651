------------------------ MODULE MCMoonToneController ------------------------
(***************************************************************************)
(* Finite instances of MoonToneController.                                 *)
(***************************************************************************)
EXTENDS MoonToneController

=============================================================================
