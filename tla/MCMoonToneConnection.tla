------------------------ MODULE MCMoonToneConnection ------------------------
(***************************************************************************)
(* Finite instances of MoonToneConnection.                                 *)
(***************************************************************************)
EXTENDS MoonToneConnection, TLC

CONSTANTS t1, t2

\* Nothing tells one reporting thread from another.
ThreadSymmetry == Permutations(Thread)

=============================================================================
