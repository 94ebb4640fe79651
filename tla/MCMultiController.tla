------------------------- MODULE MCMultiController -------------------------
(***************************************************************************)
(* Finite instances of MultiController: which hosts report which unique    *)
(* id, and what the user may ask for, in each run.                         *)
(***************************************************************************)
EXTENDS MultiController, TLC

CONSTANTS h1, h2, u1

\* One address with a unique id and one, of an older host, without.
MixedUids == (h1 :> u1 @@ h2 :> NoUid)

\* Two addresses of one host.
SharedUid == (h1 :> u1 @@ h2 :> u1)

\* Volume requests below, at and above the range setVolume() coerces to.
SomeVolumes == {-1, 1, 3, NotFinite}

\* A single host, which reports a unique id.
OneUid == (h1 :> u1)

=============================================================================
