------------------------- MODULE MCCredentialStatus --------------------------
(***************************************************************************)
(* Three credentials with a pool of four indexes, so that it does not run  *)
(* out, and two handlers on either engine.                                 *)
(***************************************************************************)
EXTENDS CredentialStatus, TLC

MCShuffle == {<<1, 2, 3, 4>>, <<3, 1, 4, 2>>}
Symmetry == Permutations(Credential) \cup Permutations(Request)
==============================================================================
