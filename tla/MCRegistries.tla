---------------------------- MODULE MCRegistries -----------------------------
(***************************************************************************)
(* The session registry and the DID registry it asks: two identities, two  *)
(* accounts and address(0), one session identifier.                        *)
(***************************************************************************)
EXTENDS SessionRegistry

CONSTANTS d1, d2, a1, a2, s1

MCDID == {d1, d2}
MCAccount == {a1, a2}
MCSessionId == {s1}
==============================================================================
