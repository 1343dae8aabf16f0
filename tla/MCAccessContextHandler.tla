----------------------- MODULE MCAccessContextHandler -----------------------
(***************************************************************************)
(* The on-chain system on small instances: each cfg picks the clones that  *)
(* may be deployed and the sets the calls draw their arguments from.       *)
(***************************************************************************)
EXTENDS AccessContextHandler

CONSTANTS d1, dEmpty, a1, c1, c2, r1, p1, m1, x1, s1, t1, t2, v1, v2

MCDID == {d1, dEmpty}
MCAccount == {a1}
MCContextId == {c1, c2}
MCOneContext == {c1}
MCRole == {r1}
MCPolicy == {p1}
MCPermission == {m1}
MCResource == {x1}
MCSalt == {t1, t2}
MCSession == {s1}
MCVerifier == {v1, v2}
MCSatisfiable == {v1}

\* One clone of c1.
MCOneClone == {<<t1, d1, c1>>}
==============================================================================
