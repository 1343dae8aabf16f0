----------------------------- MODULE MCAccessGate ----------------------------
(***************************************************************************)
(* Two creations and a registration through the owner's wallet at two gas  *)
(* prices, and a user's service.                                           *)
(***************************************************************************)
EXTENDS AccessGate

MCPrice == {1, 2}

\* Bounds: in a state explored either no user has done anything yet, or the
\* owner's calls have not begun and the context comes from other clients; the
\* gate then has work while no call of the user's is under way.
NoUserYet ==
  /\ \A u \in User : calling[u] = "nothing" /\ gate[u] = "idle"
  /\ left = {} /\ granted = {} /\ kept = {} /\ opened = {}

ContextGiven ==
  /\ \A c \in Call : pc[c] \in {"start", "lookup"}
  /\ stored = NotStored
  /\ \A u \in User :
       \/ gate[u] = "idle" /\ recorded = {}
       \/ calling[u] = "nothing" /\ left = {} /\ kept = {}

Explored == NoUserYet \/ ContextGiven
==============================================================================
