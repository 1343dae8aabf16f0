---------------------------- MODULE MCManifestApi ----------------------------
(***************************************************************************)
(* One application to one manifest, submitted twice, also at the same      *)
(* time, and decided by a template, by a review and by a cancellation.     *)
(***************************************************************************)
EXTENDS ManifestApi

CONSTANTS m1, s1

MCManifestOf == [a \in Application |-> m1]

\* Bounds: manifest requests are looked at before the first submission, two
\* handlers run at the same time, and of the submitters, which are alike, s1 is
\* the first.
Explored ==
  /\ submissions = 0 \/ \A q \in RequestId : requests[q] = NoRequest
  /\ Cardinality({h \in Handler : Running(h)}) <= 2
  /\ submissions > 0 => task[s1].application # NoApplication
==============================================================================
