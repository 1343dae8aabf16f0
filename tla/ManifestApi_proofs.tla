-------------------------- MODULE ManifestApi_proofs --------------------------
(***************************************************************************)
(* An application is settled once for each of its submissions, never reads *)
(* as pending after that if it was submitted once, and was fulfilled with  *)
(* a response of its own, for any applications, submissions, reviews,      *)
(* manifests and failures; and whoever asks through the routes is told the *)
(* same until the application is submitted again.                          *)
(*                                                                         *)
(* A review takes no lock and does not look at the status it overwrites.   *)
(* What keeps the properties is the order of things, and this is what the  *)
(* inductive invariant says: nothing exists of an application before a     *)
(* submission writes it (UnwrittenIsEmpty), so the first write of a        *)
(* pending status comes before every decision (Decided, WrittenFirst).     *)
(***************************************************************************)
EXTENDS ManifestApi, FiniteSetTheorems, SequenceTheorems, TLAPS

Step == {"idle", "failed", "denial", "application", "operation", "template",
         "manifest", "credentials", "status", "response", "finish"}

\* The steps before a handler builds a response, those of a submission first.
Submitting == {"denial", "application", "operation", "template"}
BeforeResponse == Submitting \cup {"manifest", "credentials"}

Decision == [application : Application \cup {NoApplication}, approved : BOOLEAN,
             response : Nat]

TypeOK ==
  /\ manifests \in [Manifest -> {"new", "stored", "deleted"}]
  /\ templates \in SUBSET Manifest
  /\ applications \in [Application -> 0..4]
  /\ responses \in [ResponseId -> {"new", "stored", "deleted"}]
  /\ issued \in SUBSET Nat
  /\ built \in Seq(Decision)
  /\ Ops!OperationsTypeOK
  /\ submissions \in 0..MaxSubmissions /\ reviews \in 0..MaxReviews
  /\ pc \in [Handler -> Step]
  /\ task \in [Handler -> Decision]
  /\ written \in SUBSET Application /\ rewritten \subseteq written

\* Which handler takes which steps, and about which application.
Roles ==
  /\ \A s \in Submitter : pc[s] # "manifest"
  /\ \A v \in Reviewer : pc[v] \notin Submitting
  /\ \A h \in Handler : Running(h) => task[h].application \in Application

\* Each response was asked for by a submission or by a review.
Awaited == {h \in Handler : pc[h] \in BeforeResponse}

InBudget == Len(built) + Cardinality(Awaited) <= submissions + reviews

\* Only submissions that have written nothing know of an application that none has.
UnwrittenIsEmpty ==
  \A a \in Application \ written :
    /\ applications[a] = 0 /\ operations[a].state = "absent"
    /\ \A h \in Handler :
         Running(h) /\ task[h].application = a => pc[h] \in {"denial", "application"}

\* A handler that builds on a response builds on its own.
Decided ==
  \A h \in Handler :
    pc[h] \in {"status", "response", "finish"} =>
      LET i == task[h].response
      IN i \in 1..Len(built) /\ built[i] = task[h] /\ (task[h].approved => i \in issued)

WrittenFirst ==
  \A h \in Handler :
    pc[h] \in {"response", "finish"} /\ task[h].application \notin rewritten =>
      applications[task[h].application] # StatusPending

DoneIsBuilt ==
  \A a \in Application :
    operations[a].state = "done" /\ operations[a].response.kind = "response" =>
      operations[a].response.response \in 1..Len(built)

IInv ==
  /\ TypeOK /\ Roles /\ InBudget /\ UnwrittenIsEmpty /\ Decided /\ WrittenFirst
  /\ DoneNotPending /\ DoneIsBuilt /\ DoneIsFulfilled

\* What a client was told is what the operation was done with, unless a submission
\* wrote the operation since.
ToldAsDone ==
  \A a \in Application \ reopened :
    told[a] # NotTold => operations[a].state = "done" /\ told[a] = operations[a].response

------------------------------------------------------------------------------
LEMMA SetsAreFinite ==
  /\ IsFiniteSet(Handler)
  /\ MaxResponses \in Nat
  /\ \A S \in SUBSET Handler : IsFiniteSet(S) /\ Cardinality(S) \in Nat
<1>1. IsFiniteSet(Handler)
  BY FiniteAssumption, FS_Union DEF Handler
<1>3. ASSUME NEW S \in SUBSET Handler PROVE IsFiniteSet(S) /\ Cardinality(S) \in Nat
  BY <1>1, FS_Subset, FS_CardinalityType
<1> QED BY <1>1, <1>3, MaxCallsAssumption DEF MaxResponses

\* The step every handler has in common, and what it does to those awaited.
LEMMA GoToType ==
  ASSUME TypeOK, NEW h \in Handler, NEW step \in Step, GoTo(h, step)
  PROVE  /\ pc' \in [Handler -> Step]
         /\ pc'[h] = step
         /\ \A g \in Handler \ {h} : pc'[g] = pc[g]
BY DEF TypeOK, GoTo

LEMMA AwaitedStep ==
  ASSUME TypeOK, NEW h \in Handler, NEW step \in Step, GoTo(h, step)
  PROVE  /\ Cardinality(Awaited) \in Nat /\ Cardinality(Awaited') \in Nat
         /\ step \in BeforeResponse /\ h \notin Awaited
              => Cardinality(Awaited') = Cardinality(Awaited) + 1
         /\ step \in BeforeResponse /\ h \in Awaited => Awaited' = Awaited
         /\ step \notin BeforeResponse /\ h \in Awaited
              => Cardinality(Awaited') = Cardinality(Awaited) - 1
         /\ step \notin BeforeResponse /\ h \notin Awaited => Awaited' = Awaited
<1>1. /\ IsFiniteSet(Awaited) /\ Cardinality(Awaited) \in Nat
      /\ IsFiniteSet(Awaited') /\ Cardinality(Awaited') \in Nat
  BY SetsAreFinite DEF Awaited
<1>2. CASE step \in BeforeResponse
  <2>1. Awaited' = Awaited \cup {h}
    BY <1>2, GoToType DEF Awaited
  <2> QED BY <1>1, <1>2, <2>1, FS_AddElement
<1>3. CASE step \notin BeforeResponse
  <2>1. Awaited' = Awaited \ {h}
    BY <1>3, GoToType DEF Awaited
  <2> QED BY <1>1, <1>3, <2>1, FS_RemoveElement
<1> QED BY <1>2, <1>3, <1>1

\* What the write of one operation's record does to the records.
LEMMA OperationWritten ==
  ASSUME Ops!OperationsTypeOK, NEW a \in Application, NEW new \in Ops!Operation,
         operations' = [operations EXCEPT ![a] = new]
  PROVE  /\ Ops!OperationsTypeOK'
         /\ operations'[a] = new
         /\ \A b \in Application \ {a} : operations'[b] = operations[b]
BY DEF Ops!OperationsTypeOK

LEMMA DoneIsOperation ==
  /\ Denial \in Result /\ Cancelled \in Result
  /\ \A i \in 0..MaxResponses : Responded(i) \in Result
  /\ \A result \in Result : [state |-> "done", response |-> result] \in Ops!Operation
BY SetsAreFinite DEF Result, Denial, Cancelled, Responded, Ops!Operation

\* There is an id for every response that is built.
LEMMA ResponsesFit ==
  ASSUME IInv
  PROVE  /\ Len(built) <= MaxResponses
         /\ \A h \in Handler : pc[h] \in BeforeResponse => Len(built) + 1 <= MaxResponses
<1>1. Cardinality(Awaited) \in Nat /\ (Awaited # {} => Cardinality(Awaited) > 0)
  BY SetsAreFinite, FS_EmptySet DEF Awaited
<1>3. Len(built) \in Nat
  BY LenProperties DEF IInv, TypeOK
<1>4. Len(built) + Cardinality(Awaited) <= MaxResponses
  BY <1>1, <1>3, MaxCallsAssumption DEF IInv, TypeOK, InBudget, MaxResponses
<1> QED BY <1>1, <1>3, <1>4, SetsAreFinite DEF Awaited

LEMMA TaskOf ==
  ASSUME IInv, NEW h \in Handler, Running(h) PROVE task[h].application \in Application
BY DEF IInv, Roles

LEMMA WritesStep ==
  ASSUME TypeOK, NEW a \in Application, Writes(a)
  PROVE  /\ written' \in SUBSET Application /\ rewritten' \subseteq written'
         /\ written' = written \cup {a}
         /\ rewritten \subseteq rewritten'
         /\ a \notin rewritten' => a \notin written
BY DEF TypeOK, Writes

LEMMA InitInv == Init => IInv
<1> SUFFICES ASSUME Init PROVE IInv
  OBVIOUS
<1>1. TypeOK
  <2>1. Ops!OperationsTypeOK
    BY DEF Init, Ops!OperationsInit, Ops!OperationsTypeOK, Ops!NoOperation, Ops!Operation
  <2>2. pc \in [Handler -> Step] /\ task \in [Handler -> Decision]
    BY DEF Init, Step, Decision, Task
  <2>3. written \in SUBSET Application /\ rewritten \subseteq written
    BY DEF Init
  <2>4. submissions \in 0..MaxSubmissions /\ reviews \in 0..MaxReviews
    BY MaxCallsAssumption DEF Init
  <2>5. built \in Seq(Decision) /\ issued \in SUBSET Nat
    BY DEF Init
  <2>6. applications \in [Application -> 0..4]
    BY DEF Init
  <2>7. /\ manifests \in [Manifest -> {"new", "stored", "deleted"}]
        /\ templates \in SUBSET Manifest
        /\ responses \in [ResponseId -> {"new", "stored", "deleted"}]
    BY DEF Init
  <2> QED BY <2>1, <2>2, <2>3, <2>4, <2>5, <2>6, <2>7 DEF TypeOK
<1>2. Roles
  BY DEF Init, Roles, Running, Submitting, Handler
<1>3. InBudget
  <2>1. Awaited = {} /\ submissions = 0 /\ Len(built) = 0 /\ reviews = 0
    BY DEF Init, Awaited, BeforeResponse, Submitting
  <2> QED BY <2>1, FS_EmptySet DEF InBudget
<1>4. UnwrittenIsEmpty
  BY DEF Init, UnwrittenIsEmpty, Running, Ops!OperationsInit, Ops!NoOperation
<1>5. Decided /\ WrittenFirst
  BY DEF Init, Decided, WrittenFirst
<1>6. DoneNotPending /\ DoneIsBuilt /\ DoneIsFulfilled
  BY DEF Init, DoneNotPending, DoneIsBuilt, DoneIsFulfilled, Ops!OperationsInit, Ops!NoOperation
<1> QED BY <1>1, <1>2, <1>3, <1>4, <1>5, <1>6 DEF IInv

------------------------------------------------------------------------------
LEMMA TypeStep == IInv /\ [Next]_vars => TypeOK'
<1> SUFFICES ASSUME IInv, [Next]_vars PROVE TypeOK'
  OBVIOUS
<1>0. TypeOK
  BY DEF IInv
<1>1. CASE UNCHANGED vars
  BY <1>0, <1>1 DEF vars, catalog, records, calls, history, TypeOK, Ops!OperationsTypeOK
<1>2. ASSUME NEW m \in Manifest,
             CreateManifest(m) \/ DeleteManifest(m) \/
             CreateIssuanceTemplate(m) \/ DeleteIssuanceTemplate(m)
      PROVE  TypeOK'
  BY <1>0, <1>2 DEF CreateManifest, DeleteManifest, CreateIssuanceTemplate,
     DeleteIssuanceTemplate, records, calls, history, TypeOK, Ops!OperationsTypeOK
<1>3. ASSUME NEW a \in Application, DeleteApplication(a) PROVE TypeOK'
  BY <1>0, <1>3 DEF DeleteApplication, catalog, calls, history, TypeOK, Ops!OperationsTypeOK
<1>4. ASSUME NEW i \in ResponseId, DeleteResponse(i) PROVE TypeOK'
  BY <1>0, <1>4 DEF DeleteResponse, catalog, calls, history, TypeOK, Ops!OperationsTypeOK
<1>5. ASSUME NEW s \in Submitter, NEW a \in Application, ProcessApplicationSubmission(s, a)
      PROVE  TypeOK'
  <2>1. PICK step \in Validation : GoTo(s, step)
    BY <1>5 DEF ProcessApplicationSubmission
  <2>2. pc' \in [Handler -> Step]
    BY <1>0, <2>1, GoToType DEF Validation, Step, Handler
  <2>3. task' \in [Handler -> Decision]
    BY <1>0, <1>5 DEF ProcessApplicationSubmission, TypeOK, Task, Decision
  <2>4. submissions' \in 0..MaxSubmissions
    BY <1>0, <1>5, MaxCallsAssumption DEF ProcessApplicationSubmission, TypeOK
  <2> QED BY <1>0, <1>5, <2>2, <2>3, <2>4 DEF ProcessApplicationSubmission, catalog, records,
          history, TypeOK, Ops!OperationsTypeOK
<1>6. ASSUME NEW s \in Submitter, StoreDenial(s) PROVE TypeOK'
  <2>0. task[s].application \in Application
    BY <1>6, TaskOf DEF StoreDenial, Running, Handler
  <2>1. Ops!OperationsTypeOK'
    BY <1>0, <1>6, <2>0, OperationWritten, DoneIsOperation
       DEF StoreDenial, Ops!StoreDoneOperation, TypeOK
  <2>2. pc' \in [Handler -> Step]
    BY <1>0, <1>6, GoToType DEF StoreDenial, Step, Handler
  <2>3. written' \in SUBSET Application /\ rewritten' \subseteq written'
    BY <1>0, <1>6, <2>0, WritesStep DEF StoreDenial
  <2> QED BY <1>0, <1>6, <2>1, <2>2, <2>3 DEF StoreDenial, catalog, calls, TypeOK
<1>7. ASSUME NEW s \in Submitter, StoreApplication(s) PROVE TypeOK'
  <2>0. task[s].application \in Application
    BY <1>7, TaskOf DEF StoreApplication, Running, Handler
  <2>1. pc' \in [Handler -> Step]
    BY <1>0, <1>7, GoToType DEF StoreApplication, Step, Handler
  <2>2. written' \in SUBSET Application /\ rewritten' \subseteq written'
    BY <1>0, <1>7, <2>0, WritesStep DEF StoreApplication
  <2>3. applications' \in [Application -> 0..4]
    BY <1>0, <1>7, <2>0 DEF StoreApplication, TypeOK, StatusPending
  <2> QED BY <1>0, <1>7, <2>1, <2>2, <2>3 DEF StoreApplication, catalog, calls, TypeOK,
          Ops!OperationsTypeOK
<1>8. ASSUME NEW s \in Submitter, StoreOperation(s) PROVE TypeOK'
  <2>0. task[s].application \in Application
    BY <1>8, TaskOf DEF StoreOperation, Running, Handler
  <2>1. [state |-> "running", response |-> [kind |-> "none", response |-> 0]] \in Ops!Operation
    BY DEF Ops!Operation
  <2>2. Ops!OperationsTypeOK'
    BY <1>0, <1>8, <2>0, <2>1, OperationWritten DEF StoreOperation, Ops!StoreOperation, TypeOK
  <2>3. pc' \in [Handler -> Step]
    BY <1>0, <1>8, GoToType DEF StoreOperation, Step, Handler
  <2> QED BY <1>0, <1>8, <2>2, <2>3 DEF StoreOperation, catalog, calls, history, TypeOK
<1>9. ASSUME NEW h \in Handler, ReadTemplate(h) \/ ReadManifest(h) \/ Abandon(h)
      PROVE  TypeOK'
  <2>1. pc' \in [Handler -> Step]
    BY <1>0, <1>9, GoToType DEF ReadTemplate, ReadManifest, Abandon, Step
  <2> QED BY <1>0, <1>9, <2>1 DEF ReadTemplate, ReadManifest, Abandon, catalog, records, calls,
          history, TypeOK, Ops!OperationsTypeOK
<1>10. ASSUME NEW v \in Reviewer, NEW a \in Application, NEW approved \in BOOLEAN,
              ReadApplication(v, a, approved)
       PROVE  TypeOK'
  <2>1. pc' \in [Handler -> Step]
    BY <1>0, <1>10, GoToType DEF ReadApplication, Step, Handler
  <2>2. [application |-> a, approved |-> approved, response |-> 0] \in Decision
    BY DEF Decision
  <2>3. task' \in [Handler -> Decision]
    BY <1>0, <1>10, <2>2 DEF ReadApplication, Task, TypeOK
  <2>4. reviews' \in 0..MaxReviews
    BY <1>0, <1>10, MaxCallsAssumption DEF ReadApplication, TypeOK
  <2> QED BY <1>0, <1>10, <2>1, <2>3, <2>4 DEF ReadApplication, catalog, records, history, TypeOK,
          Ops!OperationsTypeOK
<1>11. ASSUME NEW h \in Handler, BuildResponse(h) PROVE TypeOK'
  <2> DEFINE i == Len(built) + 1
  <2>1. i \in Nat
    BY <1>0, LenProperties DEF TypeOK
  <2>2. pc' \in [Handler -> Step]
    BY <1>0, <1>11, GoToType DEF BuildResponse, Step
  <2>3. [task[h] EXCEPT !.response = i] \in Decision
    BY <1>0, <2>1 DEF TypeOK, Decision
  <2>4. built' \in Seq(Decision)
    BY <1>0, <1>11, <2>3, AppendProperties DEF BuildResponse, TypeOK
  <2>5. task' \in [Handler -> Decision]
    BY <1>0, <1>11, <2>1, <2>3 DEF BuildResponse, TypeOK
  <2>6. issued' \in SUBSET Nat
    BY <1>0, <1>11, <2>1 DEF BuildResponse, TypeOK
  <2> QED BY <1>0, <1>11, <2>2, <2>4, <2>5, <2>6 DEF BuildResponse, catalog, calls, history, TypeOK,
          Ops!OperationsTypeOK
<1>12. ASSUME NEW h \in Handler, UpdateApplication(h) PROVE TypeOK'
  <2>1. pc' \in [Handler -> Step]
    BY <1>0, <1>12, GoToType DEF UpdateApplication, Step
  <2>2. applications' \in [Application -> 0..4]
    BY <1>0, <1>12 DEF UpdateApplication, TypeOK, StatusApproved, StatusDenied
  <2> QED BY <1>0, <1>12, <2>1, <2>2 DEF UpdateApplication, catalog, calls, history, TypeOK,
          Ops!OperationsTypeOK
<1>13. ASSUME NEW h \in Handler, StoreResponse(h) PROVE TypeOK'
  <2>1. pc' \in [Handler -> Step]
    BY <1>0, <1>13, GoToType DEF StoreResponse, Step
  <2> QED BY <1>0, <1>13, <2>1 DEF StoreResponse, catalog, calls, history, TypeOK, Ops!OperationsTypeOK
<1>14. ASSUME NEW h \in Handler, FinishReview(h) PROVE TypeOK'
  <2>1. pc' \in [Handler -> Step]
    BY <1>0, <1>14, GoToType DEF FinishReview, Step
  <2>2. task[h].application \in Application
    BY <1>14 DEF FinishReview, IInv, Roles, Running, Handler
  <2>3. Responded(task[h].response) \in Result
    BY <1>14, ResponsesFit, LenProperties, SetsAreFinite, DoneIsOperation
       DEF FinishReview, IInv, Decided, TypeOK
  <2>4. Ops!OperationsTypeOK'
    <3>1. CASE UNCHANGED operations
      BY <1>0, <3>1 DEF TypeOK, Ops!OperationsTypeOK
    <3>2. CASE Ops!FinishOperation(task[h].application, Responded(task[h].response))
      BY <1>0, <2>2, <2>3, <3>2, OperationWritten, DoneIsOperation
         DEF Ops!FinishOperation, TypeOK
    <3> QED BY <1>14, <3>1, <3>2 DEF FinishReview
  <2> QED BY <1>0, <1>14, <2>1, <2>4 DEF FinishReview, catalog, calls, history, TypeOK
<1>15. ASSUME NEW a \in Application, CancelOperation(a) PROVE TypeOK'
  <2>1. Ops!OperationsTypeOK'
    BY <1>0, <1>15, OperationWritten, DoneIsOperation DEF CancelOperation, Ops!FinishOperation, TypeOK
  <2> QED BY <1>0, <1>15, <2>1 DEF CancelOperation, catalog, calls, history, TypeOK, StatusCancelled
<1> QED BY <1>1, <1>2, <1>3, <1>4, <1>5, <1>6, <1>7, <1>8, <1>9, <1>10, <1>11, <1>12, <1>13,
           <1>14, <1>15 DEF Next, HandlerStep, SubmitStep, StoreReviewApplication, Handler

------------------------------------------------------------------------------
\* The steps that move a handler and write nothing, with where they move it.
Moves(h) == ReadTemplate(h) \/ ReadManifest(h) \/ Abandon(h)

LEMMA MoveStep ==
  ASSUME IInv, NEW h \in Handler, Moves(h)
  PROVE  /\ UNCHANGED <<catalog, records, built, calls, task, history>>
         /\ Running(h)
         /\ pc' \in [Handler -> Step]
         /\ pc'[h] \in {"idle", "failed", "credentials"}
         /\ pc'[h] = "credentials" => pc[h] \in {"template", "manifest"}
         /\ \A g \in Handler \ {h} : pc'[g] = pc[g]
<1>1. CASE ReadTemplate(h)
  BY <1>1, GoToType DEF ReadTemplate, Running, IInv, Step
<1>2. CASE ReadManifest(h)
  BY <1>2, GoToType DEF ReadManifest, Running, IInv, Step
<1>3. CASE Abandon(h)
  BY <1>3, GoToType DEF Abandon, IInv, Step
<1> QED BY <1>1, <1>2, <1>3 DEF Moves

\* What can happen, one case per action.
LEMMA NextCases ==
  ASSUME Next
  PROVE  \/ \E m \in Manifest :
              CreateManifest(m) \/ DeleteManifest(m) \/
              CreateIssuanceTemplate(m) \/ DeleteIssuanceTemplate(m)
         \/ \E a \in Application : DeleteApplication(a)
         \/ \E i \in ResponseId : DeleteResponse(i)
         \/ \E s \in Submitter, a \in Application : ProcessApplicationSubmission(s, a)
         \/ \E s \in Submitter : StoreDenial(s)
         \/ \E s \in Submitter : StoreApplication(s)
         \/ \E s \in Submitter : StoreOperation(s)
         \/ \E h \in Handler : Moves(h)
         \/ \E v \in Reviewer, a \in Application, approved \in BOOLEAN :
              ReadApplication(v, a, approved)
         \/ \E h \in Handler : BuildResponse(h)
         \/ \E h \in Handler : UpdateApplication(h)
         \/ \E h \in Handler : StoreResponse(h)
         \/ \E h \in Handler : FinishReview(h)
         \/ \E a \in Application : CancelOperation(a)
BY DEF Next, HandlerStep, SubmitStep, StoreReviewApplication, Handler, Moves

\* A step that adds nothing to an application that is not written: it moves one
\* handler, which keeps its task or decides about one that is.
LEMMA UnwrittenKept ==
  ASSUME IInv, NEW h \in Handler,
         \A a \in Application \ written' :
           /\ a \notin written
           /\ applications'[a] \in {0, applications[a]}
           /\ operations'[a] = operations[a],
         \A g \in Handler \ {h} : pc'[g] = pc[g] /\ task'[g].application = task[g].application,
         h \in Submitter => pc'[h] # "manifest",
         h \in Reviewer => pc'[h] \notin Submitting,
         pc'[h] \notin {"idle", "failed"} =>
           task'[h].application \in Application
             /\ (task'[h].application \in written' \/ pc'[h] \in {"denial", "application"})
  PROVE  Roles' /\ UnwrittenIsEmpty'
<1> USE DEF Running
<1>1. Roles /\ UnwrittenIsEmpty
  BY DEF IInv
<1>2. Roles'
  BY <1>1 DEF Roles, Handler
<1>3. UnwrittenIsEmpty'
  BY <1>1 DEF UnwrittenIsEmpty
<1> QED BY <1>2, <1>3

\* Whoever is past the steps of a new submission decides about a written one.
LEMMA WrittenOf ==
  ASSUME IInv, NEW h \in Handler, Running(h), pc[h] \notin {"denial", "application"}
  PROVE  task[h].application \in Application \cap written
BY DEF IInv, Roles, UnwrittenIsEmpty

LEMMA UnwrittenStep == IInv /\ [Next]_vars => Roles' /\ UnwrittenIsEmpty'
<1> SUFFICES ASSUME IInv, [Next]_vars PROVE Roles' /\ UnwrittenIsEmpty'
  OBVIOUS
<1>0. TypeOK /\ Roles /\ UnwrittenIsEmpty
  BY DEF IInv
<1> USE HandlersAssumption DEF Handler
<1>1. CASE UNCHANGED <<applications, operations, history, pc, task>>
  BY <1>0, <1>1 DEF Roles, UnwrittenIsEmpty, Running, history
<1>2. ASSUME NEW m \in Manifest,
             CreateManifest(m) \/ DeleteManifest(m) \/
             CreateIssuanceTemplate(m) \/ DeleteIssuanceTemplate(m)
      PROVE  UNCHANGED <<applications, operations, history, pc, task>>
  BY <1>2 DEF CreateManifest, DeleteManifest, CreateIssuanceTemplate,
              DeleteIssuanceTemplate, records, calls
<1>3. ASSUME NEW a \in Application, DeleteApplication(a) PROVE Roles' /\ UnwrittenIsEmpty'
  <2>1. /\ UNCHANGED <<operations, history, pc, task>>
        /\ \A b \in Application : applications'[b] \in {0, applications[b]}
    BY <1>0, <1>3 DEF DeleteApplication, calls, TypeOK
  <2> QED BY <1>0, <2>1 DEF Roles, UnwrittenIsEmpty, Running, history
<1>4. ASSUME NEW i \in ResponseId, DeleteResponse(i)
      PROVE  UNCHANGED <<applications, operations, history, pc, task>>
  BY <1>4 DEF DeleteResponse, calls
<1>5. ASSUME NEW s \in Submitter, NEW a \in Application, ProcessApplicationSubmission(s, a)
      PROVE  Roles' /\ UnwrittenIsEmpty'
  <2>1. /\ UNCHANGED <<applications, operations, written>>
        /\ pc'[s] \in {"failed", "denial", "application"}
        /\ \A g \in Handler \ {s} : pc'[g] = pc[g]
    BY <1>0, <1>5, GoToType DEF ProcessApplicationSubmission, records, history, Validation, Step
  <2>2. /\ task'[s].application = a
        /\ \A g \in Handler \ {s} : task'[g] = task[g]
    BY <1>0, <1>5 DEF ProcessApplicationSubmission, Task, TypeOK
  <2> QED BY <2>1, <2>2, UnwrittenKept
<1>6. ASSUME NEW s \in Submitter, StoreDenial(s) PROVE Roles' /\ UnwrittenIsEmpty'
  <2> DEFINE a == task[s].application
  <2>1. /\ UNCHANGED <<applications, task>>
        /\ pc[s] = "denial" /\ pc'[s] = "idle"
        /\ \A g \in Handler \ {s} : pc'[g] = pc[g]
    BY <1>0, <1>6, GoToType DEF StoreDenial, calls, Step
  <2>2. a \in Application
    BY <2>1, TaskOf DEF Running
  <2>3. written' = written \cup {a}
    BY <1>0, <1>6, <2>2, WritesStep DEF StoreDenial
  <2>4. \A b \in Application \ {a} : operations'[b] = operations[b]
    BY <1>0, <1>6 DEF StoreDenial, Ops!StoreDoneOperation, TypeOK, Ops!OperationsTypeOK
  <2> QED BY <2>1, <2>3, <2>4, UnwrittenKept
<1>7. ASSUME NEW s \in Submitter, StoreApplication(s) PROVE Roles' /\ UnwrittenIsEmpty'
  <2> DEFINE a == task[s].application
  <2>1. /\ UNCHANGED <<operations, task>>
        /\ pc[s] = "application" /\ pc'[s] = "operation"
        /\ \A g \in Handler \ {s} : pc'[g] = pc[g]
        /\ \A b \in Application \ {a} : applications'[b] = applications[b]
    BY <1>0, <1>7, GoToType DEF StoreApplication, calls, Step, TypeOK
  <2>2. a \in Application
    BY <2>1, TaskOf DEF Running
  <2>3. written' = written \cup {a}
    BY <1>0, <1>7, <2>2, WritesStep DEF StoreApplication
  <2> QED BY <2>1, <2>2, <2>3, UnwrittenKept
<1>8. ASSUME NEW s \in Submitter, StoreOperation(s) PROVE Roles' /\ UnwrittenIsEmpty'
  <2> DEFINE a == task[s].application
  <2>1. /\ UNCHANGED <<applications, written, task>>
        /\ pc[s] = "operation" /\ pc'[s] = "template"
        /\ \A g \in Handler \ {s} : pc'[g] = pc[g]
    BY <1>0, <1>8, GoToType DEF StoreOperation, calls, history, Step
  <2>2. a \in Application /\ a \in written
    BY <2>1, WrittenOf DEF Running
  <2>3. \A b \in Application \ {a} : operations'[b] = operations[b]
    BY <1>0, <1>8 DEF StoreOperation, Ops!StoreOperation, TypeOK, Ops!OperationsTypeOK
  <2> QED BY <2>1, <2>2, <2>3, UnwrittenKept
<1>9. ASSUME NEW h \in Handler, Moves(h)
      PROVE  Roles' /\ UnwrittenIsEmpty'
  <2>1. UNCHANGED <<applications, operations, written, task>>
    BY <1>9, MoveStep DEF records, calls, history
  <2>2. /\ Running(h)
        /\ pc'[h] \in {"idle", "failed", "credentials"}
        /\ pc'[h] = "credentials" => pc[h] \in {"template", "manifest"}
        /\ \A g \in Handler \ {h} : pc'[g] = pc[g]
    BY <1>9, MoveStep
  <2>3. pc'[h] = "credentials" => task[h].application \in Application \cap written
    BY <2>2, WrittenOf
  <2>4. pc'[h] \notin Submitting /\ pc'[h] # "manifest"
    BY <2>2 DEF Submitting
  <2> QED BY <2>1, <2>2, <2>3, <2>4, UnwrittenKept
<1>10. ASSUME NEW v \in Reviewer, NEW a \in Application, NEW approved \in BOOLEAN,
              ReadApplication(v, a, approved)
       PROVE  Roles' /\ UnwrittenIsEmpty'
  <2>1. /\ UNCHANGED <<applications, operations, written>>
        /\ applications[a] # 0
        /\ pc'[v] = "manifest"
        /\ \A g \in Handler \ {v} : pc'[g] = pc[g]
    BY <1>0, <1>10, GoToType DEF ReadApplication, records, history, Step
  <2>2. /\ task'[v].application = a
        /\ \A g \in Handler \ {v} : task'[g] = task[g]
    BY <1>0, <1>10 DEF ReadApplication, Task, TypeOK
  <2>3. a \in written /\ v \notin Submitter
    BY <1>0, <2>1 DEF UnwrittenIsEmpty
  <2>4. pc'[v] \notin Submitting
    BY <2>1 DEF Submitting
  <2> QED BY <2>1, <2>2, <2>3, <2>4, UnwrittenKept
<1>11. ASSUME NEW h \in Handler, BuildResponse(h) PROVE Roles' /\ UnwrittenIsEmpty'
  <2>1. /\ UNCHANGED <<applications, operations, written>>
        /\ pc[h] = "credentials" /\ pc'[h] = "status"
        /\ \A g \in Handler \ {h} : pc'[g] = pc[g]
    BY <1>0, <1>11, GoToType DEF BuildResponse, calls, history, Step
  <2>2. \A g \in Handler : task'[g].application = task[g].application
    BY <1>0, <1>11 DEF BuildResponse, TypeOK, Decision
  <2>3. task[h].application \in Application \cap written
    BY <2>1, WrittenOf DEF Running
  <2>4. pc'[h] \notin Submitting
    BY <2>1 DEF Submitting
  <2> QED BY <2>1, <2>2, <2>3, <2>4, UnwrittenKept
<1>12. ASSUME NEW h \in Handler, UpdateApplication(h) \/ StoreResponse(h)
       PROVE  Roles' /\ UnwrittenIsEmpty'
  <2> DEFINE a == task[h].application
  <2>1. /\ UNCHANGED <<operations, written, task>>
        /\ pc[h] \in {"status", "response"} /\ pc'[h] \in {"failed", "response", "finish"}
        /\ \A g \in Handler \ {h} : pc'[g] = pc[g]
        /\ \A b \in Application \ {a} : applications'[b] = applications[b]
    BY <1>0, <1>12, GoToType DEF UpdateApplication, StoreResponse, calls, history, Step, TypeOK
  <2>2. a \in Application \cap written
    BY <2>1, WrittenOf DEF Running
  <2>3. pc'[h] \notin Submitting
    BY <2>1 DEF Submitting
  <2> QED BY <2>1, <2>2, <2>3, UnwrittenKept
<1>14. ASSUME NEW h \in Handler, FinishReview(h) PROVE Roles' /\ UnwrittenIsEmpty'
  <2> DEFINE a == task[h].application
  <2>1. /\ UNCHANGED <<applications, written, task>>
        /\ pc[h] = "finish" /\ pc'[h] \in {"idle", "failed"}
        /\ \A g \in Handler \ {h} : pc'[g] = pc[g]
    BY <1>0, <1>14, GoToType DEF FinishReview, calls, history, Step
  <2>2. a \in Application \cap written
    BY <2>1, WrittenOf DEF Running
  <2>3. \A b \in Application \ {a} : operations'[b] = operations[b]
    BY <1>0, <1>14 DEF FinishReview, Ops!FinishOperation, TypeOK, Ops!OperationsTypeOK
  <2>4. pc'[h] \notin Submitting
    BY <2>1 DEF Submitting
  <2> QED BY <2>1, <2>2, <2>3, <2>4, UnwrittenKept
<1>15. ASSUME NEW a \in Application, CancelOperation(a) PROVE Roles' /\ UnwrittenIsEmpty'
  <2>1. /\ UNCHANGED <<written, pc, task>>
        /\ applications[a] # 0
        /\ \A b \in Application \ {a} :
             applications'[b] = applications[b] /\ operations'[b] = operations[b]
    BY <1>0, <1>15 DEF CancelOperation, calls, history, Ops!FinishOperation, TypeOK,
       Ops!OperationsTypeOK
  <2>2. a \in written
    BY <1>0, <2>1 DEF UnwrittenIsEmpty
  <2> QED BY <1>0, <2>1, <2>2 DEF Roles, UnwrittenIsEmpty, Running
<1>16. UNCHANGED vars => UNCHANGED <<applications, operations, history, pc, task>>
  BY DEF vars, records, calls
<1> QED BY <1>1, <1>2, <1>3, <1>4, <1>5, <1>6, <1>7, <1>8, <1>9, <1>10, <1>11, <1>12,
           <1>14, <1>15, <1>16, NextCases

------------------------------------------------------------------------------
\* Whoever starts adds to the right of InBudget, whoever builds moves on the left.
LEMMA BudgetStep == IInv /\ [Next]_vars => InBudget'
<1> SUFFICES ASSUME IInv, [Next]_vars PROVE InBudget'
  OBVIOUS
<1>0. /\ TypeOK /\ InBudget /\ reviews \in Nat /\ Len(built) \in Nat
      /\ submissions \in Nat
  BY LenProperties, FiniteAssumption, FS_Subset, FS_CardinalityType, MaxCallsAssumption
     DEF IInv, TypeOK
<1> USE DEF Handler, BeforeResponse, Submitting, calls
<1>1. CASE UNCHANGED <<built, calls, pc>>
  BY <1>0, <1>1 DEF InBudget, Awaited
<1>2. ASSUME NEW m \in Manifest,
             CreateManifest(m) \/ DeleteManifest(m) \/
             CreateIssuanceTemplate(m) \/ DeleteIssuanceTemplate(m)
      PROVE  UNCHANGED <<built, calls, pc>>
  BY <1>2 DEF CreateManifest, DeleteManifest, CreateIssuanceTemplate,
              DeleteIssuanceTemplate, calls
<1>3. ASSUME NEW a \in Application, DeleteApplication(a) \/ CancelOperation(a)
      PROVE  UNCHANGED <<built, calls, pc>>
  BY <1>3 DEF DeleteApplication, CancelOperation, calls
<1>4. ASSUME NEW i \in ResponseId, DeleteResponse(i)
      PROVE  UNCHANGED <<built, calls, pc>>
  BY <1>4 DEF DeleteResponse, calls
<1>5. ASSUME NEW s \in Submitter, NEW a \in Application, ProcessApplicationSubmission(s, a)
      PROVE  InBudget'
  <2>1. PICK step \in Validation : GoTo(s, step)
    BY <1>5 DEF ProcessApplicationSubmission
  <2>2. UNCHANGED <<built, reviews>> /\ submissions' = submissions + 1
    BY <1>5 DEF ProcessApplicationSubmission
  <2>3. step \in Step /\ s \in Handler
    BY DEF Validation, Step
  <2> HIDE DEF BeforeResponse, Submitting, Handler
  <2>4. Cardinality(Awaited) \in Nat /\ Cardinality(Awaited') \in Nat
        /\ Cardinality(Awaited') <= Cardinality(Awaited) + 1
    BY <1>0, <2>1, <2>3, AwaitedStep
  <2> QED BY <1>0, <2>2, <2>4 DEF InBudget
<1>6. ASSUME NEW h \in Handler, NEW step \in Step \ BeforeResponse, GoTo(h, step),
             UNCHANGED <<built, calls>>
      PROVE  InBudget'
  <2>1. Cardinality(Awaited) \in Nat /\ Cardinality(Awaited') \in Nat
        /\ Cardinality(Awaited') <= Cardinality(Awaited)
    BY <1>0, <1>6, AwaitedStep
  <2> QED BY <1>0, <1>6, <2>1 DEF InBudget
<1>7. ASSUME NEW h \in Handler, pc[h] \in BeforeResponse, NEW step \in Step, GoTo(h, step),
             UNCHANGED <<built, calls>>
      PROVE  InBudget'
  <2>1. h \in Awaited
    BY <1>7 DEF Awaited
  <2> HIDE DEF BeforeResponse, Submitting, Handler
  <2>2. Cardinality(Awaited) \in Nat /\ Cardinality(Awaited') \in Nat
        /\ Cardinality(Awaited') <= Cardinality(Awaited)
    BY <1>0, <1>7, <2>1, AwaitedStep
  <2> QED BY <1>0, <1>7, <2>2 DEF InBudget
<1>8. ASSUME NEW s \in Submitter, StoreDenial(s) PROVE InBudget'
  BY <1>8, <1>6 DEF StoreDenial, calls, Step
<1>9. ASSUME NEW s \in Submitter, StoreApplication(s) PROVE InBudget'
  BY <1>9, <1>7 DEF StoreApplication, calls, Step
<1>10. ASSUME NEW s \in Submitter, StoreOperation(s) PROVE InBudget'
  BY <1>10, <1>7 DEF StoreOperation, calls, Step
<1>11. ASSUME NEW h \in Handler, Moves(h) PROVE InBudget'
  <2>1. CASE ReadTemplate(h)
    BY <2>1, <1>7 DEF ReadTemplate, calls, Step
  <2>2. CASE ReadManifest(h)
    BY <2>2, <1>7 DEF ReadManifest, calls, Step
  <2>3. CASE Abandon(h)
    BY <2>3, <1>6 DEF Abandon, calls, Step
  <2> QED BY <1>11, <2>1, <2>2, <2>3 DEF Moves
<1>12. ASSUME NEW v \in Reviewer, NEW a \in Application, NEW approved \in BOOLEAN,
              ReadApplication(v, a, approved)
       PROVE  InBudget'
  <2>1. GoTo(v, "manifest") /\ UNCHANGED <<built, submissions>> /\ reviews' = reviews + 1
    BY <1>12 DEF ReadApplication
  <2>2. v \in Handler /\ "manifest" \in Step /\ "manifest" \in BeforeResponse
    BY DEF Step
  <2> HIDE DEF BeforeResponse, Handler
  <2>3. Cardinality(Awaited) \in Nat /\ Cardinality(Awaited') \in Nat
        /\ Cardinality(Awaited') <= Cardinality(Awaited) + 1
    BY <1>0, <2>1, <2>2, AwaitedStep
  <2> QED BY <1>0, <2>1, <2>3 DEF InBudget
<1>13. ASSUME NEW h \in Handler, BuildResponse(h) PROVE InBudget'
  <2>1. GoTo(h, "status") /\ UNCHANGED calls /\ h \in Awaited
    BY <1>13 DEF BuildResponse, calls, Awaited
  <2>2. Len(built') = Len(built) + 1
    BY <1>0, <1>13, AppendProperties DEF BuildResponse, TypeOK, Decision
  <2>3. "status" \in Step /\ "status" \notin BeforeResponse
    BY DEF Step
  <2> HIDE DEF BeforeResponse, Handler
  <2>4. Cardinality(Awaited) \in Nat /\ Cardinality(Awaited') = Cardinality(Awaited) - 1
    BY <1>0, <2>1, <2>3, AwaitedStep
  <2> QED BY <1>0, <2>1, <2>2, <2>4 DEF InBudget
<1>14. ASSUME NEW h \in Handler, UpdateApplication(h) PROVE InBudget'
  BY <1>14, <1>6 DEF UpdateApplication, calls, Step
<1>15. ASSUME NEW h \in Handler, StoreResponse(h) PROVE InBudget'
  BY <1>15, <1>6 DEF StoreResponse, calls, Step
<1>16. ASSUME NEW h \in Handler, FinishReview(h) PROVE InBudget'
  BY <1>16, <1>6 DEF FinishReview, calls, Step
<1>17. UNCHANGED vars => UNCHANGED <<built, calls, pc>>
  BY DEF vars, calls
<1> HIDE DEF Handler
<1> QED BY <1>1, <1>2, <1>3, <1>4, <1>5, <1>8, <1>9, <1>10, <1>11, <1>12, <1>13, <1>14, <1>15,
           <1>16, <1>17, NextCases

------------------------------------------------------------------------------
\* What a response decides is fixed when it is built, and a credential that exists
\* stays: only a new response has to be looked at.
LEMMA BuiltStep ==
  ASSUME IInv, NEW h \in Handler, BuildResponse(h)
  PROVE  /\ Len(built') = Len(built) + 1
         /\ \A i \in 1..Len(built) : built'[i] = built[i]
         /\ task'[h] = built'[Len(built) + 1]
         /\ task'[h].response = Len(built) + 1
         /\ task'[h].application = task[h].application
         /\ task'[h].approved => Len(built) + 1 \in issued'
         /\ \A g \in Handler \ {h} : task'[g] = task[g]
         /\ issued \subseteq issued'
<1> DEFINE i == Len(built) + 1
           new == [task[h] EXCEPT !.response = i]
<1>0. TypeOK /\ task[h] \in Decision /\ built \in Seq(Decision) /\ i \in Nat
  BY LenProperties DEF IInv, TypeOK
<1>1. /\ built' = Append(built, new)
      /\ task' = [task EXCEPT ![h].response = i]
      /\ issued' = IF task[h].approved THEN issued \cup {i} ELSE issued
  BY DEF BuildResponse
<1>2. new \in Decision
  BY <1>0 DEF Decision
<1>3. /\ Len(built') = i /\ built'[i] = new
      /\ \A j \in 1..Len(built) : built'[j] = built[j]
  BY <1>0, <1>1, <1>2, AppendProperties
<1>4. task'[h] = new /\ \A g \in Handler \ {h} : task'[g] = task[g]
  BY <1>0, <1>1 DEF TypeOK
<1>5. new.application = task[h].application /\ new.approved = task[h].approved /\ new.response = i
  BY <1>0 DEF Decision
<1> HIDE DEF new, i
<1>6. task'[h].approved => i \in issued'
  BY <1>1, <1>4, <1>5
<1>7. issued \subseteq issued'
  BY <1>1
<1> QED BY <1>3, <1>4, <1>5, <1>6, <1>7 DEF i

LEMMA DecidedStep == IInv /\ [Next]_vars => Decided' /\ DoneIsBuilt' /\ DoneIsFulfilled'
<1> SUFFICES ASSUME IInv, [Next]_vars PROVE Decided' /\ DoneIsBuilt' /\ DoneIsFulfilled'
  OBVIOUS
<1>0. /\ TypeOK /\ Roles /\ Decided /\ DoneIsBuilt /\ DoneIsFulfilled
      /\ Len(built) \in Nat
  BY LenProperties DEF IInv, TypeOK
<1>1. CASE UNCHANGED <<built, issued, operations, pc, task>>
  BY <1>0, <1>1 DEF Decided, DoneIsBuilt, DoneIsFulfilled
<1>2. ASSUME NEW m \in Manifest,
             CreateManifest(m) \/ DeleteManifest(m) \/
             CreateIssuanceTemplate(m) \/ DeleteIssuanceTemplate(m)
      PROVE  UNCHANGED <<built, issued, operations, pc, task>>
  BY <1>2 DEF CreateManifest, DeleteManifest, CreateIssuanceTemplate,
              DeleteIssuanceTemplate, records
<1>3. ASSUME NEW a \in Application, DeleteApplication(a)
      PROVE  UNCHANGED <<built, issued, operations, pc, task>>
  BY <1>3 DEF DeleteApplication
<1>4. ASSUME NEW i \in ResponseId, DeleteResponse(i)
      PROVE  UNCHANGED <<built, issued, operations, pc, task>>
  BY <1>4 DEF DeleteResponse
\* A step that moves one handler to where it decides nothing new, and writes no
\* operation that is done with a response.
<1>5. ASSUME NEW h \in Handler, UNCHANGED <<built, issued>>,
             pc'[h] \in {"status", "response", "finish"} =>
               pc[h] \in {"status", "response", "finish"} /\ task'[h] = task[h],
             \A g \in Handler \ {h} : pc'[g] = pc[g] /\ task'[g] = task[g],
             \A a \in Application :
               operations'[a].state = "done" /\ operations'[a].response.kind = "response" =>
                 operations'[a] = operations[a]
      PROVE  Decided' /\ DoneIsBuilt' /\ DoneIsFulfilled'
  <2>1. Decided'
    BY <1>0, <1>5 DEF Decided
  <2>2. DoneIsBuilt' /\ DoneIsFulfilled'
    BY <1>0, <1>5 DEF DoneIsBuilt, DoneIsFulfilled
  <2> QED BY <2>1, <2>2
<1>6. ASSUME NEW s \in Submitter, NEW a \in Application, ProcessApplicationSubmission(s, a)
      PROVE  Decided' /\ DoneIsBuilt' /\ DoneIsFulfilled'
  <2>1. /\ s \in Handler /\ UNCHANGED <<built, issued, operations>>
        /\ pc'[s] \in Validation
        /\ \A g \in Handler \ {s} : pc'[g] = pc[g] /\ task'[g] = task[g]
    BY <1>0, <1>6, GoToType DEF ProcessApplicationSubmission, records, Validation, Step, Handler,
       TypeOK
  <2> QED BY <2>1, <1>5 DEF Validation
<1>7. ASSUME NEW s \in Submitter, StoreDenial(s)
      PROVE  Decided' /\ DoneIsBuilt' /\ DoneIsFulfilled'
  <2> DEFINE a == task[s].application
  <2>1. /\ s \in Handler /\ UNCHANGED <<built, issued, task>>
        /\ pc[s] = "denial" /\ pc'[s] = "idle" /\ \A g \in Handler \ {s} : pc'[g] = pc[g]
    BY <1>0, <1>7, GoToType DEF StoreDenial, calls, Step, Handler
  <2>2. a \in Application
    BY <2>1, TaskOf DEF Running
  <2>3. /\ operations'[a].response.kind = "denial"
        /\ \A b \in Application \ {a} : operations'[b] = operations[b]
    BY <1>0, <1>7, <2>2 DEF StoreDenial, Ops!StoreDoneOperation, Denial, TypeOK,
       Ops!OperationsTypeOK
  <2> QED BY <2>1, <2>3, <1>5
<1>8. ASSUME NEW s \in Submitter, StoreApplication(s)
      PROVE  Decided' /\ DoneIsBuilt' /\ DoneIsFulfilled'
  <2>1. /\ s \in Handler /\ UNCHANGED <<built, issued, task, operations>>
        /\ pc'[s] = "operation" /\ \A g \in Handler \ {s} : pc'[g] = pc[g]
    BY <1>0, <1>8, GoToType DEF StoreApplication, calls, Step, Handler
  <2> QED BY <2>1, <1>5
<1>9. ASSUME NEW s \in Submitter, StoreOperation(s)
      PROVE  Decided' /\ DoneIsBuilt' /\ DoneIsFulfilled'
  <2> DEFINE a == task[s].application
  <2>1. /\ s \in Handler /\ UNCHANGED <<built, issued, task>>
        /\ pc[s] = "operation" /\ pc'[s] = "template"
        /\ \A g \in Handler \ {s} : pc'[g] = pc[g]
    BY <1>0, <1>9, GoToType DEF StoreOperation, calls, Step, Handler
  <2>2. a \in Application
    BY <2>1, TaskOf DEF Running
  <2>3. /\ operations'[a].state = "running"
        /\ \A b \in Application \ {a} : operations'[b] = operations[b]
    BY <1>0, <1>9, <2>2 DEF StoreOperation, Ops!StoreOperation, TypeOK, Ops!OperationsTypeOK
  <2> QED BY <2>1, <2>3, <1>5
<1>10. ASSUME NEW h \in Handler, Moves(h)
       PROVE  Decided' /\ DoneIsBuilt' /\ DoneIsFulfilled'
  <2>1. /\ UNCHANGED <<built, issued, task, operations>>
        /\ pc'[h] \in {"idle", "failed", "credentials"}
        /\ \A g \in Handler \ {h} : pc'[g] = pc[g]
    BY <1>10, MoveStep DEF records
  <2> QED BY <2>1, <1>5
<1>11. ASSUME NEW v \in Reviewer, NEW a \in Application, NEW approved \in BOOLEAN,
              ReadApplication(v, a, approved)
       PROVE  Decided' /\ DoneIsBuilt' /\ DoneIsFulfilled'
  <2>1. /\ UNCHANGED <<built, issued, operations>>
        /\ pc'[v] = "manifest"
        /\ \A g \in Handler \ {v} : pc'[g] = pc[g] /\ task'[g] = task[g]
    BY <1>0, <1>11, GoToType DEF ReadApplication, Task, records, Step, Handler, TypeOK
  <2>2. Decided'
    BY <1>0, <2>1 DEF Decided
  <2>3. DoneIsBuilt' /\ DoneIsFulfilled'
    BY <1>0, <2>1 DEF DoneIsBuilt, DoneIsFulfilled
  <2> QED BY <2>2, <2>3
<1>12. ASSUME NEW h \in Handler, BuildResponse(h)
       PROVE  Decided' /\ DoneIsBuilt' /\ DoneIsFulfilled'
  <2>1. /\ UNCHANGED operations
        /\ pc'[h] = "status" /\ \A g \in Handler \ {h} : pc'[g] = pc[g]
    BY <1>0, <1>12, GoToType DEF BuildResponse, Step
  <2>2. Decided'
    BY <1>0, <1>12, <2>1, BuiltStep DEF Decided
  <2>3. DoneIsBuilt' /\ DoneIsFulfilled'
    BY <1>0, <1>12, <2>1, BuiltStep DEF DoneIsBuilt, DoneIsFulfilled
  <2> QED BY <2>2, <2>3
<1>13. ASSUME NEW h \in Handler, UpdateApplication(h) \/ StoreResponse(h)
       PROVE  Decided' /\ DoneIsBuilt' /\ DoneIsFulfilled'
  <2>1. /\ UNCHANGED <<built, issued, task, operations>>
        /\ pc[h] \in {"status", "response"} /\ \A g \in Handler \ {h} : pc'[g] = pc[g]
    BY <1>0, <1>13, GoToType DEF UpdateApplication, StoreResponse, calls, Step
  <2> QED BY <2>1, <1>5
<1>14. ASSUME NEW h \in Handler, FinishReview(h)
       PROVE  Decided' /\ DoneIsBuilt' /\ DoneIsFulfilled'
  <2> DEFINE a == task[h].application
             i == task[h].response
  <2>1. /\ UNCHANGED <<built, issued, task>>
        /\ pc[h] = "finish" /\ \A g \in Handler \ {h} : pc'[g] = pc[g]
    BY <1>0, <1>14, GoToType DEF FinishReview, calls, Step
  <2>2. CASE UNCHANGED operations
    BY <2>1, <2>2, <1>5
  <2>3. CASE Ops!FinishOperation(a, Responded(i))
    <3>1. /\ operations'[a].response = [kind |-> "response", response |-> i]
          /\ \A b \in Application \ {a} : operations'[b] = operations[b]
      BY <1>0, <2>1, <2>3 DEF Ops!FinishOperation, Responded, TypeOK, Ops!OperationsTypeOK,
         Roles, Running, Handler
    <3>2. i \in 1..Len(built) /\ built[i].application = a /\ (built[i].approved => i \in issued)
      BY <1>0, <2>1 DEF Decided
    <3>3. Decided'
      BY <1>0, <2>1 DEF Decided
    <3> HIDE DEF a, i
    <3>4. DoneIsBuilt' /\ DoneIsFulfilled'
      BY <1>0, <2>1, <3>1, <3>2 DEF DoneIsBuilt, DoneIsFulfilled
    <3> QED BY <3>3, <3>4
  <2> QED BY <1>14, <2>2, <2>3 DEF FinishReview
<1>15. ASSUME NEW a \in Application, CancelOperation(a)
       PROVE  Decided' /\ DoneIsBuilt' /\ DoneIsFulfilled'
  <2>1. UNCHANGED <<built, issued, task, pc>>
    BY <1>15 DEF CancelOperation
  <2>2. /\ operations'[a].response.kind = "cancelled"
        /\ \A b \in Application \ {a} : operations'[b] = operations[b]
    BY <1>0, <1>15 DEF CancelOperation, Ops!FinishOperation, Cancelled, TypeOK,
       Ops!OperationsTypeOK
  <2>3. Decided'
    BY <1>0, <2>1 DEF Decided
  <2>4. DoneIsBuilt' /\ DoneIsFulfilled'
    BY <1>0, <2>1, <2>2 DEF DoneIsBuilt, DoneIsFulfilled
  <2> QED BY <2>3, <2>4
<1>16. UNCHANGED vars => UNCHANGED <<built, issued, operations, pc, task>>
  BY DEF vars, records
<1> QED BY <1>1, <1>2, <1>3, <1>4, <1>6, <1>7, <1>8, <1>9, <1>10, <1>11, <1>12, <1>13, <1>14,
           <1>15, <1>16, NextCases

------------------------------------------------------------------------------
\* A pending status is written before anyone decides, every other write decides.
LEMMA StatusStep == IInv /\ [Next]_vars => WrittenFirst' /\ DoneNotPending'
<1> SUFFICES ASSUME IInv, [Next]_vars PROVE WrittenFirst' /\ DoneNotPending'
  OBVIOUS
<1>0. TypeOK /\ Roles /\ UnwrittenIsEmpty /\ WrittenFirst /\ DoneNotPending
  BY DEF IInv
<1> USE HandlersAssumption DEF Handler
<1>1. CASE UNCHANGED <<applications, operations, pc, task, rewritten>>
  BY <1>0, <1>1 DEF WrittenFirst, DoneNotPending
<1>2. ASSUME NEW m \in Manifest,
             CreateManifest(m) \/ DeleteManifest(m) \/
             CreateIssuanceTemplate(m) \/ DeleteIssuanceTemplate(m)
      PROVE  UNCHANGED <<applications, operations, pc, task, rewritten>>
  BY <1>2 DEF CreateManifest, DeleteManifest, CreateIssuanceTemplate,
              DeleteIssuanceTemplate, records, history
<1>3. ASSUME NEW a \in Application, DeleteApplication(a)
      PROVE  WrittenFirst' /\ DoneNotPending'
  <2>1. /\ UNCHANGED <<operations, pc, task, rewritten>>
        /\ applications' = [applications EXCEPT ![a] = 0]
    BY <1>3 DEF DeleteApplication, history
  <2> QED BY <1>0, <2>1 DEF WrittenFirst, DoneNotPending, TypeOK, StatusPending, Roles, Running
<1>4. ASSUME NEW i \in ResponseId, DeleteResponse(i)
      PROVE  UNCHANGED <<applications, operations, pc, task, rewritten>>
  BY <1>4 DEF DeleteResponse, history
\* A step that writes no status, finishes no operation and moves one handler, but
\* not past the write of its status.
<1>5. ASSUME NEW h \in Handler, UNCHANGED applications, rewritten \subseteq rewritten',
             \A a \in Application :
               operations'[a].state = "done" => operations'[a] = operations[a],
             \A g \in Handler \ {h} : pc'[g] = pc[g] /\ task'[g] = task[g],
             pc'[h] \in {"response", "finish"} =>
               pc[h] \in {"response", "finish"} /\ task'[h] = task[h]
      PROVE  WrittenFirst' /\ DoneNotPending'
  BY <1>0, <1>5 DEF WrittenFirst, DoneNotPending
<1>6. ASSUME NEW s \in Submitter, NEW a \in Application, ProcessApplicationSubmission(s, a)
      PROVE  WrittenFirst' /\ DoneNotPending'
  <2>1. /\ UNCHANGED <<applications, operations, rewritten>>
        /\ pc'[s] \in Validation
        /\ \A g \in Handler \ {s} : pc'[g] = pc[g] /\ task'[g] = task[g]
    BY <1>0, <1>6, GoToType DEF ProcessApplicationSubmission, records, history, Validation, Step,
       TypeOK
  <2> QED BY <2>1, <1>5 DEF Validation
<1>7. ASSUME NEW s \in Submitter, StoreDenial(s)
      PROVE  WrittenFirst' /\ DoneNotPending'
  <2> DEFINE a == task[s].application
  <2>1. /\ UNCHANGED <<applications, task>>
        /\ pc[s] = "denial" /\ pc'[s] = "idle"
        /\ \A g \in Handler \ {s} : pc'[g] = pc[g]
        /\ \A b \in Application \ {a} : operations'[b] = operations[b]
    BY <1>0, <1>7, GoToType DEF StoreDenial, calls, Step, Ops!StoreDoneOperation, TypeOK,
       Ops!OperationsTypeOK
  <2>2. a \in Application
    BY <2>1, TaskOf DEF Running
  <2>3. rewritten \subseteq rewritten' /\ (a \notin rewritten' => a \notin written)
    BY <1>0, <1>7, <2>2, WritesStep DEF StoreDenial
  <2>4. a \notin rewritten' => applications[a] = 0
    BY <1>0, <2>2, <2>3 DEF UnwrittenIsEmpty
  <2>5. WrittenFirst'
    BY <1>0, <2>1, <2>3 DEF WrittenFirst
  <2>6. DoneNotPending'
    BY <1>0, <2>1, <2>3, <2>4 DEF DoneNotPending, StatusPending
  <2> QED BY <2>5, <2>6
<1>8. ASSUME NEW s \in Submitter, StoreApplication(s)
      PROVE  WrittenFirst' /\ DoneNotPending'
  <2> DEFINE a == task[s].application
  <2>1. /\ UNCHANGED <<operations, task>>
        /\ pc[s] = "application" /\ pc'[s] = "operation"
        /\ \A g \in Handler \ {s} : pc'[g] = pc[g]
        /\ \A b \in Application \ {a} : applications'[b] = applications[b]
    BY <1>0, <1>8, GoToType DEF StoreApplication, calls, Step, TypeOK
  <2>2. a \in Application
    BY <2>1, TaskOf DEF Running
  <2>3. rewritten \subseteq rewritten' /\ (a \notin rewritten' => a \notin written)
    BY <1>0, <1>8, <2>2, WritesStep DEF StoreApplication
  <2>4. a \notin rewritten' => operations[a].state = "absent"
    BY <1>0, <2>2, <2>3 DEF UnwrittenIsEmpty
  <2>5. \A h \in Handler : pc[h] \in {"response", "finish"} =>
          /\ task[h].application \in Application
          /\ a \notin rewritten' => task[h].application # a
    BY <1>0, <2>2, <2>3 DEF UnwrittenIsEmpty, Roles, Running
  <2>6. WrittenFirst'
    BY <1>0, <2>1, <2>3, <2>5 DEF WrittenFirst
  <2>7. DoneNotPending'
    BY <1>0, <2>1, <2>3, <2>4 DEF DoneNotPending
  <2> QED BY <2>6, <2>7
<1>9. ASSUME NEW s \in Submitter, StoreOperation(s)
      PROVE  WrittenFirst' /\ DoneNotPending'
  <2> DEFINE a == task[s].application
  <2>1. /\ UNCHANGED <<applications, rewritten, task>>
        /\ pc[s] = "operation" /\ pc'[s] = "template"
        /\ \A g \in Handler \ {s} : pc'[g] = pc[g]
    BY <1>0, <1>9, GoToType DEF StoreOperation, calls, history, Step
  <2>2. a \in Application
    BY <2>1, TaskOf DEF Running
  <2>3. /\ operations'[a].state = "running"
        /\ \A b \in Application \ {a} : operations'[b] = operations[b]
    BY <1>0, <1>9, <2>2 DEF StoreOperation, Ops!StoreOperation, TypeOK, Ops!OperationsTypeOK
  <2> QED BY <2>1, <2>3, <1>5
<1>10. ASSUME NEW h \in Handler, Moves(h) PROVE WrittenFirst' /\ DoneNotPending'
  <2>1. /\ UNCHANGED <<applications, operations, rewritten, task>>
        /\ pc'[h] \in {"idle", "failed", "credentials"}
        /\ \A g \in Handler \ {h} : pc'[g] = pc[g]
    BY <1>10, MoveStep DEF records, history
  <2> QED BY <2>1, <1>5
<1>11. ASSUME NEW v \in Reviewer, NEW a \in Application, NEW approved \in BOOLEAN,
              ReadApplication(v, a, approved)
       PROVE  WrittenFirst' /\ DoneNotPending'
  <2>1. /\ UNCHANGED <<applications, operations, rewritten>>
        /\ pc'[v] = "manifest"
        /\ \A g \in Handler \ {v} : pc'[g] = pc[g] /\ task'[g] = task[g]
    BY <1>0, <1>11, GoToType DEF ReadApplication, Task, history, records, Step, TypeOK
  <2> QED BY <2>1, <1>5
<1>12. ASSUME NEW h \in Handler, BuildResponse(h) PROVE WrittenFirst' /\ DoneNotPending'
  <2>1. UNCHANGED <<applications, operations, rewritten>>
    BY <1>12 DEF BuildResponse, history
  <2>2. /\ pc'[h] = "status"
        /\ \A g \in Handler \ {h} : pc'[g] = pc[g] /\ task'[g] = task[g]
    BY <1>0, <1>12, GoToType, BuiltStep DEF BuildResponse, Step
  <2> QED BY <2>1, <2>2, <1>5
<1>13. ASSUME NEW h \in Handler, UpdateApplication(h)
       PROVE  WrittenFirst' /\ DoneNotPending'
  <2> DEFINE a == task[h].application
  <2>1. /\ UNCHANGED <<operations, rewritten, task>>
        /\ pc[h] = "status" /\ \A g \in Handler \ {h} : pc'[g] = pc[g]
    BY <1>0, <1>13, GoToType DEF UpdateApplication, calls, history, Step
  <2>2. CASE applications[a] = 0
    <3>1. pc'[h] = "failed" /\ UNCHANGED applications
      BY <1>0, <1>13, <2>2, GoToType DEF UpdateApplication, Step
    <3> QED BY <2>1, <3>1, <1>5
  <2>3. CASE applications[a] # 0
    <3>1. a \in Application
      BY <1>0, <2>1 DEF Roles, Running
    <3>2. /\ applications'[a] # StatusPending
          /\ \A b \in Application \ {a} : applications'[b] = applications[b]
      BY <1>0, <1>13, <2>3, <3>1 DEF UpdateApplication, TypeOK, StatusApproved, StatusDenied,
         StatusPending
    <3>3. \A g \in Handler : Running(g) => task[g].application \in Application
      BY <1>0 DEF Roles
    <3>4. WrittenFirst'
      BY <1>0, <2>1, <3>2, <3>3 DEF WrittenFirst, Running
    <3>5. DoneNotPending'
      BY <1>0, <2>1, <3>2 DEF DoneNotPending
    <3> QED BY <3>4, <3>5
  <2> QED BY <2>2, <2>3
<1>14. ASSUME NEW h \in Handler, StoreResponse(h) PROVE WrittenFirst' /\ DoneNotPending'
  <2>1. /\ UNCHANGED <<applications, operations, rewritten, task>>
        /\ pc[h] = "response" /\ \A g \in Handler \ {h} : pc'[g] = pc[g]
    BY <1>0, <1>14, GoToType DEF StoreResponse, calls, history, Step
  <2> QED BY <2>1, <1>5
<1>15. ASSUME NEW h \in Handler, FinishReview(h) PROVE WrittenFirst' /\ DoneNotPending'
  <2> DEFINE a == task[h].application
  <2>1. /\ UNCHANGED <<applications, rewritten, task>>
        /\ pc[h] = "finish" /\ \A g \in Handler \ {h} : pc'[g] = pc[g]
    BY <1>0, <1>15, GoToType DEF FinishReview, calls, history, Step
  <2>2. a \notin rewritten => applications[a] # StatusPending
    BY <1>0, <2>1 DEF WrittenFirst
  <2>3. \A b \in Application \ {a} : operations'[b] = operations[b]
    BY <1>0, <1>15 DEF FinishReview, Ops!FinishOperation, TypeOK, Ops!OperationsTypeOK
  <2> QED BY <1>0, <2>1, <2>2, <2>3 DEF WrittenFirst, DoneNotPending
<1>16. ASSUME NEW a \in Application, CancelOperation(a)
       PROVE  WrittenFirst' /\ DoneNotPending'
  <2>1. /\ UNCHANGED <<pc, rewritten, task>>
        /\ applications'[a] = StatusCancelled
        /\ \A b \in Application \ {a} :
             applications'[b] = applications[b] /\ operations'[b] = operations[b]
    BY <1>0, <1>16 DEF CancelOperation, history, Ops!FinishOperation, TypeOK, Ops!OperationsTypeOK
  <2>2. \A g \in Handler : Running(g) => task[g].application \in Application
    BY <1>0 DEF Roles
  <2> QED BY <1>0, <2>1, <2>2 DEF WrittenFirst, DoneNotPending, StatusCancelled, StatusPending,
          Running
<1>17. UNCHANGED vars => UNCHANGED <<applications, operations, pc, task, rewritten>>
  BY DEF vars, records, history
<1> HIDE DEF Handler
<1> QED BY <1>1, <1>2, <1>3, <1>4, <1>6, <1>7, <1>8, <1>9, <1>10, <1>11, <1>12, <1>13, <1>14,
           <1>15, <1>16, <1>17, NextCases

LEMMA InvStep == IInv /\ [Next]_vars => IInv'
BY TypeStep, UnwrittenStep, BudgetStep, DecidedStep, StatusStep DEF IInv

\* The invariant of the review of applications: the order in which its three
\* transactions and the submission's own steps are taken
\* (core/service/manifest/service.go:274,348,397, storage/storage.go:240).
THEOREM ReviewInvariant == Spec => []IInv
BY InitInv, InvStep, PTL DEF Spec

\* No application reads as pending once its operation is done, however many reviews,
\* template issuances and cancellations race (core/service/manifest/storage/storage.go:240).
THEOREM ReviewDoneNotPending == Spec => []DoneNotPending
<1>1. IInv => DoneNotPending
  BY DEF IInv
<1> QED BY <1>1, ReviewInvariant, PTL

\* The response an operation is done with is the application's own, with its
\* credentials (core/service/manifest/response.go:137, storage/storage.go:253).
THEOREM ReviewDoneIsFulfilled == Spec => []DoneIsFulfilled
<1>1. IInv => DoneIsFulfilled
  BY DEF IInv
<1> QED BY <1>1, ReviewInvariant, PTL

------------------------------------------------------------------------------
\* What polling sees: a record that is written changes what is seen of it alone.
PolledAs == [a \in Application |-> Ops!Polled(a)]

LEMMA PolledUpdate ==
  ASSUME Ops!OperationsTypeOK, NEW a \in Application, NEW new,
         operations' = [operations EXCEPT ![a] = new]
  PROVE  PolledAs' = [PolledAs EXCEPT ![a] = Ops!Polled(a)']
BY DEF Ops!OperationsTypeOK, PolledAs, Ops!Polled

\* The submissions that have still to write an operation, and what a step of one
\* handler does to them.
Waiting == {"denial", "application", "operation"}
FiledAs == [a \in Application |-> Filed(a)]

OnlyMoves(h) == \A g \in Handler \ {h} : pc'[g] = pc[g] /\ task'[g] = task[g]

LEMMA FiledKept ==
  ASSUME NEW h \in Handler, OnlyMoves(h),
         \/ h \notin Submitter
         \/ pc[h] \notin Waiting /\ pc'[h] \notin Waiting
         \/ pc[h] \in Waiting /\ pc'[h] \in Waiting /\ task'[h] = task[h]
  PROVE  UNCHANGED FiledAs
<1>1. ASSUME NEW a \in Application PROVE Filed(a)' = Filed(a)
  BY DEF OnlyMoves, Filed, Waiting, Handler
<1> QED BY <1>1 DEF FiledAs

LEMMA FiledLeft ==
  ASSUME NEW s \in Submitter, NEW a \in Application, OnlyMoves(s),
         pc[s] \in Waiting, pc'[s] \notin Waiting, task[s].application = a
  PROVE  s \in FiledAs[a] /\ FiledAs' = [FiledAs EXCEPT ![a] = @ \ {s}]
<1>1. s \in Filed(a) /\ Filed(a)' = Filed(a) \ {s}
  BY DEF OnlyMoves, Filed, Waiting, Handler
<1>2. ASSUME NEW b \in Application \ {a} PROVE Filed(b)' = Filed(b)
  BY <1>2 DEF OnlyMoves, Filed, Waiting, Handler
<1> QED BY <1>1, <1>2 DEF FiledAs

LEMMA FiledNew ==
  ASSUME NEW s \in Submitter, NEW a \in Application, OnlyMoves(s),
         pc[s] \notin Waiting, pc'[s] \in Waiting, task'[s].application = a
  PROVE  /\ \A b \in Application : s \notin FiledAs[b]
         /\ FiledAs' = [FiledAs EXCEPT ![a] = @ \cup {s}]
<1>1. \A b \in Application : s \notin Filed(b)
  BY DEF Filed, Waiting
<1>2. Filed(a)' = Filed(a) \cup {s}
  BY DEF OnlyMoves, Filed, Waiting, Handler
<1>3. ASSUME NEW b \in Application \ {a} PROVE Filed(b)' = Filed(b)
  BY <1>3 DEF OnlyMoves, Filed, Waiting, Handler
<1> QED BY <1>1, <1>2, <1>3 DEF FiledAs

\* Settling an open operation is a step of the docket, without a filing.
LEMMA SettleStep ==
  ASSUME TypeOK, NEW a \in Application, NEW result \in Result,
         operations[a].state = "running", UNCHANGED FiledAs,
         operations' = [operations EXCEPT ![a] = [state |-> "done", response |-> result]]
  PROVE  Promise!DocketNext
<1>1. operations'[a] = [state |-> "done", response |-> result]
  BY DEF TypeOK, Ops!OperationsTypeOK
<1>2. Ops!Polled(a) = <<"undecided">> /\ Ops!Polled(a)' = <<"settled", result>>
  BY <1>1 DEF Ops!Polled
<1>3. PolledAs' = [PolledAs EXCEPT ![a] = <<"settled", result>>] /\ PolledAs[a] = <<"undecided">>
  BY <1>2, PolledUpdate DEF PolledAs, TypeOK
<1>4. Promise!Settle(a, result)
  BY <1>3 DEF Promise!Settle, Promise!Undecided, Promise!Settled, PolledAs, FiledAs
<1> QED BY <1>4 DEF Promise!DocketNext

LEMMA PromiseInit == Init => Promise!DocketInit
<1> SUFFICES ASSUME Init PROVE /\ PolledAs = [a \in Application |-> <<"unknown">>]
                               /\ FiledAs = [a \in Application |-> {}]
  BY DEF Promise!DocketInit, Promise!Unknown, PolledAs, FiledAs
<1>1. \A a \in Application : Ops!Polled(a) = <<"unknown">>
  BY DEF Init, Ops!OperationsInit, Ops!NoOperation, Ops!Polled
<1>2. \A a \in Application : Filed(a) = {}
  BY DEF Init, Filed, Handler
<1> QED BY <1>1, <1>2 DEF PolledAs, FiledAs

\* What the docket sees of each step.
LEMMA DocketStep ==
  ASSUME IInv, [Next]_vars
  PROVE  Promise!DocketNext \/ UNCHANGED <<PolledAs, FiledAs>>
<1> DEFINE Goal == Promise!DocketNext \/ UNCHANGED <<PolledAs, FiledAs>>
<1> SUFFICES Goal
  OBVIOUS
<1> HIDE DEF Goal
<1>0. TypeOK /\ Roles
  BY DEF IInv
<1>a. UNCHANGED operations => UNCHANGED PolledAs
  BY DEF PolledAs, Ops!Polled
<1>b. UNCHANGED <<pc, task>> => UNCHANGED FiledAs
  BY DEF FiledAs, Filed
<1>1. CASE UNCHANGED <<operations, pc, task>>
  BY <1>1, <1>a, <1>b DEF Goal
<1>2. ASSUME NEW m \in Manifest,
             CreateManifest(m) \/ DeleteManifest(m) \/
             CreateIssuanceTemplate(m) \/ DeleteIssuanceTemplate(m)
      PROVE  UNCHANGED <<operations, pc, task>>
  BY <1>2 DEF CreateManifest, DeleteManifest, CreateIssuanceTemplate,
              DeleteIssuanceTemplate, records
<1>3. ASSUME NEW a \in Application, DeleteApplication(a)
      PROVE  UNCHANGED <<operations, pc, task>>
  BY <1>3 DEF DeleteApplication
<1>4. ASSUME NEW i \in ResponseId, DeleteResponse(i)
      PROVE  UNCHANGED <<operations, pc, task>>
  BY <1>4 DEF DeleteResponse
<1>5. ASSUME NEW s \in Submitter, NEW a \in Application, ProcessApplicationSubmission(s, a)
      PROVE  Goal
  <2>1. /\ UNCHANGED operations /\ pc[s] \in {"idle", "failed"}
        /\ pc'[s] \in Validation /\ task'[s].application = a /\ s \in Handler
        /\ OnlyMoves(s)
    BY <1>0, <1>5, GoToType DEF ProcessApplicationSubmission, records, Validation, Step, Handler,
       Task, TypeOK, Running, OnlyMoves
  <2>2. CASE pc'[s] = "failed"
    BY <1>a, <2>1, <2>2, FiledKept DEF Goal, Waiting
  <2>3. CASE pc'[s] \in {"denial", "application"}
    <3>1. /\ \A b \in Application : s \notin FiledAs[b]
          /\ FiledAs' = [FiledAs EXCEPT ![a] = @ \cup {s}]
      BY <2>1, <2>3, FiledNew DEF Waiting
    <3>2. Promise!File(a, s)
      BY <1>a, <2>1, <3>1 DEF Promise!File, PolledAs, FiledAs
    <3> QED BY <3>2 DEF Goal, Promise!DocketNext
  <2> QED BY <2>1, <2>2, <2>3 DEF Validation
\* A submission that writes an operation takes itself off the docket.
<1>6. ASSUME NEW s \in Submitter, StoreDenial(s) \/ StoreOperation(s) PROVE Goal
  <2>1. /\ UNCHANGED task /\ s \in Handler
        /\ pc[s] \in {"denial", "operation"} /\ pc'[s] \in {"idle", "template"}
        /\ \A g \in Handler \ {s} : pc'[g] = pc[g]
    BY <1>0, <1>6, GoToType DEF StoreDenial, StoreOperation, calls, Step, Handler
  <2>2. PICK a \in Application : task[s].application = a
    BY <2>1, TaskOf DEF Running
  <2>3. s \in FiledAs[a] /\ FiledAs' = [FiledAs EXCEPT ![a] = @ \ {s}]
    BY <2>1, <2>2, FiledLeft DEF OnlyMoves, Waiting
  <2>4. Promise!UseUp(a, s)
    BY <2>3 DEF Promise!UseUp, FiledAs
  <2>5. CASE StoreDenial(s)
    <3>1. operations'[a] = [state |-> "done", response |-> Denial]
      BY <1>0, <2>2, <2>5 DEF StoreDenial, Ops!StoreDoneOperation, TypeOK, Ops!OperationsTypeOK
    <3>2. Ops!Polled(a)' = <<"settled", Denial>>
      BY <3>1 DEF Ops!Polled
    <3>3. PolledAs' = [PolledAs EXCEPT ![a] = <<"settled", Denial>>]
      BY <1>0, <2>2, <2>5, <3>2, PolledUpdate DEF StoreDenial, Ops!StoreDoneOperation, TypeOK
    <3>4. Promise!Refuse(a, s)
      BY <2>4, <3>3 DEF Promise!Refuse, Promise!Settled, PolledAs
    <3> QED BY <2>2, <3>4 DEF Goal, Promise!DocketNext
  <2>6. CASE StoreOperation(s)
    <3>1. operations'[a].state = "running"
      BY <1>0, <2>2, <2>6 DEF StoreOperation, Ops!StoreOperation, TypeOK, Ops!OperationsTypeOK
    <3>2. Ops!Polled(a)' = <<"undecided">>
      BY <3>1 DEF Ops!Polled
    <3>3. PolledAs' = [PolledAs EXCEPT ![a] = <<"undecided">>]
      BY <1>0, <2>2, <2>6, <3>2, PolledUpdate DEF StoreOperation, Ops!StoreOperation, TypeOK
    <3>4. Promise!Open(a, s)
      BY <2>4, <3>3 DEF Promise!Open, Promise!Undecided, PolledAs
    <3> QED BY <2>2, <3>4 DEF Goal, Promise!DocketNext
  <2> QED BY <1>6, <2>5, <2>6
<1>7. ASSUME NEW s \in Submitter, StoreApplication(s) PROVE Goal
  <2>1. /\ UNCHANGED <<operations, task>> /\ s \in Handler
        /\ pc[s] = "application" /\ pc'[s] = "operation"
        /\ \A g \in Handler \ {s} : pc'[g] = pc[g]
    BY <1>0, <1>7, GoToType DEF StoreApplication, calls, Step, Handler
  <2> QED BY <1>a, <2>1, FiledKept DEF Goal, OnlyMoves, Waiting
<1>8. ASSUME NEW h \in Handler, Moves(h) PROVE Goal
  <2>1. /\ UNCHANGED <<operations, task>> /\ Running(h)
        /\ pc'[h] \in {"idle", "failed", "credentials"}
        /\ \A g \in Handler \ {h} : pc'[g] = pc[g]
    BY <1>8, MoveStep DEF records
  <2>2. CASE h \in Submitter /\ pc[h] \in Waiting
    <3>1. PICK a \in Application : task[h].application = a
      BY <2>1, TaskOf
    <3>2. h \in FiledAs[a] /\ FiledAs' = [FiledAs EXCEPT ![a] = @ \ {h}]
      BY <2>1, <2>2, <3>1, FiledLeft DEF OnlyMoves, Waiting
    <3>3. Promise!Withdraw(a, h)
      BY <1>a, <2>1, <3>2 DEF Promise!Withdraw, Promise!UseUp, PolledAs, FiledAs
    <3> QED BY <2>2, <3>1, <3>3 DEF Goal, Promise!DocketNext
  <2>3. CASE ~(h \in Submitter /\ pc[h] \in Waiting)
    BY <1>a, <2>1, <2>3, FiledKept DEF Goal, OnlyMoves, Waiting
  <2> QED BY <2>2, <2>3
<1>9. ASSUME NEW v \in Reviewer, NEW a \in Application, NEW approved \in BOOLEAN,
              ReadApplication(v, a, approved)
      PROVE  Goal
  <2>1. UNCHANGED operations /\ v \in Handler /\ v \notin Submitter /\ OnlyMoves(v)
    BY <1>0, <1>9, GoToType, HandlersAssumption
       DEF ReadApplication, records, Step, Handler, TypeOK, OnlyMoves
  <2> QED BY <1>a, <2>1, FiledKept DEF Goal
<1>10. ASSUME NEW h \in Handler, BuildResponse(h) PROVE Goal
  <2>1. UNCHANGED operations /\ pc[h] = "credentials" /\ pc'[h] = "status" /\ OnlyMoves(h)
    BY <1>0, <1>10, GoToType, BuiltStep DEF BuildResponse, Step, OnlyMoves
  <2> QED BY <1>a, <2>1, FiledKept DEF Goal, Waiting
<1>11. ASSUME NEW h \in Handler, UpdateApplication(h) \/ StoreResponse(h) PROVE Goal
  <2>1. /\ UNCHANGED <<operations, task>> /\ pc[h] \in {"status", "response"}
        /\ pc'[h] \in {"failed", "response", "finish"}
        /\ \A g \in Handler \ {h} : pc'[g] = pc[g]
    BY <1>0, <1>11, GoToType DEF UpdateApplication, StoreResponse, calls, Step
  <2> QED BY <1>a, <2>1, FiledKept DEF Goal, OnlyMoves, Waiting
<1>12. ASSUME NEW h \in Handler, FinishReview(h) PROVE Goal
  <2> DEFINE a == task[h].application
             result == Responded(task[h].response)
  <2>1. /\ UNCHANGED task /\ pc[h] = "finish" /\ pc'[h] \in {"idle", "failed"}
        /\ \A g \in Handler \ {h} : pc'[g] = pc[g]
    BY <1>0, <1>12, GoToType DEF FinishReview, calls, Step
  <2>2. UNCHANGED FiledAs
    BY <2>1, FiledKept DEF OnlyMoves, Waiting
  <2>3. CASE UNCHANGED operations
    BY <1>a, <2>2, <2>3 DEF Goal
  <2>4. CASE Ops!FinishOperation(a, result)
    <3>1. a \in Application
      BY <2>1, TaskOf DEF Running
    <3>2. result \in Result
      BY <2>1, ResponsesFit, LenProperties, SetsAreFinite, DoneIsOperation
         DEF IInv, Decided, TypeOK
    <3> HIDE DEF a, result
    <3> QED BY <1>0, <2>2, <2>4, <3>1, <3>2, SettleStep DEF Goal, Ops!FinishOperation, Ops!Unfinished
  <2> QED BY <1>12, <2>3, <2>4 DEF FinishReview
<1>13. ASSUME NEW a \in Application, CancelOperation(a) PROVE Goal
  <2>1. UNCHANGED <<pc, task>> /\ Ops!FinishOperation(a, Cancelled)
    BY <1>13 DEF CancelOperation
  <2> QED BY <1>0, <1>b, <2>1, DoneIsOperation, SettleStep
          DEF Goal, Ops!FinishOperation, Ops!Unfinished
<1>14. UNCHANGED vars => UNCHANGED <<operations, pc, task>>
  BY DEF vars, records
<1> QED BY <1>1, <1>2, <1>3, <1>4, <1>5, <1>6, <1>7, <1>8, <1>9, <1>10, <1>11, <1>12, <1>13,
           <1>14, NextCases

\* Whoever polls the operation of an application sees it settled once for each of
\* its submissions, and only a submission opens or refuses what was settled
\* (core/service/operation/storage.go:29, manifest/service.go:274,330,
\* manifest/storage/storage.go:240).
THEOREM ReviewImplementsDocket == Spec => ImplementsDocket
<1>1. Init => Promise!DocketInit
  BY PromiseInit
<1>2. IInv /\ [Next]_vars => [Promise!DocketNext]_<<PolledAs, FiledAs>>
  BY DocketStep
<1> QED BY <1>1, <1>2, ReviewInvariant, PTL
        DEF Spec, ImplementsDocket, Promise!DocketSpec, Promise!docketVars, PolledAs, FiledAs

------------------------------------------------------------------------------
\* The routes take the service's steps, or none.
LEMMA ApiStep == [ApiNext]_<<vars, apiVars>> => [Next]_vars
<1>1. CASE ManifestRoutes \/ IssuanceRoutes \/ DeleteRoutes
  BY <1>1 DEF ManifestRoutes, IssuanceRoutes, DeleteRoutes, Next
<1>2. ASSUME NEW q \in RequestId, CreateRequest(q) \/ DeleteRequest(q)
      PROVE  UNCHANGED vars
  BY <1>2 DEF CreateRequest, ReadForRequest, StoreRequest, DeleteRequest
<1>3. ASSUME NEW a \in Application, CancelRoute(a) \/ GetOperation(a) PROVE [Next]_vars
  BY <1>3 DEF CancelRoute, GetOperation, Next
<1>4. ASSUME NEW s \in Submitter, SubmitApplication(s) PROVE Next
  BY <1>4 DEF SubmitApplication, Answered, Next, Handler
<1>5. ASSUME NEW v \in Reviewer, ReviewApplicationRoute(v) PROVE Next
  BY <1>5 DEF ReviewApplicationRoute, Answered, Next, Handler
<1>6. CASE \E h \in Handler : Abandon(h)
  BY <1>6 DEF Next
<1>7. CASE UNCHANGED <<vars, apiVars>>
  BY <1>7
<1> QED BY <1>1, <1>2, <1>3, <1>4, <1>5, <1>6, <1>7 DEF ApiNext

\* Every behaviour of the routes is one of the service: the routers write nothing
\* of their own about an application (core/server/router/manifest.go).
THEOREM ApiImplementsReview == ApiSpec => Spec
<1>1. ApiInit => Init
  BY DEF ApiInit
<1> QED BY <1>1, ApiStep, PTL DEF ApiSpec, Spec

\* So what is proved of the service holds behind the routes, whatever is asked for.
THEOREM ApiReviewSafe ==
  ApiSpec => [](DoneNotPending /\ DoneIsFulfilled) /\ ImplementsDocket
BY ApiImplementsReview, ReviewDoneNotPending, ReviewDoneIsFulfilled, ReviewImplementsDocket, PTL

ToldInv ==
  /\ told \in [Application -> Result \cup {NotTold}]
  /\ reopened \in SUBSET Application
  /\ ToldAsDone

\* What a step does to an operation of which a client was told: it keeps what is
\* done, or it is a submission's.
Rewrites(a) ==
  \E s \in Submitter : task[s].application = a /\ (StoreDenial(s) \/ StoreOperation(s))

LEMMA DoneStays ==
  ASSUME IInv, [Next]_vars, NEW a \in Application, operations[a].state = "done"
  PROVE  operations'[a] = operations[a] \/ Rewrites(a)
<1>0. TypeOK /\ Roles
  BY DEF IInv
<1>1. CASE UNCHANGED operations
  BY <1>1
<1>2. ASSUME NEW s \in Submitter, StoreDenial(s) \/ StoreOperation(s)
      PROVE  operations'[a] = operations[a] \/ Rewrites(a)
  <2>1. CASE task[s].application = a
    BY <1>2, <2>1 DEF Rewrites
  <2>2. CASE task[s].application # a
    BY <1>0, <1>2, <2>2 DEF StoreDenial, StoreOperation, Ops!StoreDoneOperation,
       Ops!StoreOperation, TypeOK, Ops!OperationsTypeOK
  <2> QED BY <2>1, <2>2
<1>3. ASSUME NEW h \in Handler, FinishReview(h) PROVE operations'[a] = operations[a]
  BY <1>0, <1>3 DEF FinishReview, Ops!FinishOperation, Ops!Unfinished, TypeOK,
     Ops!OperationsTypeOK
<1>4. ASSUME NEW b \in Application, CancelOperation(b) PROVE operations'[a] = operations[a]
  BY <1>0, <1>4 DEF CancelOperation, Ops!FinishOperation, Ops!Unfinished, TypeOK,
     Ops!OperationsTypeOK
<1>5. ASSUME Next PROVE
        \/ UNCHANGED operations
        \/ \E s \in Submitter : StoreDenial(s) \/ StoreOperation(s)
        \/ \E h \in Handler : FinishReview(h)
        \/ \E b \in Application : CancelOperation(b)
  BY <1>5, NextCases DEF CreateManifest, DeleteManifest, CreateIssuanceTemplate,
     DeleteIssuanceTemplate, DeleteApplication, DeleteResponse, ProcessApplicationSubmission,
     StoreApplication, Moves, ReadTemplate, ReadManifest, Abandon, ReadApplication, BuildResponse,
     UpdateApplication, StoreResponse, records
<1>6. UNCHANGED vars => UNCHANGED operations
  BY DEF vars, records
<1> QED BY <1>1, <1>2, <1>3, <1>4, <1>5, <1>6

\* Which step of a handler it is that writes an operation.
LEMMA WritingStep ==
  ASSUME IInv, NEW h \in Handler, HandlerStep(h)
  PROVE  /\ Running(h) /\ task[h].application \in Application
         /\ pc[h] = "denial" => h \in Submitter /\ StoreDenial(h)
         /\ pc[h] = "finish" => FinishReview(h)
         /\ (\E s \in Submitter : StoreDenial(s) \/ StoreOperation(s)) =>
              pc[h] \in {"denial", "operation"}
<1>0. TypeOK /\ Roles
  BY DEF IInv
<1>1. Running(h)
  BY DEF HandlerStep, SubmitStep, StoreReviewApplication, StoreDenial, StoreApplication,
     StoreOperation, ReadTemplate, ReadManifest, BuildResponse, UpdateApplication, StoreResponse,
     FinishReview, Running
<1>2. /\ pc[h] = "denial" => h \in Submitter /\ StoreDenial(h)
      /\ pc[h] = "finish" => FinishReview(h)
  BY DEF HandlerStep, SubmitStep, StoreReviewApplication, StoreDenial, StoreApplication,
     StoreOperation, ReadTemplate, ReadManifest, BuildResponse, UpdateApplication, StoreResponse,
     FinishReview
<1>3. ASSUME NEW s \in Submitter, StoreDenial(s) \/ StoreOperation(s)
      PROVE  pc[h] \in {"denial", "operation"}
  <2>1. s \in Handler /\ pc[s] \in {"denial", "operation"} /\ pc'[s] # pc[s]
    BY <1>0, <1>3 DEF StoreDenial, StoreOperation, GoTo, TypeOK, Handler
  <2>2. \A g \in Handler \ {h} : pc'[g] = pc[g]
    BY <1>0 DEF HandlerStep, SubmitStep, StoreReviewApplication, StoreDenial, StoreApplication,
       StoreOperation, ReadTemplate, ReadManifest, BuildResponse, UpdateApplication,
       StoreResponse, FinishReview, GoTo, TypeOK
  <2> QED BY <2>1, <2>2
<1> QED BY <1>1, <1>2, <1>3, TaskOf

\* What a client is told, if anything is, is what the operation is done with.
Tells(a) ==
  /\ \E result \in Result \cup {NotTold} :
       Tell(a, result) /\ operations'[a] = [state |-> "done", response |-> result]
  /\ \A b \in Application \ {a} : operations'[b] = operations[b]

\* Nothing is told, and what a submission writes is marked as open again.
Keeps ==
  /\ UNCHANGED told /\ reopened \subseteq reopened' /\ reopened' \in SUBSET Application
  /\ \A a \in Application : Rewrites(a) => a \in reopened'

LEMMA TellStep ==
  ASSUME IInv, ToldInv, ApiNext PROVE Keeps \/ \E a \in Application : Tells(a)
<1> DEFINE Goal == Keeps \/ \E a \in Application : Tells(a)
<1>0. TypeOK /\ ToldInv /\ reopened \in SUBSET Application
  BY DEF IInv, ToldInv
<1>1. ASSUME NEW h \in Handler, Answered(h) PROVE Goal
  <2> DEFINE a == task[h].application
  <2>1. HandlerStep(h) /\ a \in Application
    BY <1>1, WritingStep DEF Answered
  <2>2. CASE Concludes(h) /\ Tell(a, ResultOf(h))
    <3>1. CASE pc[h] = "denial"
      <4>1. /\ operations'[a] = [state |-> "done", response |-> Denial] /\ Denial \in Result
            /\ \A b \in Application \ {a} : operations'[b] = operations[b]
        BY <1>0, <2>1, <3>1, WritingStep, DoneIsOperation
           DEF StoreDenial, Ops!StoreDoneOperation, TypeOK, Ops!OperationsTypeOK
      <4>2. Tell(a, Denial)
        BY <2>2, <3>1 DEF ResultOf
      <4> HIDE DEF a
      <4> QED BY <2>1, <4>1, <4>2 DEF Tells
    <3>2. CASE pc[h] = "finish" /\ pc'[h] = "idle"
      <4> DEFINE result == Responded(task[h].response)
      <4>1. Ops!FinishOperation(a, result)
        BY <1>0, <2>1, <3>2, WritingStep DEF FinishReview, GoTo, TypeOK
      <4>2. /\ operations'[a] = [state |-> "done", response |-> result]
            /\ \A b \in Application \ {a} : operations'[b] = operations[b]
        BY <1>0, <2>1, <4>1 DEF Ops!FinishOperation, TypeOK, Ops!OperationsTypeOK
      <4>3. result \in Result
        BY <3>2, ResponsesFit, LenProperties, SetsAreFinite, DoneIsOperation
           DEF IInv, Decided, TypeOK
      <4>4. Tell(a, result)
        BY <2>2, <3>2 DEF ResultOf
      <4> HIDE DEF a, result
      <4> QED BY <2>1, <4>2, <4>3, <4>4 DEF Tells
    <3> QED BY <2>2, <3>1, <3>2 DEF Concludes
  <2>3. CASE /\ reopened' = IF pc[h] \in {"denial", "operation"} THEN reopened \cup {a} ELSE reopened
             /\ UNCHANGED told
    <3>1. ASSUME NEW b \in Application, Rewrites(b) PROVE b \in reopened'
      <4>1. PICK s \in Submitter :
              task[s].application = b /\ (StoreDenial(s) \/ StoreOperation(s))
        BY <3>1 DEF Rewrites
      <4>2. pc[h] \in {"denial", "operation"}
        BY <2>1, <4>1, WritingStep
      <4>3. s = h
        <5>1. s \in Handler /\ pc'[s] # pc[s]
          BY <1>0, <4>1 DEF StoreDenial, StoreOperation, GoTo, TypeOK, Handler
        <5>2. \A g \in Handler \ {h} : pc'[g] = pc[g]
          BY <1>0, <2>1 DEF HandlerStep, SubmitStep, StoreReviewApplication, StoreDenial,
             StoreApplication, StoreOperation, ReadTemplate, ReadManifest, BuildResponse,
             UpdateApplication, StoreResponse, FinishReview, GoTo, TypeOK
        <5> QED BY <5>1, <5>2
      <4> QED BY <2>3, <4>1, <4>2, <4>3
    <3> QED BY <1>0, <2>1, <2>3, <3>1 DEF Keeps
  <2> QED BY <1>1, <2>2, <2>3 DEF Answered
\* Steps that move no submission past the write of an operation.
<1>2. ASSUME UNCHANGED <<told, reopened>>,
             \A s \in Submitter :
               pc[s] \in {"denial", "operation"} => pc'[s] \in {pc[s], "failed"}
      PROVE  Goal
  <2>1. ASSUME NEW s \in Submitter, StoreDenial(s) \/ StoreOperation(s) PROVE FALSE
    BY <1>0, <1>2, <2>1 DEF StoreDenial, StoreOperation, GoTo, TypeOK, Handler
  <2> QED BY <1>0, <1>2, <2>1 DEF Keeps, Rewrites
<1>3. ASSUME NEW a \in Application, CancelRoute(a) PROVE Goal
  <2>1. /\ operations'[a] = [state |-> "done", response |-> Cancelled]
        /\ \A b \in Application \ {a} : operations'[b] = operations[b]
    BY <1>0, <1>3 DEF CancelRoute, CancelOperation, Ops!FinishOperation, TypeOK,
       Ops!OperationsTypeOK
  <2> QED BY <1>3, <2>1, DoneIsOperation DEF CancelRoute, Tells
<1>4. ASSUME NEW a \in Application, GetOperation(a) PROVE Goal
  <2>1. UNCHANGED operations /\ Tell(a, operations[a].response) /\ operations[a].state = "done"
    BY <1>4 DEF GetOperation, vars, records
  <2>2. /\ operations[a].response \in Result \cup {NotTold}
        /\ operations[a] = [state |-> "done", response |-> operations[a].response]
    BY <1>0, <2>1 DEF TypeOK, Ops!OperationsTypeOK, Ops!Operation, NotTold
  <2> QED BY <2>1, <2>2 DEF Tells
<1>5. ASSUME NEW s \in Submitter, SubmitApplication(s) PROVE Goal
  <2>1. ASSUME NEW a \in Application, ProcessApplicationSubmission(s, a), UNCHANGED apiVars
        PROVE  Goal
    <3>1. \A g \in Submitter : pc[g] \in {"denial", "operation"} => pc'[g] = pc[g]
      BY <1>0, <2>1 DEF ProcessApplicationSubmission, Running, GoTo, TypeOK, Handler
    <3> QED BY <1>2, <2>1, <3>1 DEF apiVars
  <2> QED BY <1>1, <1>5, <2>1 DEF SubmitApplication, Handler
<1>6. ASSUME NEW v \in Reviewer, ReviewApplicationRoute(v) PROVE Goal
  <2>1. ASSUME NEW a \in Application, NEW approved \in BOOLEAN, ReadApplication(v, a, approved),
               UNCHANGED apiVars
        PROVE  Goal
    <3>1. \A g \in Submitter : pc'[g] = pc[g]
      BY <1>0, <2>1, HandlersAssumption DEF ReadApplication, GoTo, TypeOK, Handler
    <3> QED BY <1>2, <2>1, <3>1 DEF apiVars
  <2> QED BY <1>1, <1>6, <2>1 DEF ReviewApplicationRoute, Handler
<1>7. ASSUME NEW q \in RequestId, CreateRequest(q) \/ DeleteRequest(q) PROVE Goal
  <2>1. UNCHANGED <<told, reopened, pc>>
    BY <1>7 DEF CreateRequest, ReadForRequest, StoreRequest, DeleteRequest, vars
  <2> QED BY <1>2, <2>1
<1>8. CASE (ManifestRoutes \/ IssuanceRoutes \/ DeleteRoutes) /\ UNCHANGED apiVars
  <2>1. UNCHANGED <<told, reopened, pc>>
    BY <1>8 DEF ManifestRoutes, IssuanceRoutes, DeleteRoutes, apiVars, CreateManifest,
       DeleteManifest, CreateIssuanceTemplate, DeleteIssuanceTemplate, DeleteApplication,
       DeleteResponse
  <2> QED BY <1>2, <2>1
<1>9. ASSUME NEW h \in Handler, Abandon(h), UNCHANGED apiVars PROVE Goal
  <2>1. \A s \in Submitter : pc'[s] \in {pc[s], "failed"}
    BY <1>0, <1>9 DEF Abandon, GoTo, TypeOK, Handler
  <2> QED BY <1>2, <1>9, <2>1 DEF apiVars
<1> QED BY <1>3, <1>4, <1>5, <1>6, <1>7, <1>8, <1>9 DEF ApiNext

LEMMA ToldStep ==
  ASSUME IInv, ToldInv, [ApiNext]_<<vars, apiVars>> PROVE ToldInv'
<1>0. /\ told \in [Application -> Result \cup {NotTold}] /\ ToldAsDone
      /\ reopened \in SUBSET Application
  BY DEF ToldInv
<1>1. \A a \in Application :
        operations[a].state = "done" => operations'[a] = operations[a] \/ Rewrites(a)
  BY ApiStep, DoneStays
<1>2. CASE UNCHANGED <<vars, apiVars>>
  BY <1>0, <1>2 DEF ToldInv, ToldAsDone, vars, records, apiVars
<1>3. CASE Keeps
  BY <1>0, <1>1, <1>3 DEF ToldInv, ToldAsDone, Keeps
<1>4. ASSUME NEW a \in Application, Tells(a) PROVE ToldInv'
  <2>1. PICK result \in Result \cup {NotTold} :
          Tell(a, result) /\ operations'[a] = [state |-> "done", response |-> result]
    BY <1>4 DEF Tells
  <2>2. /\ told' \in [Application -> Result \cup {NotTold}]
        /\ told'[a] = result /\ reopened' = reopened \ {a}
        /\ \A b \in Application \ {a} : told'[b] = told[b]
    BY <1>0, <2>1 DEF Tell
  <2>3. operations'[a].state = "done" /\ operations'[a].response = result
    BY <2>1
  <2>4. \A b \in Application \ {a} : operations'[b] = operations[b]
    BY <1>4 DEF Tells
  <2> QED BY <1>0, <2>2, <2>3, <2>4 DEF ToldInv, ToldAsDone
<1> QED BY <1>2, <1>3, <1>4, TellStep

\* What a client was told is what the operation was done with, at any time, unless
\* the application was submitted again since.
THEOREM ApiToldInvariant == ApiSpec => []ToldInv
<1>1. ApiInit => ToldInv
  BY DEF ApiInit, ToldInv, ToldAsDone
<1>2. IInv /\ ToldInv /\ [ApiNext]_<<vars, apiVars>> => ToldInv'
  BY ToldStep
<1> QED BY <1>1, <1>2, ApiImplementsReview, ReviewInvariant, PTL DEF ApiSpec

\* No client is told two things of one application: the answers to a submission, a
\* review and a cancellation and the operation agree, in any order of requests, for
\* as long as no further submission opens the operation or is denied
\* (core/server/router/manifest.go:330-353,577-603, operation.go:70,251).
THEOREM ApiToldForGood == ApiSpec => ToldForGood
<1> DEFINE Kept(a) ==
      told'[a] # told[a] =>
        \/ told[a] = NotTold \/ a \in reopened
        \/ told'[a] = Denial /\ \E s \in Submitter :
             pc[s] = "denial" /\ task[s].application = a /\ pc'[s] = "idle"
<1>1. ASSUME IInv, ToldInv, [ApiNext]_<<vars, apiVars>>, NEW a \in Application PROVE Kept(a)
  <2>0. TypeOK /\ ToldInv
    BY <1>1 DEF IInv
  <2>1. CASE UNCHANGED told
    BY <2>1
  <2>2. ASSUME NEW b \in Application, Tells(b), told'[a] # told[a], told[a] # NotTold,
               a \notin reopened
        PROVE  told'[a] = Denial /\ \E s \in Submitter :
                 pc[s] = "denial" /\ task[s].application = a /\ pc'[s] = "idle"
    <3>1. PICK result \in Result \cup {NotTold} :
            Tell(b, result) /\ operations'[b] = [state |-> "done", response |-> result]
      BY <2>2 DEF Tells
    <3>2. b = a /\ told'[a] = result
      BY <2>0, <2>2, <3>1 DEF Tell, ToldInv
    <3>3. operations[a].state = "done" /\ told[a] = operations[a].response
      BY <2>0, <2>2 DEF ToldInv, ToldAsDone
    <3>4. operations'[a] # operations[a]
      BY <2>2, <3>1, <3>2, <3>3
    <3>5. PICK s \in Submitter : task[s].application = a /\ (StoreDenial(s) \/ StoreOperation(s))
      BY <1>1, <3>3, <3>4, ApiStep, DoneStays DEF Rewrites
    <3>6. ~StoreOperation(s)
      BY <2>0, <3>1, <3>2, <3>5 DEF StoreOperation, Ops!StoreOperation, TypeOK,
         Ops!OperationsTypeOK
    <3>7. StoreDenial(s)
      BY <3>5, <3>6
    <3>8. result = Denial
      BY <2>0, <3>1, <3>2, <3>5, <3>7 DEF StoreDenial, Ops!StoreDoneOperation, TypeOK,
         Ops!OperationsTypeOK
    <3>9. pc[s] = "denial" /\ pc'[s] = "idle"
      BY <2>0, <3>7 DEF StoreDenial, GoTo, TypeOK, Handler
    <3> QED BY <3>2, <3>5, <3>8, <3>9
  <2>3. CASE Keeps \/ \E b \in Application : Tells(b)
    BY <2>1, <2>2, <2>3 DEF Keeps
  <2> QED BY <1>1, <2>1, <2>3, TellStep DEF apiVars
<1>2. IInv /\ ToldInv /\ [ApiNext]_<<vars, apiVars>> =>
        [\A a \in Application : Kept(a)]_<<told, pc>>
  BY <1>1
<1> QED BY <1>2, ApiToldInvariant, ApiImplementsReview, ReviewInvariant, PTL
        DEF ApiSpec, ToldForGood
==============================================================================
