---------------------------- MODULE ManifestReview ---------------------------
(***************************************************************************)
(* core/service/manifest with core/service/issuance and                    *)
(* core/service/operation: an applicant answers a credential manifest, and *)
(* the application is decided by an operator, by an issuance template or   *)
(* by cancelling its operation.  A handler is a process; it accesses the   *)
(* store once per step, other handlers run in between, and it may end      *)
(* early (a check on data that the model leaves out, a storage call that   *)
(* fails, a server that stops).  StoreReviewApplication is three           *)
(* transactions, not one.  The applicant chooses the id of an application  *)
(* and may submit the same one again, at any time.                         *)
(***************************************************************************)
EXTENDS Naturals, FiniteSets, Sequences

CONSTANTS Application,    \* ids of applications
          Submitter,      \* handlers of ProcessApplicationSubmission
          Reviewer,       \* handlers of ReviewApplication
          Manifest,       \* ids of manifests
          NoApplication,  \* what a handler that has not started decides about
          ManifestOf,     \* the manifest each application answers
          MaxSubmissions, \* bound: calls of ProcessApplicationSubmission
          MaxReviews      \* bound: calls of ReviewApplication

ASSUME ManifestOfAssumption == ManifestOf \in [Application -> Manifest]
ASSUME HandlersAssumption ==
  Submitter \cap Reviewer = {} /\ NoApplication \notin Application
ASSUME FiniteAssumption == IsFiniteSet(Submitter) /\ IsFiniteSet(Reviewer)
ASSUME MaxCallsAssumption == MaxSubmissions \in Nat /\ MaxReviews \in Nat

VARIABLES manifests,      \* state of each manifest: new, stored or deleted
          templates,      \* manifests that have an issuance template
          applications,   \* stored status of each application, 0 for none
          responses,      \* state of each response: new, stored or deleted
          built,          \* built[i]: what response i decides, in order of building
          issued,         \* responses whose credentials are created and stored
          operations,     \* operations of the applications
          submissions,    \* calls of ProcessApplicationSubmission so far
          reviews,        \* calls of ReviewApplication so far
          pc, task,       \* of each handler: its next step or how it ended, and
                          \* what it decides
          written,        \* history: applications that a submission has written
          rewritten       \* history: those that a further submission wrote again

catalog == <<manifests, templates>>
records == <<applications, responses, issued, operations>>
calls == <<submissions, reviews>>
history == <<written, rewritten>>
vars == <<catalog, records, built, calls, pc, task, history>>

Handler == Submitter \cup Reviewer

\* credential.Status and submission.Status are stored in the same byte: what a
\* review writes as approved is what a cancellation writes as cancelled.
StatusPending == 1
StatusDenied == 3
StatusApproved == 4
StatusCancelled == 4

MaxResponses == MaxSubmissions + MaxReviews
ResponseId == 1..MaxResponses

\* What an operation can lead to: a denial that is stored nowhere else, the
\* application as it was cancelled, or a response.
Result == [kind : {"denial", "cancelled", "response"}, response : 0..MaxResponses]
Denial == [kind |-> "denial", response |-> 0]
Cancelled == [kind |-> "cancelled", response |-> 0]
Responded(i) == [kind |-> "response", response |-> i]

Ops == INSTANCE Operations WITH OpId <- Application, Response <- Result,
  NoResponse <- [kind |-> "none", response |-> 0]

Task(a, approved) == [application |-> a, approved |-> approved, response |-> 0]

Init ==
  /\ manifests = [m \in Manifest |-> "new"]
  /\ templates = {}
  /\ applications = [a \in Application |-> 0]
  /\ responses = [i \in ResponseId |-> "new"]
  /\ built = <<>>
  /\ issued = {}
  /\ Ops!OperationsInit
  /\ submissions = 0 /\ reviews = 0
  /\ pc = [h \in Handler |-> "idle"]
  /\ task = [h \in Handler |-> Task(NoApplication, TRUE)]
  /\ written = {} /\ rewritten = {}

Running(h) == pc[h] \notin {"idle", "failed"}

GoTo(h, step) == pc' = [pc EXCEPT ![h] = step]

------------------------------------------------------------------------------
\* What operators create under a new id and delete.  A template is stored after
\* its manifest was read, and may find it deleted by then.
CreateManifest(m) ==
  /\ manifests[m] = "new"
  /\ manifests' = [manifests EXCEPT ![m] = "stored"]
  /\ UNCHANGED <<templates, records, built, calls, pc, task, history>>

DeleteManifest(m) ==
  /\ manifests[m] = "stored"
  /\ manifests' = [manifests EXCEPT ![m] = "deleted"]
  /\ UNCHANGED <<templates, records, built, calls, pc, task, history>>

CreateIssuanceTemplate(m) ==
  /\ manifests[m] # "new"
  /\ templates' = templates \cup {m}
  /\ UNCHANGED <<manifests, records, built, calls, pc, task, history>>

DeleteIssuanceTemplate(m) ==
  /\ templates' = templates \ {m}
  /\ UNCHANGED <<manifests, records, built, calls, pc, task, history>>

DeleteApplication(a) ==
  /\ applications' = [applications EXCEPT ![a] = 0]
  /\ UNCHANGED <<catalog, responses, issued, operations, built, calls, pc, task, history>>

DeleteResponse(i) ==
  /\ responses[i] = "stored"
  /\ responses' = [responses EXCEPT ![i] = "deleted"]
  /\ UNCHANGED <<catalog, applications, issued, operations, built, calls, pc, task, history>>

------------------------------------------------------------------------------
\* What the validation of an application, signatures and credentials included, can
\* lead to: an error, a denial, or the next step.
Validation == {"failed", "denial", "application"}

\* ProcessApplicationSubmission: the manifest is read and the application
\* validated.  Nothing asks whether its id is in use.
ProcessApplicationSubmission(s, a) ==
  /\ ~Running(s) /\ submissions < MaxSubmissions
  /\ submissions' = submissions + 1
  /\ manifests[ManifestOf[a]] = "stored"
  /\ task' = [task EXCEPT ![s] = Task(a, TRUE)]
  /\ \E step \in Validation : GoTo(s, step)
  /\ UNCHANGED <<catalog, records, built, reviews, history>>

\* History: the first write of a submission, which it may be for several of them.
Writes(a) ==
  /\ written' = written \cup {a}
  /\ rewritten' = rewritten \cup ({a} \cap written)

\* Writes over whatever operation there is.
StoreDenial(s) ==
  /\ pc[s] = "denial"
  /\ Ops!StoreDoneOperation(task[s].application, Denial)
  /\ Writes(task[s].application)
  /\ GoTo(s, "idle")
  /\ UNCHANGED <<catalog, applications, responses, issued, built, calls, task>>

\* Writes over whatever application there is: one decided upon is pending again.
StoreApplication(s) ==
  /\ pc[s] = "application"
  /\ applications' = [applications EXCEPT ![task[s].application] = StatusPending]
  /\ Writes(task[s].application)
  /\ GoTo(s, "operation")
  /\ UNCHANGED <<catalog, responses, issued, operations, built, calls, task>>

\* An operation that was done is open again.
StoreOperation(s) ==
  /\ pc[s] = "operation"
  /\ Ops!StoreOperation(task[s].application)
  /\ GoTo(s, "template")
  /\ UNCHANGED <<catalog, applications, responses, issued, built, calls, task, history>>

\* attemptAutomaticIssuance goes on only when the manifest has a template.
ReadTemplate(s) ==
  /\ pc[s] = "template"
  /\ IF ManifestOf[task[s].application] \in templates
       THEN GoTo(s, "credentials") ELSE GoTo(s, "idle")
  /\ UNCHANGED <<catalog, records, built, calls, task, history>>

\* ReviewApplication reads the application, whatever its status, and then the
\* manifest as it is by then.
ReadApplication(v, a, approved) ==
  /\ ~Running(v) /\ reviews < MaxReviews
  /\ reviews' = reviews + 1
  /\ applications[a] # 0
  /\ task' = [task EXCEPT ![v] = Task(a, approved)]
  /\ GoTo(v, "manifest")
  /\ UNCHANGED <<catalog, records, built, submissions, history>>

ReadManifest(v) ==
  /\ pc[v] = "manifest"
  /\ IF manifests[ManifestOf[task[v].application]] = "stored"
       THEN GoTo(v, "credentials") ELSE GoTo(v, "failed")
  /\ UNCHANGED <<catalog, records, built, calls, task, history>>

------------------------------------------------------------------------------
\* The rest is common to a review and to an issuance by template.

\* MUTANT of BuildResponse: the credentials are left out of an approval.
BuildResponse_NoCredentials(h) ==
  /\ pc[h] = "credentials"
  /\ LET i == Len(built) + 1
     IN /\ task' = [task EXCEPT ![h].response = i]
        /\ built' = Append(built, [task[h] EXCEPT !.response = i])
  /\ GoTo(h, "status")
  /\ UNCHANGED <<catalog, records, calls, history>>

\* A response under a new id; an approval creates and stores its credentials
\* first.  The response is then signed.
BuildResponse(h) ==
  /\ pc[h] = "credentials"
  /\ LET i == Len(built) + 1
     IN /\ task' = [task EXCEPT ![h].response = i]
        /\ built' = Append(built, [task[h] EXCEPT !.response = i])
        /\ issued' = IF task[h].approved THEN issued \cup {i} ELSE issued
  /\ GoTo(h, "status")
  /\ UNCHANGED <<catalog, applications, responses, operations, calls, history>>

\* MUTANT of UpdateApplication: the status is left as it is.
UpdateApplication_Forgotten(h) ==
  /\ pc[h] = "status"
  /\ GoTo(h, "response")
  /\ UNCHANGED <<catalog, records, built, calls, task, history>>

\* First transaction of StoreReviewApplication: fails when the application is
\* gone, and asks neither for its status nor for its operation.
UpdateApplication(h) ==
  /\ pc[h] = "status"
  /\ LET a == task[h].application
     IN IF applications[a] = 0
          THEN GoTo(h, "failed") /\ UNCHANGED applications
          ELSE /\ applications' = [applications EXCEPT ![a] =
                    IF task[h].approved THEN StatusApproved ELSE StatusDenied]
               /\ GoTo(h, "response")
  /\ UNCHANGED <<catalog, responses, issued, operations, built, calls, task, history>>

\* Second transaction.
StoreResponse(h) ==
  /\ pc[h] = "response"
  /\ responses' = [responses EXCEPT ![task[h].response] = "stored"]
  /\ GoTo(h, "finish")
  /\ UNCHANGED <<catalog, applications, issued, operations, built, calls, task, history>>

\* MUTANT of FinishReview: writes the operation without looking at it.
FinishReview_Overwrites(h) ==
  /\ pc[h] = "finish"
  /\ Ops!StoreDoneOperation(task[h].application, Responded(task[h].response))
  /\ GoTo(h, "idle")
  /\ UNCHANGED <<catalog, applications, responses, issued, built, calls, task, history>>

\* MUTANT of FinishReview: its error is dropped.
FinishReview_Silent(h) ==
  /\ pc[h] = "finish"
  /\ LET a == task[h].application
     IN IF responses[task[h].response] = "stored" /\ Ops!Unfinished(a)
          THEN Ops!FinishOperation(a, Responded(task[h].response))
          ELSE UNCHANGED operations
  /\ GoTo(h, "idle")
  /\ UNCHANGED <<catalog, applications, responses, issued, built, calls, task, history>>

\* Third transaction: rolled back when the response is gone or when the operation
\* is missing or done.  What the first two wrote stays.
FinishReview(h) ==
  /\ pc[h] = "finish"
  /\ LET a == task[h].application
     IN IF responses[task[h].response] = "stored" /\ Ops!Unfinished(a)
          THEN Ops!FinishOperation(a, Responded(task[h].response)) /\ GoTo(h, "idle")
          ELSE GoTo(h, "failed") /\ UNCHANGED operations
  /\ UNCHANGED <<catalog, applications, responses, issued, built, calls, task, history>>

\* A check on data fails, a storage call fails, or the server stops.
Abandon(h) ==
  /\ Running(h)
  /\ GoTo(h, "failed")
  /\ UNCHANGED <<catalog, records, built, calls, task, history>>

\* One transaction on the application and the operation.
CancelOperation(a) ==
  /\ applications[a] # 0
  /\ applications' = [applications EXCEPT ![a] = StatusCancelled]
  /\ Ops!FinishOperation(a, Cancelled)
  /\ UNCHANGED <<catalog, responses, issued, built, calls, pc, task, history>>

------------------------------------------------------------------------------
SubmitStep(s) ==
  StoreDenial(s) \/ StoreApplication(s) \/ StoreOperation(s) \/ ReadTemplate(s)

StoreReviewApplication(h) == UpdateApplication(h) \/ StoreResponse(h) \/ FinishReview(h)

HandlerStep(h) ==
  \/ h \in Submitter /\ SubmitStep(h)
  \/ h \in Reviewer /\ ReadManifest(h)
  \/ BuildResponse(h)
  \/ StoreReviewApplication(h)

Next ==
  \/ \E m \in Manifest :
       \/ CreateManifest(m) \/ DeleteManifest(m)
       \/ CreateIssuanceTemplate(m) \/ DeleteIssuanceTemplate(m)
  \/ \E a \in Application :
       \/ DeleteApplication(a) \/ CancelOperation(a)
       \/ \E s \in Submitter : ProcessApplicationSubmission(s, a)
  \/ \E i \in ResponseId : DeleteResponse(i)
  \/ \E v \in Reviewer, a \in Application, approved \in BOOLEAN : ReadApplication(v, a, approved)
  \/ \E h \in Handler : HandlerStep(h) \/ Abandon(h)

Spec == Init /\ [][Next]_vars

\* The Go scheduler runs a handler that has started to its end.
FairSpec == Spec /\ \A h \in Handler : WF_vars(HandlerStep(h))

------------------------------------------------------------------------------
\* Submissions of an application that have not written its operation yet.
Filed(a) ==
  {s \in Submitter :
     pc[s] \in {"denial", "application", "operation"} /\ task[s].application = a}

\* A client that polls the operation of its application sees it settled once for
\* every time it submitted the application, with reviews, issuances by template,
\* cancellations and further submissions racing: a submission opens the operation
\* or refuses it, once, and nothing but a submission changes what is settled.
Promise == INSTANCE Docket WITH Item <- Application, Filing <- Submitter,
  Outcome <- Result, Refusal <- Denial,
  verdict <- [a \in Application |-> Ops!Polled(a)],
  filed <- [a \in Application |-> Filed(a)]

ImplementsDocket == Promise!DocketSpec

\* No application that was submitted once reads as pending once its operation is
\* done: the status is written before the operation is finished, in whatever order
\* reviews end.  One that is submitted again may stay pending and done, when a
\* review of before is still under way, when the handler ends between its two
\* writes, or when it is denied the second time (service.go:326,331,309).
DoneNotPending ==
  \A a \in Application \ rewritten :
    operations[a].state = "done" => applications[a] # StatusPending

\* The status a review writes is the one its operation ends with: "The state of
\* the application can be updated by calling CancelOperation, or by calling
\* ReviewApplicationSubmission.  When the state is updated, the operation is marked
\* as done" (core/service/manifest/service.go:272-273).  It is asked of an
\* application that was submitted once, with every review taken to its end.
ReviewedAlike ==
  (\A h \in Handler : ~Running(h)) /\ (\A i \in DOMAIN built : responses[i] # "new") =>
    \A a \in Application \ rewritten :
      operations[a].state = "done" /\ operations[a].response.kind = "response"
        /\ applications[a] # 0 =>
        LET i == operations[a].response.response
        IN applications[a] = IF built[i].approved THEN StatusApproved ELSE StatusDenied

\* The response an operation led to was built for that application, and its
\* credentials exist when it is an approval: a client never fetches a fulfilled
\* response without its credentials, nor another applicant's.
DoneIsFulfilled ==
  \A a \in Application :
    operations[a].state = "done" /\ operations[a].response.kind = "response" =>
      LET i == operations[a].response.response
      IN built[i].application = a /\ (built[i].approved => i \in issued)

\* An application that an issuance template was found for is settled, or its
\* applicant is told of an error.
TemplateSettles ==
  \A s \in Submitter, a \in Application :
    pc[s] = "credentials" /\ task[s].application = a
      ~> operations[a].state = "done" \/ pc[s] = "failed"

==============================================================================
