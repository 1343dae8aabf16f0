--------------------------- MODULE SubmissionReview --------------------------
(***************************************************************************)
(* core/service/presentation with core/service/operation: a holder submits *)
(* a presentation, an operator reviews it or cancels its operation.        *)
(* CreateSubmission runs as one process per HTTP request and touches the   *)
(* store four times; between two of them other handlers run, and a handler *)
(* may end early because a storage call fails or the server stops.  A      *)
(* review and a cancellation are one transaction on the submission and the *)
(* operation.                                                              *)
(***************************************************************************)
CONSTANTS Request,       \* handlers of CreateSubmission; each may run again
          SubmissionId,  \* ids of submissions, chosen by the holders
          DefinitionId,  \* ids of presentation definitions
          Form           \* Form[r]: submission and definition ids in request r

ASSUME FormAssumption ==
  Form \in [Request -> [id : SubmissionId, definition : DefinitionId]]

VARIABLES definitions,   \* ids of the stored presentation definitions
          submissions,   \* status of each stored submission
          operations,    \* operations of the submissions
          pc             \* pc[r]: the next access to the store of request r, or
                         \* how its handler ended

vars == <<definitions, submissions, operations, pc>>

Settled == {"approved", "denied", "cancelled"}
Status == {"pending"} \cup Settled
NoSubmission == "no submission"

Ops == INSTANCE Operations WITH OpId <- SubmissionId, Response <- Status,
  NoResponse <- "no response"

Step == {"idle", "failed", "definition", "submission", "operation"}

TypeOK ==
  /\ definitions \in SUBSET DefinitionId
  /\ submissions \in [SubmissionId -> Status \cup {NoSubmission}]
  /\ Ops!OperationsTypeOK
  /\ pc \in [Request -> Step]

Init ==
  /\ definitions = {}
  /\ submissions = [s \in SubmissionId |-> NoSubmission]
  /\ Ops!OperationsInit
  /\ pc = [r \in Request |-> "idle"]

Running(r) == pc[r] \notin {"idle", "failed"}

GoTo(r, step) == pc' = [pc EXCEPT ![r] = step]

------------------------------------------------------------------------------
\* The definitions an operator creates, under a new id, and deletes.
CreatePresentationDefinition(d) ==
  /\ d \notin definitions
  /\ definitions' = definitions \cup {d}
  /\ UNCHANGED <<submissions, operations, pc>>

DeletePresentationDefinition(d) ==
  /\ definitions' = definitions \ {d}
  /\ UNCHANGED <<submissions, operations, pc>>

------------------------------------------------------------------------------
\* MUTANT of LookupSubmission: an id that is taken is accepted.
LookupSubmission_Taken(r) ==
  /\ ~Running(r)
  /\ GoTo(r, "definition")
  /\ UNCHANGED <<definitions, submissions, operations>>

\* A request whose token verifies starts here; a taken id ends it at once.
LookupSubmission(r) ==
  /\ ~Running(r)
  /\ submissions[Form[r].id] = NoSubmission
  /\ GoTo(r, "definition")
  /\ UNCHANGED <<definitions, submissions, operations>>

\* The credentials and the presentation are verified against the definition read
\* here, which may be deleted by the time the submission is stored.
LookupDefinition(r) ==
  /\ pc[r] = "definition"
  /\ \/ Form[r].definition \in definitions /\ GoTo(r, "submission")
     \/ GoTo(r, "failed")
  /\ UNCHANGED <<definitions, submissions, operations>>

StoreSubmission(r) ==
  /\ pc[r] = "submission"
  /\ submissions' = [submissions EXCEPT ![Form[r].id] = "pending"]
  /\ GoTo(r, "operation")
  /\ UNCHANGED <<definitions, operations>>

\* MUTANT of StoreOperation: the operation of another submission is written.
StoreOperation_OtherId(r) ==
  /\ pc[r] = "operation"
  /\ Ops!StoreOperation(CHOOSE s \in SubmissionId : TRUE)
  /\ GoTo(r, "idle")
  /\ UNCHANGED <<definitions, submissions>>

StoreOperation(r) ==
  /\ pc[r] = "operation"
  /\ Ops!StoreOperation(Form[r].id)
  /\ GoTo(r, "idle")
  /\ UNCHANGED <<definitions, submissions>>

\* A storage call of the handler fails, or the server stops under it.  What it
\* has written stays.
Abandon(r) ==
  /\ Running(r)
  /\ GoTo(r, "failed")
  /\ UNCHANGED <<definitions, submissions, operations>>

------------------------------------------------------------------------------
\* One transaction: rolled back when the submission or its operation is missing
\* or when the operation is done.
UpdateValueAndOperation(s, status) ==
  /\ submissions[s] # NoSubmission
  /\ submissions' = [submissions EXCEPT ![s] = status]
  /\ Ops!FinishOperation(s, status)
  /\ UNCHANGED <<definitions, pc>>

ReviewSubmission(s, approved) ==
  UpdateValueAndOperation(s, IF approved THEN "approved" ELSE "denied")

CancelOperation(s) == UpdateValueAndOperation(s, "cancelled")

------------------------------------------------------------------------------
CreateSubmission(r) ==
  LookupSubmission(r) \/ LookupDefinition(r) \/ StoreSubmission(r) \/ StoreOperation(r)

Next ==
  \/ \E d \in DefinitionId :
       CreatePresentationDefinition(d) \/ DeletePresentationDefinition(d)
  \/ \E r \in Request : CreateSubmission(r) \/ Abandon(r)
  \/ \E s \in SubmissionId :
       CancelOperation(s) \/ \E approved \in BOOLEAN : ReviewSubmission(s, approved)

Spec == Init /\ [][Next]_vars

\* The Go scheduler runs a handler that has started to its end.
HandlerStep(r) == LookupDefinition(r) \/ StoreSubmission(r) \/ StoreOperation(r)

FairSpec == Spec /\ \A r \in Request : WF_vars(HandlerStep(r))

------------------------------------------------------------------------------
\* No two requests carry the same submission id: ids are random and a client
\* does not send a request again while the first is being handled.
DistinctIds == \A r, q \in Request : Form[r].id = Form[q].id => r = q

\* A submission is settled when its operation is done and only then, and the
\* operation's response is the submission as it was settled.  It takes the two
\* updates in one transaction, and the operation's record to be written before
\* any review can touch the submission.
SettledTogether ==
  \A s \in SubmissionId :
    /\ submissions[s] \in Settled <=> operations[s].state = "done"
    /\ operations[s].state = "done" => operations[s].response = submissions[s]

\* Until a handler has stored its operation nobody else has touched its id: the
\* check for a taken id, three store accesses before, still holds, and nothing
\* can be reviewed that has no submission or no operation yet.
HandlerOwnsId ==
  /\ \A s \in SubmissionId :
       submissions[s] = NoSubmission => operations[s].state = "absent"
  /\ \A r \in Request : LET s == Form[r].id IN
       /\ pc[r] \in {"definition", "submission"} => submissions[s] = NoSubmission
       /\ pc[r] = "operation" =>
            submissions[s] = "pending" /\ operations[s].state = "absent"

\* A client that polls the operation of its submission sees it settled once.
Promise == INSTANCE Verdict WITH Item <- SubmissionId, Outcome <- Settled,
  verdict <- [s \in SubmissionId |-> Ops!Polled(s)]

ImplementsVerdict == Promise!VerdictSpec

\* A stored submission gets an operation, without which it can neither be
\* reviewed nor cancelled, unless its handler ended early.
StoredThenReviewable ==
  \A r \in Request : LET s == Form[r].id IN
    submissions[s] # NoSubmission ~> operations[s].state # "absent" \/ pc[r] = "failed"
==============================================================================
