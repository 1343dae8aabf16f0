----------------------- MODULE PresentationApi_proofs ------------------------
(***************************************************************************)
(* First the service (SubmissionReview): a submission and its operation    *)
(* are settled together and once, for any requests with ids of their own,  *)
(* any definitions and any failures.  The inductive invariant joins the    *)
(* property (SettledTogether) with what keeps it so: HandlerOwnsId, which  *)
(* says that the check for a taken id at the start of a handler still      *)
(* holds when the operation is stored.                                     *)
(*                                                                         *)
(* Then the routes: whatever clients ask for through PresentationApi, the  *)
(* submissions and operations take a step of the service or none.  Behind  *)
(* that, what clients see: what they were told of a settled submission     *)
(* stays true (ToldInv), and a listing that is followed to its end left    *)
(* out no record that matched all the while (ListInv).                     *)
(***************************************************************************)
EXTENDS PresentationApi, WellFoundedInduction, TLAPS

IInv == TypeOK /\ SettledTogether /\ HandlerOwnsId

\* The step every action has in common: what it does to one request's pc.
LEMMA GoToType ==
  ASSUME TypeOK, NEW r \in Request, NEW step \in Step, GoTo(r, step)
  PROVE  /\ pc' \in [Request -> Step]
         /\ pc'[r] = step
         /\ \A q \in Request \ {r} : pc'[q] = pc[q]
BY DEF TypeOK, GoTo

LEMMA FormType == \A r \in Request : Form[r].id \in SubmissionId
BY FormAssumption

\* What the update of one operation's record does to the records.
LEMMA OperationWritten ==
  ASSUME Ops!OperationsTypeOK, NEW s \in SubmissionId,
         NEW new \in Ops!Operation, operations' = [operations EXCEPT ![s] = new]
  PROVE  /\ Ops!OperationsTypeOK'
         /\ operations'[s] = new
         /\ \A t \in SubmissionId \ {s} : operations'[t] = operations[t]
BY DEF Ops!OperationsTypeOK

LEMMA TypeInit == Init => TypeOK
<1> SUFFICES ASSUME Init PROVE TypeOK
  OBVIOUS
<1>1. Ops!NoOperation \in Ops!Operation
  BY DEF Ops!NoOperation, Ops!Operation
<1>2. Ops!OperationsTypeOK
  BY <1>1 DEF Init, Ops!OperationsInit, Ops!OperationsTypeOK
<1>3. definitions \in SUBSET DefinitionId
  BY DEF Init
<1>4. submissions \in [SubmissionId -> Status \cup {NoSubmission}]
  BY DEF Init
<1>5. pc \in [Request -> Step]
  BY DEF Init, Step
<1> QED BY <1>2, <1>3, <1>4, <1>5 DEF TypeOK

\* One transaction on a submission and its operation keeps their types.
LEMMA UpdateStep ==
  ASSUME TypeOK, NEW s \in SubmissionId, NEW status \in Settled,
         UpdateValueAndOperation(s, status)
  PROVE  /\ TypeOK'
         /\ UNCHANGED <<definitions, pc>>
         /\ submissions[s] # NoSubmission
         /\ operations[s].state = "running"
         /\ submissions' = [submissions EXCEPT ![s] = status]
         /\ operations' = [operations EXCEPT ![s] = [state |-> "done", response |-> status]]
<1>1. [state |-> "done", response |-> status] \in Ops!Operation
  BY DEF Ops!Operation, Status
<1>2. /\ UNCHANGED <<definitions, pc>>
      /\ submissions[s] # NoSubmission
      /\ operations[s].state = "running"
      /\ submissions' = [submissions EXCEPT ![s] = status]
      /\ operations' = [operations EXCEPT ![s] = [state |-> "done", response |-> status]]
  BY DEF UpdateValueAndOperation, Ops!FinishOperation, Ops!Unfinished
<1>3. Ops!OperationsTypeOK'
  BY <1>1, <1>2, OperationWritten DEF TypeOK
<1>4. submissions' \in [SubmissionId -> Status \cup {NoSubmission}]
  BY <1>2 DEF TypeOK, Status
<1> QED BY <1>2, <1>3, <1>4 DEF TypeOK

\* The two callers of that transaction.
LEMMA Reviewed ==
  ASSUME NEW s \in SubmissionId,
         CancelOperation(s) \/ \E approved \in BOOLEAN : ReviewSubmission(s, approved)
  PROVE  \E status \in Settled : UpdateValueAndOperation(s, status)
<1>1. CASE CancelOperation(s)
  BY <1>1 DEF CancelOperation, Settled
<1>2. CASE \E approved \in BOOLEAN : ReviewSubmission(s, approved)
  <2>1. PICK approved \in BOOLEAN : ReviewSubmission(s, approved)
    BY <1>2
  <2>2. (IF approved THEN "approved" ELSE "denied") \in Settled
    BY DEF Settled
  <2> QED BY <2>1, <2>2 DEF ReviewSubmission
<1> QED BY <1>1, <1>2

LEMMA TypeStep == TypeOK /\ [Next]_vars => TypeOK'
<1> SUFFICES ASSUME TypeOK, [Next]_vars PROVE TypeOK'
  OBVIOUS
<1> USE FormType
<1>1. CASE UNCHANGED vars
  BY <1>1 DEF vars, TypeOK, Ops!OperationsTypeOK
<1>2. ASSUME NEW d \in DefinitionId,
             CreatePresentationDefinition(d) \/ DeletePresentationDefinition(d)
      PROVE  TypeOK'
  BY <1>2 DEF CreatePresentationDefinition, DeletePresentationDefinition, TypeOK,
              Ops!OperationsTypeOK
<1>3. ASSUME NEW r \in Request, LookupSubmission(r) \/ LookupDefinition(r) \/ Abandon(r)
      PROVE  TypeOK'
  BY <1>3 DEF LookupSubmission, LookupDefinition, Abandon, GoTo, TypeOK, Step,
              Ops!OperationsTypeOK
<1>4. ASSUME NEW r \in Request, StoreSubmission(r) PROVE TypeOK'
  BY <1>4 DEF StoreSubmission, GoTo, TypeOK, Step, Status, Ops!OperationsTypeOK
<1>5. ASSUME NEW r \in Request, StoreOperation(r) PROVE TypeOK'
  <2>1. [state |-> "running", response |-> "no response"] \in Ops!Operation
    BY DEF Ops!Operation
  <2>2. Ops!OperationsTypeOK'
    BY <1>5, <2>1, OperationWritten DEF StoreOperation, Ops!StoreOperation, TypeOK
  <2> QED BY <1>5, <2>2 DEF StoreOperation, GoTo, TypeOK, Step
<1>6. ASSUME NEW s \in SubmissionId,
             CancelOperation(s) \/ \E approved \in BOOLEAN : ReviewSubmission(s, approved)
      PROVE  TypeOK'
  BY <1>6, Reviewed, UpdateStep
<1> QED BY <1>1, <1>2, <1>3, <1>4, <1>5, <1>6 DEF Next, CreateSubmission

\* The states of submissions and operations are those the code gives them.
THEOREM SubmissionTypeOK == Spec => []TypeOK
BY TypeInit, TypeStep, PTL DEF Spec

------------------------------------------------------------------------------
LEMMA InvInit == Init => IInv
<1> SUFFICES ASSUME Init PROVE SettledTogether /\ HandlerOwnsId
  BY TypeInit DEF IInv
<1> QED BY FormType DEF Init, SettledTogether, HandlerOwnsId, Settled, NoSubmission,
               Ops!OperationsInit, Ops!NoOperation

LEMMA InvStep ==
  ASSUME DistinctIds, IInv, [Next]_vars
  PROVE  IInv'
<1> USE FormType
<1> SUFFICES SettledTogether' /\ HandlerOwnsId'
  BY TypeStep DEF IInv
<1>1. CASE UNCHANGED vars
  BY <1>1 DEF vars, IInv, SettledTogether, HandlerOwnsId
<1>2. ASSUME NEW d \in DefinitionId,
             CreatePresentationDefinition(d) \/ DeletePresentationDefinition(d)
      PROVE  SettledTogether' /\ HandlerOwnsId'
  BY <1>2 DEF CreatePresentationDefinition, DeletePresentationDefinition, IInv,
              SettledTogether, HandlerOwnsId
<1>3. ASSUME NEW r \in Request, LookupSubmission(r) \/ LookupDefinition(r) \/ Abandon(r)
      PROVE  SettledTogether' /\ HandlerOwnsId'
  <2>1. UNCHANGED <<submissions, operations>>
    BY <1>3 DEF LookupSubmission, LookupDefinition, Abandon
  <2>2. \A q \in Request \ {r} : pc'[q] = pc[q]
    BY <1>3, GoToType DEF LookupSubmission, LookupDefinition, Abandon, IInv, Step
  <2>3. CASE LookupSubmission(r)
    <3>1. pc'[r] = "definition" /\ submissions[Form[r].id] = NoSubmission
      BY <2>3, GoToType DEF LookupSubmission, IInv, Step
    <3> QED BY <2>1, <2>2, <3>1 DEF IInv, SettledTogether, HandlerOwnsId
  <2>4. CASE LookupDefinition(r)
    <3>1. pc[r] = "definition" /\ pc'[r] \in {"submission", "failed"}
      BY <2>4, GoToType DEF LookupDefinition, IInv, Step
    <3> QED BY <2>1, <2>2, <3>1 DEF IInv, SettledTogether, HandlerOwnsId
  <2>5. CASE Abandon(r)
    <3>1. pc'[r] = "failed"
      BY <2>5, GoToType DEF Abandon, IInv, Step
    <3> QED BY <2>1, <2>2, <3>1 DEF IInv, SettledTogether, HandlerOwnsId
  <2> QED BY <1>3, <2>3, <2>4, <2>5
<1>4. ASSUME NEW r \in Request, StoreSubmission(r)
      PROVE  SettledTogether' /\ HandlerOwnsId'
  <2> DEFINE s == Form[r].id
  <2>1. /\ pc[r] = "submission"
        /\ pc'[r] = "operation"
        /\ \A q \in Request \ {r} : pc'[q] = pc[q]
        /\ submissions[s] = NoSubmission
        /\ operations[s].state = "absent"
        /\ operations' = operations
    BY <1>4, GoToType DEF StoreSubmission, IInv, HandlerOwnsId, Step
  <2>2. /\ submissions'[s] = "pending"
        /\ \A t \in SubmissionId \ {s} : submissions'[t] = submissions[t]
    BY <1>4 DEF StoreSubmission, IInv, TypeOK
  <2>3. SettledTogether'
    BY <2>1, <2>2 DEF IInv, SettledTogether, Settled
  <2>4. \A q \in Request \ {r} : Form[q].id # s
    BY DEF DistinctIds
  <2>5. HandlerOwnsId'
    <3> HIDE DEF s
    <3>1. \A t \in SubmissionId :
            submissions'[t] = NoSubmission => operations'[t].state = "absent"
      BY <2>1, <2>2 DEF IInv, HandlerOwnsId
    <3>2. \A q \in Request \ {r} :
            /\ pc'[q] = pc[q]
            /\ submissions'[Form[q].id] = submissions[Form[q].id]
            /\ operations'[Form[q].id] = operations[Form[q].id]
      BY <2>1, <2>2, <2>4
    <3>3. /\ submissions'[Form[r].id] = "pending"
          /\ operations'[Form[r].id].state = "absent"
      BY <2>1, <2>2 DEF s
    <3> QED BY <2>1, <3>1, <3>2, <3>3 DEF IInv, HandlerOwnsId
  <2> QED BY <2>3, <2>5
<1>5. ASSUME NEW r \in Request, StoreOperation(r)
      PROVE  SettledTogether' /\ HandlerOwnsId'
  <2> DEFINE s == Form[r].id
  <2>1. /\ pc'[r] = "idle"
        /\ \A q \in Request \ {r} : pc'[q] = pc[q]
        /\ submissions[s] = "pending"
        /\ submissions' = submissions
    BY <1>5, GoToType DEF StoreOperation, IInv, HandlerOwnsId, Step
  <2>2. /\ operations'[s].state = "running"
        /\ \A t \in SubmissionId \ {s} : operations'[t] = operations[t]
    BY <1>5 DEF StoreOperation, Ops!StoreOperation, IInv, TypeOK, Ops!OperationsTypeOK
  <2>3. SettledTogether'
    BY <2>1, <2>2 DEF IInv, SettledTogether, Settled
  <2>4. \A q \in Request \ {r} : Form[q].id # s
    BY DEF DistinctIds
  <2>5. HandlerOwnsId'
    <3> HIDE DEF s
    <3>1. \A t \in SubmissionId :
            submissions'[t] = NoSubmission => operations'[t].state = "absent"
      BY <2>1, <2>2 DEF IInv, HandlerOwnsId, NoSubmission
    <3>2. \A q \in Request \ {r} :
            /\ pc'[q] = pc[q]
            /\ submissions'[Form[q].id] = submissions[Form[q].id]
            /\ operations'[Form[q].id] = operations[Form[q].id]
      BY <2>1, <2>2, <2>4
    <3> QED BY <2>1, <3>1, <3>2 DEF IInv, HandlerOwnsId
  <2> QED BY <2>3, <2>5
<1>6. ASSUME NEW s \in SubmissionId,
             CancelOperation(s) \/ \E approved \in BOOLEAN : ReviewSubmission(s, approved)
      PROVE  SettledTogether' /\ HandlerOwnsId'
  <2>1. PICK status \in Settled : UpdateValueAndOperation(s, status)
    BY <1>6, Reviewed
  <2>2. /\ pc' = pc
        /\ submissions[s] # NoSubmission
        /\ operations[s].state = "running"
        /\ submissions'[s] = status
        /\ operations'[s] = [state |-> "done", response |-> status]
        /\ \A t \in SubmissionId \ {s} :
             submissions'[t] = submissions[t] /\ operations'[t] = operations[t]
    BY <2>1, UpdateStep DEF IInv, TypeOK, Ops!OperationsTypeOK
  <2>3. SettledTogether'
    BY <2>2 DEF IInv, SettledTogether
  <2>4. \A q \in Request : Running(q) => Form[q].id # s
    BY <2>2 DEF IInv, HandlerOwnsId, TypeOK, Step, Running
  <2>5. HandlerOwnsId'
    BY <2>2, <2>4 DEF IInv, HandlerOwnsId, Settled, NoSubmission, Running
  <2> QED BY <2>3, <2>5
<1> QED BY <1>1, <1>2, <1>3, <1>4, <1>5, <1>6 DEF Next, CreateSubmission

\* A submission is settled exactly when its operation is, with the same status,
\* and a handler that has not finished owns its submission's id.
THEOREM SubmissionInvariant ==
  ASSUME DistinctIds
  PROVE  Spec => []IInv
<1>1. Init => IInv
  BY InvInit
<1>2. IInv /\ [Next]_vars => IInv'
  BY InvStep
<1> QED BY <1>1, <1>2, PTL DEF Spec

\* A submission and its operation are settled together, and a handler works on a
\* submission of its own (service/presentation/service.go, storage.go).
THEOREM SubmissionsSettledTogether ==
  ASSUME DistinctIds
  PROVE  Spec => [](SettledTogether /\ HandlerOwnsId)
<1>1. IInv => SettledTogether /\ HandlerOwnsId
  BY DEF IInv
<1> QED BY <1>1, SubmissionInvariant, PTL

------------------------------------------------------------------------------
PolledAs == [s \in SubmissionId |-> Ops!Polled(s)]

LEMMA PromiseInit == Init => Promise!VerdictInit
<1> SUFFICES ASSUME Init PROVE PolledAs = [s \in SubmissionId |-> <<"unknown">>]
  BY DEF Promise!VerdictInit, Promise!Unknown, PolledAs
<1>1. \A s \in SubmissionId : operations[s].state = "absent"
  BY DEF Init, Ops!OperationsInit, Ops!NoOperation
<1>2. \A s \in SubmissionId : Ops!Polled(s) = <<"unknown">>
  BY <1>1 DEF Ops!Polled
<1> QED BY <1>2 DEF PolledAs

\* A write of one operation's record changes what is polled of that one only.
LEMMA PolledUpdate ==
  ASSUME Ops!OperationsTypeOK, NEW s \in SubmissionId, NEW new,
         operations' = [operations EXCEPT ![s] = new]
  PROVE  PolledAs' = [PolledAs EXCEPT ![s] = Ops!Polled(s)']
BY DEF Ops!OperationsTypeOK, PolledAs, Ops!Polled

LEMMA PromiseStep ==
  ASSUME IInv, [Next]_vars
  PROVE  [Promise!VerdictNext]_PolledAs
<1> USE FormType
<1>1. CASE operations' = operations
  BY <1>1 DEF PolledAs, Ops!Polled
<1>2. ASSUME NEW r \in Request, StoreOperation(r)
      PROVE  Promise!VerdictNext
  <2> DEFINE s == Form[r].id
  <2>1. operations' = [operations EXCEPT ![s] = [state |-> "running", response |-> "no response"]]
    BY <1>2 DEF StoreOperation, Ops!StoreOperation
  <2>2. operations[s].state = "absent"
    BY <1>2 DEF StoreOperation, IInv, HandlerOwnsId
  <2>3. operations'[s].state = "running"
    BY <2>1 DEF IInv, TypeOK, Ops!OperationsTypeOK
  <2>4. Ops!Polled(s) = <<"unknown">> /\ Ops!Polled(s)' = <<"undecided">>
    BY <2>2, <2>3 DEF Ops!Polled
  <2>5. PolledAs' = [PolledAs EXCEPT ![s] = <<"undecided">>] /\ PolledAs[s] = <<"unknown">>
    BY <2>1, <2>4, PolledUpdate DEF PolledAs, IInv, TypeOK
  <2>6. Promise!Open(s)
    BY <2>5 DEF Promise!Open, Promise!Unknown, Promise!Undecided, PolledAs
  <2> QED BY <2>6 DEF Promise!VerdictNext
<1>3. ASSUME NEW s \in SubmissionId,
             CancelOperation(s) \/ \E approved \in BOOLEAN : ReviewSubmission(s, approved)
      PROVE  Promise!VerdictNext
  <2>1. PICK status \in Settled : UpdateValueAndOperation(s, status)
    BY <1>3, Reviewed
  <2>2. /\ operations[s].state = "running"
        /\ operations' = [operations EXCEPT ![s] = [state |-> "done", response |-> status]]
    BY <2>1, UpdateStep DEF IInv
  <2>3. operations'[s] = [state |-> "done", response |-> status]
    BY <2>2 DEF IInv, TypeOK, Ops!OperationsTypeOK
  <2>4. Ops!Polled(s) = <<"undecided">> /\ Ops!Polled(s)' = <<"settled", status>>
    BY <2>2, <2>3 DEF Ops!Polled
  <2>5. PolledAs' = [PolledAs EXCEPT ![s] = <<"settled", status>>] /\ PolledAs[s] = <<"undecided">>
    BY <2>2, <2>4, PolledUpdate DEF PolledAs, IInv, TypeOK
  <2>6. Promise!Settle(s, status)
    BY <2>5 DEF Promise!Settle, Promise!Unknown, Promise!Undecided, Promise!Settled, PolledAs
  <2> QED BY <2>6 DEF Promise!VerdictNext
<1>4. CASE ~UNCHANGED operations
  <2>1. Next /\ ~UNCHANGED operations
    BY <1>4 DEF vars
  <2>2. \/ \E r \in Request : StoreOperation(r)
        \/ \E s \in SubmissionId :
             CancelOperation(s) \/ \E approved \in BOOLEAN : ReviewSubmission(s, approved)
    BY <2>1 DEF Next, CreateSubmission, CreatePresentationDefinition,
                DeletePresentationDefinition, LookupSubmission, LookupDefinition,
                StoreSubmission, Abandon
  <2> QED BY <2>2, <1>2, <1>3
<1> QED BY <1>1, <1>4

\* Whoever polls a submission's operation sees it settled once, for good.
THEOREM SubmissionsImplementVerdict ==
  ASSUME DistinctIds
  PROVE  Spec => ImplementsVerdict
<1>1. Init => Promise!VerdictInit
  BY PromiseInit
<1>2. IInv /\ [Next]_vars => [Promise!VerdictNext]_PolledAs
  BY PromiseStep
<1> QED BY <1>1, <1>2, SubmissionInvariant, PTL
        DEF Spec, ImplementsVerdict, Promise!VerdictSpec, PolledAs

------------------------------------------------------------------------------
\* The routes.
LEMMA ListStep ==
  ASSUME NEW collection, ListRoute(collection)
  PROVE  UNCHANGED vars
BY DEF ListRoute, FirstPage, NextPage, List, vars

\* A review that is accepted and a cancellation are the service's.
LEMMA StatusStep == StatusRoutes => [Next]_vars
<1> SUFFICES ASSUME NEW s \in SubmissionId,
                    GetSubmission(s) \/ GetOperation(s) \/ CancelRoute(s) \/ Reviews(s)
             PROVE  [Next]_vars
  BY DEF StatusRoutes
<1>1. CASE GetSubmission(s) \/ GetOperation(s)
  BY <1>1 DEF GetSubmission, GetOperation
<1>2. CASE CancelRoute(s)
  BY <1>2 DEF CancelRoute, Next
<1>3. CASE Reviews(s)
  <2> SUFFICES ASSUME NEW approved \in BOOLEAN,
                      ReviewRoute(s, approved) \/ RefuseReview(s, approved)
               PROVE  [Next]_vars
    BY <1>3 DEF Reviews
  <2>1. CASE ReviewRoute(s, approved)
    BY <2>1 DEF ReviewRoute, Next
  <2>2. CASE RefuseReview(s, approved)
    BY <2>2 DEF RefuseReview
  <2> QED BY <2>1, <2>2
<1> QED BY <1>1, <1>2, <1>3

LEMMA ApiStep == [ApiNext]_<<vars, apiVars>> => [Next]_vars
<1>1. CASE DefinitionRoutes \/ CreateSubmissionRoute
  BY <1>1 DEF DefinitionRoutes, CreateSubmissionRoute, Next
<1>2. CASE CreateRequestRoute
  BY <1>2 DEF CreateRequestRoute, ReadForRequest, StoreRequest
<1>3. CASE \E q \in RequestId : DeleteRequest(q)
  BY <1>3 DEF DeleteRequest
<1>4. CASE StatusRoutes
  BY <1>4, StatusStep
<1>5. CASE ListSubmissions \/ ListOperations
  BY <1>5, ListStep DEF ListSubmissions, ListOperations
<1>6. CASE UNCHANGED <<vars, apiVars>>
  BY <1>6
<1> QED BY <1>1, <1>2, <1>3, <1>4, <1>5, <1>6 DEF ApiNext

\* Every behaviour of the routes is one of the service (server/router/presentation.go
\* and operation.go add no write of their own to it).
THEOREM ApiImplementsReview == ApiSpec => Spec
<1>1. ApiInit => Init
  BY DEF ApiInit
<1> QED BY <1>1, ApiStep, PTL DEF ApiSpec, Spec

\* Whatever clients ask for, in any order, a submission and its operation are
\* settled together and with the same status (core/service/presentation/storage.go:30,
\* core/service/operation/storage.go:29).
THEOREM ApiSettlesTogether == ASSUME DistinctIds PROVE ApiSpec => []SettledTogether
BY ApiImplementsReview, SubmissionsSettledTogether, PTL

------------------------------------------------------------------------------
\* What clients are told: a submission that is settled stays as it is, so that
\* what was told of it stays true.
LEMMA SettledStays ==
  ASSUME IInv, [Next]_vars, NEW s \in SubmissionId, submissions[s] \in Settled
  PROVE  submissions'[s] = submissions[s]
<1>0. operations[s].state = "done" /\ submissions[s] # NoSubmission
  BY DEF IInv, SettledTogether, Settled, NoSubmission
<1>1. ASSUME NEW r \in Request, StoreSubmission(r) PROVE submissions'[s] = submissions[s]
  <2>1. submissions[Form[r].id] = NoSubmission
    BY <1>1 DEF StoreSubmission, IInv, HandlerOwnsId
  <2> QED BY <1>0, <1>1, <2>1 DEF StoreSubmission, IInv, TypeOK
<1>2. ASSUME NEW t \in SubmissionId,
             CancelOperation(t) \/ \E approved \in BOOLEAN : ReviewSubmission(t, approved)
      PROVE  submissions'[s] = submissions[s]
  <2>1. PICK status \in Settled : UpdateValueAndOperation(t, status)
    BY <1>2, Reviewed
  <2>2. operations[t].state = "running" /\ submissions' = [submissions EXCEPT ![t] = status]
    BY <2>1, UpdateStep DEF IInv
  <2> QED BY <1>0, <2>2 DEF IInv, TypeOK
<1>3. CASE UNCHANGED submissions
  BY <1>3
<1>4. CASE ~UNCHANGED submissions
  <2>1. \/ \E r \in Request : StoreSubmission(r)
        \/ \E t \in SubmissionId :
             CancelOperation(t) \/ \E approved \in BOOLEAN : ReviewSubmission(t, approved)
    BY <1>4 DEF Next, vars, CreateSubmission, CreatePresentationDefinition,
       DeletePresentationDefinition, LookupSubmission, LookupDefinition, StoreOperation, Abandon
  <2> QED BY <1>1, <1>2, <2>1
<1> QED BY <1>3, <1>4

ToldInv ==
  /\ told \in [SubmissionId -> Status \cup {NoSubmission}]
  /\ \A s \in SubmissionId : told[s] \in Settled => submissions[s] = told[s]

\* A route tells of one submission, a page of several, and what is told as settled
\* is settled by then.
LEMMA TellStep ==
  ASSUME IInv, IInv', ToldInv, ApiNext
  PROVE  /\ told' \in [SubmissionId -> Status \cup {NoSubmission}]
         /\ \A s \in SubmissionId : told'[s] \in {told[s], submissions'[s]}
<1>0. /\ told \in [SubmissionId -> Status \cup {NoSubmission}]
      /\ submissions \in [SubmissionId -> Status \cup {NoSubmission}]
      /\ \A t \in SubmissionId :
           operations[t].state = "done" => operations[t].response = submissions[t]
  BY DEF ToldInv, IInv, TypeOK, SettledTogether
<1>1. ASSUME UNCHANGED told
      PROVE  /\ told' \in [SubmissionId -> Status \cup {NoSubmission}]
             /\ \A s \in SubmissionId : told'[s] \in {told[s], submissions'[s]}
  BY <1>0, <1>1
<1>2. ASSUME NEW t \in SubmissionId, Tell(t, submissions'[t])
      PROVE  /\ told' \in [SubmissionId -> Status \cup {NoSubmission}]
             /\ \A s \in SubmissionId : told'[s] \in {told[s], submissions'[s]}
  <2>1. submissions'[t] \in Status \cup {NoSubmission}
    BY DEF IInv, TypeOK
  <2>2. told' = [told EXCEPT ![t] = submissions'[t]]
    BY <1>2 DEF Tell
  <2> QED BY <1>0, <2>1, <2>2
<1>3. ASSUME NEW t \in SubmissionId, GetSubmission(t) PROVE Tell(t, submissions'[t])
  BY <1>3 DEF GetSubmission, vars, Tell
<1>4. ASSUME NEW t \in SubmissionId, GetOperation(t) PROVE Tell(t, submissions'[t])
  <2>1. operations[t].state = "done" /\ Tell(t, operations[t].response) /\ UNCHANGED submissions
    BY <1>4 DEF GetOperation, vars
  <2>2. operations[t].response = submissions'[t]
    BY <1>0, <2>1
  <2> QED BY <2>1, <2>2 DEF Tell
<1>5. ASSUME NEW t \in SubmissionId, CancelRoute(t) PROVE Tell(t, submissions'[t])
  <2>1. UpdateValueAndOperation(t, "cancelled") /\ Tell(t, "cancelled")
    BY <1>5 DEF CancelRoute, CancelOperation
  <2>2. submissions'[t] = "cancelled"
    BY <1>0, <2>1 DEF UpdateValueAndOperation
  <2> QED BY <2>1, <2>2 DEF Tell
<1>6. ASSUME NEW t \in SubmissionId, NEW approved \in BOOLEAN,
             ReviewRoute(t, approved) \/ RefuseReview(t, approved)
      PROVE  UNCHANGED told \/ Tell(t, submissions'[t])
  BY <1>6 DEF ReviewRoute, RefuseReview, Tell
<1>7. CASE StatusRoutes
  <2>1. PICK t \in SubmissionId : GetSubmission(t) \/ GetOperation(t) \/ CancelRoute(t) \/ Reviews(t)
    BY <1>7 DEF StatusRoutes
  <2>2. UNCHANGED told \/ Tell(t, submissions'[t])
    BY <1>3, <1>4, <1>5, <1>6, <2>1 DEF Reviews
  <2> QED BY <1>1, <1>2, <2>2
<1>8. CASE ListSubmissions \/ ListOperations
  <2>1. PICK query, size, token, given :
          query \in Query /\ size \in PageSize /\ List(query, token, size, given)
    BY <1>8 DEF ListSubmissions, ListOperations, ListRoute, FirstPage, NextPage
  <2> DEFINE page == {t \in Page(query, token, size) : Included(query, t)}
  <2>2. /\ told' = [t \in SubmissionId |-> IF t \in page THEN ToldBy(query[1], t) ELSE told[t]]
        /\ UNCHANGED submissions
    BY <2>1 DEF List, vars
  <2> HIDE DEF page
  <2>3. \A t \in SubmissionId :
          /\ ToldBy(query[1], t) \in Status \cup {NoSubmission}
          /\ ToldBy(query[1], t) \in {submissions[t], told[t]}
    BY <1>0 DEF ToldBy
  <2>4. told' \in [SubmissionId -> Status \cup {NoSubmission}]
    BY <1>0, <2>2, <2>3
  <2>5. \A s \in SubmissionId : told'[s] \in {submissions[s], told[s]}
    BY <2>2, <2>3
  <2> QED BY <2>2, <2>4, <2>5
<1>9. CASE \/ DefinitionRoutes /\ UNCHANGED <<requests, told, listing, denials>>
           \/ CreateSubmissionRoute /\ UNCHANGED <<requests, told, listing, denials>>
           \/ CreateRequestRoute
           \/ \E q \in RequestId : DeleteRequest(q)
  <2>1. UNCHANGED told
    BY <1>9 DEF CreateRequestRoute, ReadForRequest, StoreRequest, DeleteRequest
  <2> QED BY <1>1, <2>1
<1> QED BY <1>7, <1>8, <1>9 DEF ApiNext

LEMMA ToldStep ==
  ASSUME IInv, IInv', ToldInv, [ApiNext]_<<vars, apiVars>>
  PROVE  ToldInv' /\ \A s \in SubmissionId : told[s] \in Settled => told'[s] = told[s]
<1>1. \A s \in SubmissionId : submissions[s] \in Settled => submissions'[s] = submissions[s]
  BY ApiStep, SettledStays
<1>2. CASE UNCHANGED <<vars, apiVars>>
  BY <1>2 DEF ToldInv, vars, apiVars
<1>3. CASE ApiNext
  <2>1. \A s \in SubmissionId : told'[s] \in {told[s], submissions'[s]}
    BY <1>3, TellStep
  <2>2. \A s \in SubmissionId : told[s] \in Settled => told'[s] = told[s]
    BY <1>1, <2>1 DEF ToldInv
  <2>3. \A s \in SubmissionId : told'[s] \in Settled => submissions'[s] = told'[s]
    BY <1>1, <2>1 DEF ToldInv
  <2>4. told' \in [SubmissionId -> Status \cup {NoSubmission}]
    BY <1>3, TellStep
  <2> QED BY <2>2, <2>3, <2>4 DEF ToldInv
<1> QED BY <1>2, <1>3

\* What a client was told is settled in the store too (server/router/presentation.go).
THEOREM ApiToldInvariant == ASSUME DistinctIds PROVE ApiSpec => []ToldInv
<1>1. ApiInit => ToldInv
  BY DEF ApiInit, ToldInv, Settled, NoSubmission
<1>2. IInv /\ IInv' /\ ToldInv /\ [ApiNext]_<<vars, apiVars>> => ToldInv'
  BY ToldStep
<1> QED BY <1>1, <1>2, ApiImplementsReview, SubmissionInvariant, PTL DEF ApiSpec

\* No client is told two things of one settled submission, by the submission, its
\* operation, a page of either, a review or a cancellation, in any order of
\* requests (core/server/router/presentation.go, operation.go).
THEOREM ApiToldForGood == ASSUME DistinctIds PROVE ApiSpec => ToldForGood
<1>1. IInv /\ IInv' /\ ToldInv /\ [ApiNext]_<<vars, apiVars>> =>
        [\A s \in SubmissionId : told[s] \in Settled => told'[s] = told[s]]_told
  BY ToldStep
<1> QED BY <1>1, ApiToldInvariant, ApiImplementsReview, SubmissionInvariant, PTL
        DEF ApiSpec, ToldForGood

------------------------------------------------------------------------------
\* Listings.  A set of natural numbers has a least one.
LEMMA Least ==
  ASSUME NEW S, S \subseteq Nat, S # {}
  PROVE  \E i \in S : \A j \in S : i <= j
<1> DEFINE less == OpToRel(<, Nat)
<1>1. IsWellFoundedOn(less, Nat)
  BY NatLessThanWellFounded
<1>2. \A i, j \in Nat : j < i => <<j, i>> \in less
  BY DEF OpToRel
<1> HIDE DEF less
<1>3. \E i \in S : \A j \in S : <<j, i>> \notin less
  BY <1>1, WFMin
<1>4. \A i, j \in S : <<j, i>> \notin less => i <= j
  BY <1>2
<1> QED BY <1>3, <1>4

\* The next token is not behind any record that is left, and is no end as long as
\* one is.
LEMMA TokenOfRest ==
  ASSUME NEW query, NEW token, NEW size, NEW s \in After(query[1], token),
         s \notin Page(query, token, size)
  PROVE  /\ NextPageToken(query, token, size) # End
         /\ Rank[s] >= NextPageToken(query, token, size)
<1> DEFINE rest == After(query[1], token) \ Page(query, token, size)
           ranks == {Rank[t] : t \in rest}
           least(i) == \A t \in rest : i <= Rank[t]
<1>1. s \in rest /\ rest \subseteq SubmissionId
  BY DEF After
<1>2. \A t \in rest : Rank[t] \in Nat \ {0}
  BY <1>1, RankAssumption
<1>3. ranks \subseteq Nat /\ ranks # {}
  BY <1>1, <1>2
<1>4. \E i \in ranks : least(i)
  <2>1. PICK i \in ranks : \A j \in ranks : i <= j
    BY <1>3, Least
  <2> QED BY <2>1
<1> DEFINE first == CHOOSE i \in ranks : least(i)
<1>5. first \in ranks /\ least(first)
  BY <1>4
<1>6. NextPageToken(query, token, size) = first
  BY <1>1 DEF NextPageToken
<1> HIDE DEF first
<1>7. first # 0 /\ Rank[s] >= first
  BY <1>1, <1>2, <1>5
<1> QED BY <1>6, <1>7 DEF End

\* What a listing still owes is given already or lies ahead of its token.
ListInv ==
  /\ owed \subseteq Query \X SubmissionId
  /\ \A x \in owed : Matches(x[1], x[2])
  /\ listing.query = <<>> => listing.token = End
  /\ listing.query # <<>> =>
       \A s \in SubmissionId : <<listing.query, s>> \in owed =>
         s \in listing.given \/ (listing.token # End /\ Rank[s] >= listing.token)

\* A page of a listing, and what is owed of its query after it.
LEMMA PageStep ==
  ASSUME NEW query \in Query, NEW size, NEW token, NEW given, List(query, token, size, given),
         owed' \subseteq Query \X SubmissionId, query # <<>>,
         \A x \in owed' : Matches(x[1], x[2]),
         \A s \in SubmissionId : <<query, s>> \in owed' => s \in given \/ Rank[s] >= token
  PROVE  ListInv'
<1>1. /\ listing' = [query |-> query, token |-> NextPageToken(query, token, size),
                     given |-> given \cup {s \in Page(query, token, size) : Included(query, s)}]
      /\ UNCHANGED <<submissions, operations>>
  BY DEF List, vars
<1>2. listing'.query = query /\ listing'.token = NextPageToken(query, token, size)
  BY <1>1
<1>3. ASSUME NEW s \in SubmissionId, <<query, s>> \in owed'
      PROVE  \/ s \in listing'.given
             \/ listing'.token # End /\ Rank[s] >= listing'.token
  <2>1. Exists(query[1], s) /\ Included(query, s)
    BY <1>3 DEF Matches
  <2>2. CASE s \in given
    BY <1>1, <2>2
  <2>3. CASE s \notin given
    <3>1. s \in After(query[1], token)
      BY <1>3, <2>1, <2>3 DEF After
    <3>2. CASE s \in Page(query, token, size)
      BY <1>1, <2>1, <3>2
    <3>3. CASE s \notin Page(query, token, size)
      BY <1>2, <3>1, <3>3, TokenOfRest
    <3> QED BY <3>2, <3>3
  <2> QED BY <2>2, <2>3
<1>4. \A x \in owed' : Matches(x[1], x[2])'
  BY <1>1 DEF Matches, Exists, Included
<1> QED BY <1>2, <1>3, <1>4 DEF ListInv

LEMMA ListRouteStep ==
  ASSUME ListInv, NEW query \in Query, NEW size, FirstPage(query, size) \/ NextPage(query, size)
  PROVE  ListInv'
<1>0. query # <<>>
  BY QueryAssumption
<1>1. CASE FirstPage(query, size)
  <2>1. /\ List(query, 1, size, {})
        /\ owed' = {x \in Query \X SubmissionId : Matches(x[1], x[2])}
    BY <1>1 DEF FirstPage, OwedFromNow
  <2>2. \A s \in SubmissionId : Rank[s] >= 1
    BY RankAssumption
  <2> QED BY <1>0, <2>1, <2>2, PageStep
<1>2. CASE NextPage(query, size)
  <2>1. /\ query = listing.query /\ List(query, listing.token, size, listing.given)
        /\ owed' = {x \in owed : Matches(x[1], x[2])'}
    BY <1>2 DEF NextPage, SameQuery, StillOwed
  <2>2. /\ owed' \subseteq Query \X SubmissionId
        /\ \A x \in owed' : Matches(x[1], x[2])
        /\ \A s \in SubmissionId : <<query, s>> \in owed' =>
             s \in listing.given \/ Rank[s] >= listing.token
    BY <1>0, <2>1 DEF ListInv
  <2> QED BY <1>0, <2>1, <2>2, PageStep
<1> QED BY <1>1, <1>2

LEMMA ListInvStep == ASSUME ListInv, [ApiNext]_<<vars, apiVars>> PROVE ListInv'
<1>1. CASE UNCHANGED listing /\ StillOwed
  <2>1. owed' \subseteq owed /\ \A x \in owed' : Matches(x[1], x[2])'
    BY <1>1 DEF StillOwed
  <2> QED BY <1>1, <2>1 DEF ListInv
<1>2. CASE StatusRoutes /\ StillOwed
  <2>1. UNCHANGED listing
    BY <1>2 DEF StatusRoutes, Reviews, GetSubmission, GetOperation, CancelRoute, ReviewRoute,
       RefuseReview
  <2> QED BY <1>1, <1>2, <2>1
<1>3. CASE \/ (DefinitionRoutes \/ CreateSubmissionRoute)
                /\ UNCHANGED <<requests, told, listing, denials>> /\ StillOwed
           \/ CreateRequestRoute /\ StillOwed
           \/ (\E q \in RequestId : DeleteRequest(q)) /\ StillOwed
  <2>1. UNCHANGED listing
    BY <1>3 DEF CreateRequestRoute, ReadForRequest, StoreRequest, DeleteRequest
  <2> QED BY <1>1, <1>3, <2>1
<1>4. CASE ListSubmissions \/ ListOperations
  BY <1>4, ListRouteStep DEF ListSubmissions, ListOperations, ListRoute
<1>5. CASE UNCHANGED <<vars, apiVars>>
  BY <1>5 DEF ListInv, Matches, Exists, Included, vars, apiVars
<1> QED BY <1>2, <1>3, <1>4, <1>5 DEF ApiNext

\* Between two pages nothing owed falls behind the token (server/pagination).
THEOREM ApiListInvariant == ApiSpec => []ListInv
<1>1. ApiInit => ListInv
  BY DEF ApiInit, ListInv, NoListing
<1>2. ListInv /\ [ApiNext]_<<vars, apiVars>> => ListInv'
  BY ListInvStep
<1> QED BY <1>1, <1>2, PTL DEF ApiSpec

\* A client that follows the tokens to the end has every record that matched all
\* the while, for any sizes of page, any order of the keys and any changes in
\* between (server/pagination, presentation/storage.go:66, operation/storage.go:105).
THEOREM ApiPagedInFull == ApiSpec => []PagedInFull
<1>1. ListInv => PagedInFull
  BY DEF ListInv, PagedInFull
<1> QED BY <1>1, ApiListInvariant, PTL
==============================================================================
