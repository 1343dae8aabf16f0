------------------------------ MODULE ManifestApi -----------------------------
(***************************************************************************)
(* The routes of manifests, issuance templates and applications over       *)
(* ManifestReview: what a client may ask for, which handlers answer it and *)
(* what it is told of an application, and manifest requests.  A request    *)
(* that is not well formed, and one without its id, is answered 400 before *)
(* it reaches the service and is left out.                                 *)
(***************************************************************************)
EXTENDS ManifestReview

CONSTANTS RequestId   \* manifest requests that are kept at the same time

VARIABLES requests,   \* requests[q]: none, or a manifest that is being signed or stored
          told,       \* told[a]: what a client was told last that settled application a
          reopened    \* history: applications with an operation that a submission
                      \* wrote since a client was told what it led to

apiVars == <<requests, told, reopened>>

NoRequest == [state |-> "none", manifest |-> {}]
NotTold == [kind |-> "none", response |-> 0]

ApiInit ==
  /\ Init
  /\ requests = [q \in RequestId |-> NoRequest]
  /\ told = [a \in Application |-> NotTold]
  /\ reopened = {}

Tell(a, result) ==
  /\ told' = [told EXCEPT ![a] = result]
  /\ reopened' = reopened \ {a}

------------------------------------------------------------------------------
\* Manifest requests: the manifest is read, put into a token, signed with a key of
\* the key store (external), and stored with the token under a new id.
ReadForRequest(q, m) ==
  /\ requests[q] = NoRequest
  /\ manifests[m] = "stored"
  /\ requests' = [requests EXCEPT ![q] = [state |-> "signing", manifest |-> {m}]]
  /\ UNCHANGED <<vars, told, reopened>>

StoreRequest(q) ==
  /\ requests[q].state = "signing"
  /\ \/ requests' = [requests EXCEPT ![q].state = "stored"]
     \/ requests' = [requests EXCEPT ![q] = NoRequest]
  /\ UNCHANGED <<vars, told, reopened>>

DeleteRequest(q) ==
  /\ requests[q].state = "stored"
  /\ requests' = [requests EXCEPT ![q] = NoRequest]
  /\ UNCHANGED <<vars, told, reopened>>

CreateRequest(q) == (\E m \in Manifest : ReadForRequest(q, m)) \/ StoreRequest(q)

------------------------------------------------------------------------------
\* Routes of the operators.
ManifestRoutes == \E m \in Manifest : CreateManifest(m) \/ DeleteManifest(m)

IssuanceRoutes == \E m \in Manifest : CreateIssuanceTemplate(m) \/ DeleteIssuanceTemplate(m)

DeleteRoutes ==
  \/ \E a \in Application : DeleteApplication(a)
  \/ \E i \in ResponseId : DeleteResponse(i)

\* MUTANT of Concludes: a review is answered before its last transaction.
Concludes_Early(h) == pc[h] = "denial" \/ pc[h] = "response"

\* The last step of a handler that has a result to tell: a denial, or the response
\* that was just stored.  A submission without a template is answered with an
\* operation that is running, whatever became of it.
Concludes(h) == pc[h] = "denial" \/ (pc[h] = "finish" /\ pc'[h] = "idle")

ResultOf(h) == IF pc[h] = "denial" THEN Denial ELSE Responded(task[h].response)

\* An answer may get lost on its way to the client.
Answered(h) ==
  /\ HandlerStep(h)
  /\ LET a == task[h].application
     IN \/ Concludes(h) /\ Tell(a, ResultOf(h))
        \/ /\ reopened' = IF pc[h] \in {"denial", "operation"} THEN reopened \cup {a} ELSE reopened
           /\ UNCHANGED told
  /\ UNCHANGED requests

\* SubmitApplication with an application that could be read from its token.
SubmitApplication(s) ==
  \/ (\E a \in Application : ProcessApplicationSubmission(s, a)) /\ UNCHANGED apiVars
  \/ Answered(s)

\* ReviewApplication: a denial is as good as an approval.
ReviewApplicationRoute(v) ==
  \/ /\ \E a \in Application, approved \in BOOLEAN : ReadApplication(v, a, approved)
     /\ UNCHANGED apiVars
  \/ Answered(v)

CancelRoute(a) == CancelOperation(a) /\ Tell(a, Cancelled) /\ UNCHANGED requests

\* The operation of an application, by its id or in a listing.
GetOperation(a) ==
  /\ operations[a].state = "done"
  /\ Tell(a, operations[a].response)
  /\ UNCHANGED <<vars, requests>>

ApiNext ==
  \/ (ManifestRoutes \/ IssuanceRoutes \/ DeleteRoutes) /\ UNCHANGED apiVars
  \/ \E q \in RequestId : CreateRequest(q) \/ DeleteRequest(q)
  \/ \E a \in Application : CancelRoute(a) \/ GetOperation(a)
  \/ \E s \in Submitter : SubmitApplication(s)
  \/ \E v \in Reviewer : ReviewApplicationRoute(v)
  \/ \E h \in Handler : Abandon(h) /\ UNCHANGED apiVars

ApiSpec == ApiInit /\ [][ApiNext]_<<vars, apiVars>>

\* The Go scheduler runs a handler that has started to its end.
ApiFairSpec == ApiSpec /\ \A h \in Handler : WF_<<vars, apiVars>>(Answered(h))

------------------------------------------------------------------------------
\* Once a client was told what an application led to - by the answer to its
\* submission, to a review or to a cancellation, or by its operation - it is never
\* told anything else of it, until the application is submitted again and that
\* submission opens the operation or is denied; and then it is told what this led
\* to.  Every one of these races with the others, answers get lost, and a review
\* writes what it decided in three transactions
\* (core/server/router/manifest.go:330-353,577-603, operation.go:70,251).
ToldForGood ==
  [][\A a \in Application :
       told'[a] # told[a] =>
         \/ told[a] = NotTold \/ a \in reopened
         \/ told'[a] = Denial /\ \E s \in Submitter :
              pc[s] = "denial" /\ task[s].application = a /\ pc'[s] = "idle"]_<<told, pc>>
==============================================================================
