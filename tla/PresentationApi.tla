--------------------------- MODULE PresentationApi ---------------------------
(***************************************************************************)
(* The routes of presentations and operations over SubmissionReview: what  *)
(* a client may ask for, what it is told, presentation requests, and       *)
(* listings that are read page by page while submissions are made and      *)
(* settled.  A request that is not well formed is answered 400 before it   *)
(* reaches the service and is left out, but for a review.                  *)
(***************************************************************************)
EXTENDS SubmissionReview, Naturals, FiniteSets

CONSTANTS RequestId,   \* presentation requests, under ids of their own
          Query,       \* what is listed: pairs of a collection and a filter
          PageSize,    \* the sizes of a page that are asked for
          Rank         \* Rank[s]: place of s in the order of the keys

ASSUME QueryAssumption ==
  Query \subseteq ({"submissions"} \X ({"all"} \cup Status))
                    \cup ({"operations"} \X {"all", "running", "done"})
ASSUME PageSizeAssumption == PageSize \subseteq Nat \ {0}
ASSUME RankAssumption ==
  /\ Rank \in [SubmissionId -> Nat \ {0}]
  /\ \A s, t \in SubmissionId : Rank[s] = Rank[t] => s = t

VARIABLES requests,    \* requests[q]: "new", a definition being signed, stored or deleted
          told,        \* told[s]: the status a client was told of s last
          listing,     \* the client's listing: its query, page token and entries so far
          owed,        \* history: what matched a query since the listing began
          denials      \* history: submissions a client sent a denial of, to be reviewed

apiVars == <<requests, told, listing, owed, denials>>

End == 0
NoListing == [query |-> <<>>, token |-> End, given |-> {}]

ApiInit ==
  /\ Init
  /\ requests = [q \in RequestId |-> [state |-> "new", definition |-> {}]]
  /\ told = [s \in SubmissionId |-> NoSubmission]
  /\ listing = NoListing
  /\ owed = {}
  /\ denials = {}

Tell(s, status) == told' = [told EXCEPT ![s] = status]

------------------------------------------------------------------------------
\* Presentation requests: the definition is read, put into a token, signed with a
\* key of the key store (external) and stored with the token.
ReadForRequest(q, d) ==
  /\ requests[q].state = "new"
  /\ d \in definitions
  /\ requests' = [requests EXCEPT ![q] = [state |-> "signing", definition |-> {d}]]
  /\ UNCHANGED <<vars, told, listing, denials>>

StoreRequest(q) ==
  /\ requests[q].state = "signing"
  /\ \E state \in {"stored", "failed"} : requests' = [requests EXCEPT ![q].state = state]
  /\ UNCHANGED <<vars, told, listing, denials>>

DeleteRequest(q) ==
  /\ requests[q].state = "stored"
  /\ requests' = [requests EXCEPT ![q].state = "deleted"]
  /\ UNCHANGED <<vars, told, listing, denials>>

------------------------------------------------------------------------------
\* Submissions and operations.
GetSubmission(s) ==
  /\ submissions[s] # NoSubmission
  /\ Tell(s, submissions[s])
  /\ UNCHANGED <<vars, requests, listing, denials>>

\* The response of an operation that is done is the submission.
GetOperation(s) ==
  /\ operations[s].state = "done"
  /\ Tell(s, operations[s].response)
  /\ UNCHANGED <<vars, requests, listing, denials>>

\* A boolean that is "required" must be true: decoding refuses a denial, 400.
Accepted(approved) == approved

ReviewRoute(s, approved) ==
  /\ Accepted(approved)
  /\ ReviewSubmission(s, approved)
  /\ Tell(s, submissions'[s])
  /\ UNCHANGED <<requests, listing, denials>>

RefuseReview(s, approved) ==
  /\ ~Accepted(approved)
  /\ denials' = IF submissions[s] = "pending" /\ Ops!Unfinished(s)
                THEN denials \cup {s} ELSE denials
  /\ UNCHANGED <<vars, requests, told, listing>>

CancelRoute(s) ==
  /\ CancelOperation(s)
  /\ Tell(s, "cancelled")
  /\ UNCHANGED <<requests, listing, denials>>

------------------------------------------------------------------------------
\* Listings.  Filters are evaluated on the records as stored; an empty one lets
\* everything pass.
Exists(collection, s) ==
  IF collection = "submissions" THEN submissions[s] # NoSubmission
  ELSE operations[s].state # "absent"

Included(query, s) ==
  \/ query[2] = "all"
  \/ query[1] = "submissions" /\ submissions[s] = query[2]
  \/ query[1] = "operations" /\ operations[s].state = query[2]

Matches(query, s) == Exists(query[1], s) /\ Included(query, s)

After(collection, token) == {s \in SubmissionId : Exists(collection, s) /\ Rank[s] >= token}

\* ReadPage of `size` entries from the token on; the filter is applied to them.
Page(query, token, size) ==
  LET here == After(query[1], token)
  IN {s \in here : Cardinality({t \in here : Rank[t] < Rank[s]}) < size}

NextPageToken(query, token, size) ==
  LET rest == After(query[1], token) \ Page(query, token, size)
  IN IF rest = {} THEN End ELSE CHOOSE i \in {Rank[s] : s \in rest} : \A s \in rest : i <= Rank[s]

\* A submission is told of with its status, a running operation with nothing.
ToldBy(collection, s) ==
  IF collection = "submissions" THEN submissions[s]
  ELSE IF operations[s].state = "done" THEN operations[s].response ELSE told[s]

List(query, token, size, given) ==
  LET page == {s \in Page(query, token, size) : Included(query, s)}
  IN /\ listing' = [query |-> query, token |-> NextPageToken(query, token, size),
                    given |-> given \cup page]
     /\ told' = [s \in SubmissionId |-> IF s \in page THEN ToldBy(query[1], s) ELSE told[s]]
     /\ UNCHANGED <<vars, requests, denials>>

\* What matched at the first page of the listing and ever since.
StillOwed == owed' = {x \in owed : Matches(x[1], x[2])'}
OwedFromNow == owed' = {x \in Query \X SubmissionId : Matches(x[1], x[2])}

FirstPage(query, size) == List(query, 1, size, {}) /\ OwedFromNow

\* MUTANT of SameQuery: a token is good for any query.
SameQuery_Any(query) == TRUE

\* A token carries the query it was made for.
SameQuery(query) == query = listing.query

NextPage(query, size) ==
  /\ listing.token # End
  /\ SameQuery(query)
  /\ List(query, listing.token, size, listing.given)
  /\ StillOwed

------------------------------------------------------------------------------
\* The routes, without those that change nothing and tell nothing of a submission.
DefinitionRoutes ==
  \E d \in DefinitionId :
    CreatePresentationDefinition(d) \/ DeletePresentationDefinition(d)

CreateSubmissionRoute == \E r \in Request : CreateSubmission(r) \/ Abandon(r)

CreateRequestRoute ==
  \E q \in RequestId : StoreRequest(q) \/ \E d \in DefinitionId : ReadForRequest(q, d)

Reviews(s) == \E approved \in BOOLEAN : ReviewRoute(s, approved) \/ RefuseReview(s, approved)

StatusRoutes ==
  \E s \in SubmissionId : GetSubmission(s) \/ GetOperation(s) \/ CancelRoute(s) \/ Reviews(s)

ListRoute(collection) ==
  \E query \in Query, size \in PageSize :
    query[1] = collection /\ (FirstPage(query, size) \/ NextPage(query, size))

ListSubmissions == ListRoute("submissions")
ListOperations == ListRoute("operations")

ApiNext ==
  \/ /\ DefinitionRoutes \/ CreateSubmissionRoute
     /\ UNCHANGED <<requests, told, listing, denials>>
     /\ StillOwed
  \/ CreateRequestRoute /\ StillOwed
  \/ (\E q \in RequestId : DeleteRequest(q)) /\ StillOwed
  \/ StatusRoutes /\ StillOwed
  \/ ListSubmissions
  \/ ListOperations

ApiSpec == ApiInit /\ [][ApiNext]_<<vars, apiVars>>

\* The Go scheduler runs a handler that has started to its end.
ApiFairSpec ==
  ApiSpec /\ \A r \in Request :
    WF_<<vars, apiVars>>(HandlerStep(r) /\ UNCHANGED <<requests, told, listing, denials>> /\ StillOwed)

------------------------------------------------------------------------------
\* A client that follows the tokens of a listing to its end has been given every
\* record that matched the query all the while, although a page is filtered after
\* it is read, records are settled in between and the client may ask for another
\* query on the way (server/pagination, presentation/storage.go:66,
\* operation/storage.go:105).
PagedInFull ==
  listing.query # <<>> /\ listing.token = End =>
    \A s \in SubmissionId : <<listing.query, s>> \in owed => s \in listing.given

\* Once a client was told that a submission is settled, be it by the submission, its
\* operation, a page of either, a review or a cancellation, it is never told
\* anything else of it.
ToldForGood ==
  [][\A s \in SubmissionId : told[s] \in Settled => told'[s] = told[s]]_told

\* "After this method is called, the operation [...] will be updated with the result
\* of this invocation": a review of a submission that could be reviewed has
\* finished its operation.
ReviewUpdatesOperation == \A s \in denials : ~Ops!Unfinished(s)
==============================================================================
