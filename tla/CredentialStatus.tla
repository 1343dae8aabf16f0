--------------------------- MODULE CredentialStatus --------------------------
(***************************************************************************)
(* core/service/credential with core/service/schema: credentials of one    *)
(* issuer and schema that can be revoked or suspended, and the status list *)
(* credentials that publish which of them are.  A call is one transaction  *)
(* of the store.  What it reads was committed before, so the requests of a *)
(* batch do not see each other's writes; Bolt lets one writing transaction *)
(* run at a time, Redis runs one again if a key it watches has changed.    *)
(***************************************************************************)
EXTENDS Naturals, FiniteSets

CONSTANTS Engine,        \* storage engines: "bolt", "redis"
          Request,       \* handlers that create credentials or update statuses
          Credential,    \* ids of credentials; a status list takes the id of
                         \* the credential it was created for
          NoList,        \* no status list
          PoolSize,      \* bitStringLength: indexes of a status list
          Shuffle,       \* the orders randomUniqueNum may put the indexes in
          MaxCreate,     \* bound: requests in a batch of creations
          MaxUpdate,     \* bound: requests in a batch of status updates
          CanReset       \* bound: whether statuses are taken back

ASSUME EngineAssumption == Engine \subseteq {"bolt", "redis"}
ASSUME PoolSizeAssumption == PoolSize \in Nat \ {0, 1}
ASSUME NoListAssumption == NoList \notin Credential
ASSUME ShuffleAssumption ==
  \A order \in Shuffle :
    /\ order \in [1..PoolSize -> 1..PoolSize]
    /\ \A i, j \in 1..PoolSize : order[i] = order[j] => i = j
ASSUME CanResetAssumption == CanReset \in BOOLEAN

Purpose == {"revocation", "suspension"}

VARIABLES engine,        \* the engine the service was configured with
          schema,        \* the schema: new, stored or deleted
          credentials,   \* the stored credentials, and what the deleted ones were
          lists,         \* the published status list of each purpose
          pools,         \* its indexes, in the order they are given out
          currentIndex,  \* how many of them were given out
          step,          \* of each handler: idle, watching, open or queued
          request,       \* what it was asked for
          writes,        \* what its transaction will write
          stale          \* handlers with a watched key that was written

stored == <<schema, credentials, lists, pools, currentIndex>>
handlers == <<step, request, writes, stale>>
vars == <<engine, stored, handlers>>

NoRequest == [kind |-> "none"]
Nothing == [x \in {} |-> x]
NoWrites == [credentials |-> Nothing, lists |-> Nothing, pools |-> Nothing,
             currentIndex |-> Nothing]

\* The records of f once those of w are written.
Overwrite(f, w) == [x \in DOMAIN f |-> IF x \in DOMAIN w THEN w[x] ELSE f[x]]

Init ==
  /\ engine \in Engine
  /\ schema = "new"
  /\ credentials = [c \in Credential |->
       [state |-> "new", purpose |-> "revocation", list |-> NoList, index |-> 0,
        revoked |-> FALSE, suspended |-> FALSE]]
  /\ lists = [p \in Purpose |-> [id |-> NoList, purpose |-> p, entries |-> {}]]
  /\ pools = [p \in Purpose |-> <<>>]
  /\ currentIndex = [p \in Purpose |-> 0]
  /\ step = [r \in Request |-> "idle"]
  /\ request = [r \in Request |-> NoRequest]
  /\ writes = [r \in Request |-> NoWrites]
  /\ stale = {}

Stored == {c \in Credential : credentials[c].state = "stored"}

------------------------------------------------------------------------------
\* MUTANT of Watched: a creation watches the list only.
Watched_List(q) == {<<"list", q.purpose>>}

\* MUTANT of Watched: an update watches nothing.
Watched_Creation(q) ==
  IF q.kind = "create" THEN {"list", "pool", "index"} \X {q.purpose} ELSE {}

\* The keys a transaction watches: an update reads the statuses of the other
\* credentials, and watches the key of the list only.
Watched(q) ==
  IF q.kind = "create" THEN {"list", "pool", "index"} \X {q.purpose} ELSE {<<"list", q.purpose>>}

Written(w) ==
  ({"list"} \X DOMAIN w.lists) \cup ({"pool"} \X DOMAIN w.pools)
    \cup ({"index"} \X DOMAIN w.currentIndex)

InTransaction(r) == step[r] \in {"open", "queued"}

\* Whether the store takes another write, or another transaction that writes.
WriterFree == engine = "bolt" => \A r \in Request : ~InTransaction(r)

GoTo(r, next) == step' = [step EXCEPT ![r] = next]

End(r) ==
  /\ GoTo(r, "idle")
  /\ request' = [request EXCEPT ![r] = NoRequest]
  /\ writes' = [writes EXCEPT ![r] = NoWrites]

Open(r) ==
  /\ step[r] = "watching"
  /\ WriterFree
  /\ GoTo(r, "open")
  /\ stale' = stale \ {r}
  /\ UNCHANGED <<engine, stored, request, writes>>

Queue(r, queue) ==
  /\ writes' = [writes EXCEPT ![r] = queue]
  /\ GoTo(r, "queued")
  /\ UNCHANGED <<engine, stored, request, stale>>

Commit(r) ==
  /\ step[r] = "queued" /\ r \notin stale
  /\ credentials' = Overwrite(credentials, writes[r].credentials)
  /\ lists' = Overwrite(lists, writes[r].lists)
  /\ pools' = Overwrite(pools, writes[r].pools)
  /\ currentIndex' = Overwrite(currentIndex, writes[r].currentIndex)
  /\ stale' = stale \cup {q \in Request \ {r} :
       InTransaction(q) /\ Watched(request[q]) \cap Written(writes[r]) # {}}
  /\ End(r)
  /\ UNCHANGED <<engine, schema>>

Retry(r) ==
  /\ step[r] = "queued" /\ r \in stale
  /\ GoTo(r, "watching")
  /\ writes' = [writes EXCEPT ![r] = NoWrites]
  /\ UNCHANGED <<engine, stored, request, stale>>

\* A check fails, the store does, retries end, or the server stops.
Abandon(r) ==
  /\ step[r] # "idle"
  /\ End(r)
  /\ UNCHANGED <<engine, stored, stale>>

------------------------------------------------------------------------------
\* Schemas, under new ids; nothing asks for a schema's credentials.
CreateSchema ==
  /\ schema = "new" /\ WriterFree
  /\ schema' = "stored"
  /\ UNCHANGED <<engine, credentials, lists, pools, currentIndex, handlers>>

DeleteSchema ==
  /\ schema = "stored" /\ WriterFree
  /\ schema' = "deleted"
  /\ UNCHANGED <<engine, credentials, lists, pools, currentIndex, handlers>>

------------------------------------------------------------------------------
\* The list and index of a request to create c: a new list and the first index of
\* its pool, or the next one.
HasList(p) == lists[p].id # NoList

Entry(c, p, order) ==
  [state |-> "stored", purpose |-> p,
   list |-> IF HasList(p) THEN lists[p].id ELSE c,
   index |-> IF HasList(p) THEN pools[p][currentIndex[p] + 1] ELSE order[c][1],
   revoked |-> FALSE, suspended |-> FALSE]

\* IncrementStatusListIndexTx stops at the last index and returns a nil error,
\* so that the request that found it so goes on.
NextIndex(p) ==
  IF ~HasList(p) THEN 1
  ELSE IF currentIndex[p] >= PoolSize - 1 THEN currentIndex[p]
  ELSE currentIndex[p] + 1

\* CreateCredential, and BatchCreateCredentials of requests for one purpose
\* (requests for the other read and write other keys).
CreateCredentials(r, batch, p) ==
  /\ step[r] = "idle" /\ WriterFree
  /\ \A c \in batch : credentials[c].state = "new"
  /\ \A q \in Request : request[q].kind = "create" => request[q].ids \cap batch = {}
  /\ request' = [request EXCEPT ![r] = [kind |-> "create", ids |-> batch, purpose |-> p]]
  /\ GoTo(r, "open")
  /\ stale' = stale \ {r}
  /\ UNCHANGED <<engine, stored, writes>>

\* Each request that finds no list creates one under the same key; the last one
\* written stays.
Missing(p) == {q \in {p} : ~HasList(q)}

Creation(batch, p, order, last) ==
  [credentials |-> [c \in batch |-> Entry(c, p, order)],
   lists |-> [q \in Missing(p) |-> [id |-> last, purpose |-> q, entries |-> {}]],
   pools |-> [q \in Missing(p) |-> order[last]],
   currentIndex |-> [q \in {p} |-> NextIndex(q)]]

\* The schema is resolved before.
QueueCreation(r) ==
  /\ step[r] = "open" /\ request[r].kind = "create"
  /\ schema = "stored"
  /\ \E order \in [request[r].ids -> Shuffle], last \in request[r].ids :
       Queue(r, Creation(request[r].ids, request[r].purpose, order, last))

------------------------------------------------------------------------------
\* The credentials in the list an update of c to a new status publishes.
Listed(c, status) ==
  {d \in Stored \ {c} :
     \/ status.revoked /\ credentials[d].revoked
     \/ ~status.revoked /\ status.suspended /\ credentials[d].suspended}
  \cup (IF status.revoked \/ status.suspended THEN {c} ELSE {})

PurposeOf(status) == IF status.suspended THEN "suspension" ELSE "revocation"

\* GenerateStatusList2021Credential refuses credentials of another purpose than
\* the list's and two with the same index.
CanGenerate(cs, purpose) ==
  /\ \A c \in cs : credentials[c].purpose = purpose
  /\ \A c, d \in cs : credentials[c].index = credentials[d].index => c = d

Same(c, status) ==
  credentials[c].revoked = status.revoked /\ credentials[c].suspended = status.suspended

\* MUTANT of Published: the list takes the id of the credential, not its own.
Published_OtherId(c, status) ==
  [p \in {credentials[c].purpose} |->
    [id |-> c, purpose |-> PurposeOf(status),
     entries |-> {credentials[d].index : d \in Listed(c, status)}]]

\* The list is written under the key of the credential's purpose, with the id
\* the credential carries.
Published(c, status) ==
  [p \in {credentials[c].purpose} |->
    [id |-> credentials[c].list, purpose |-> PurposeOf(status),
     entries |-> {credentials[d].index : d \in Listed(c, status)}]]

\* UpdateCredentialStatus, and BatchUpdateCredentialStatus of credentials with one
\* purpose: update[c] is the status asked for c.  The key to watch is found before
\* the transaction begins.
UpdateStatuses(r, update) ==
  /\ step[r] = "idle"
  /\ \E p \in Purpose :
       /\ \A c \in DOMAIN update : c \in Stored /\ credentials[c].purpose = p
       /\ request' = [request EXCEPT ![r] = [kind |-> "update", statuses |-> update, purpose |-> p]]
  /\ GoTo(r, "watching")
  /\ UNCHANGED <<engine, stored, writes, stale>>

\* MUTANT of Found: the credential that was read for the key to watch is used.
Found_Before(c) == TRUE

\* The credential is read again within the transaction.
Found(c) == c \in Stored

\* Those that change nothing write nothing, and the list of the last one that does
\* stays.
Changed(update) == {c \in DOMAIN update : ~Same(c, update[c])}

Update(update, last) ==
  [credentials |-> [c \in Changed(update) |->
     [credentials[c] EXCEPT !.state = "stored", !.revoked = update[c].revoked,
                            !.suspended = update[c].suspended]],
   lists |-> Published(last, update[last]), pools |-> Nothing, currentIndex |-> Nothing]

\* All requests succeed or nothing is written.
QueueUpdate(r) ==
  /\ step[r] = "open" /\ request[r].kind = "update"
  /\ LET update == request[r].statuses
     IN /\ \A c \in DOMAIN update :
             Found(c) /\ ~(update[c].revoked /\ update[c].suspended)
        /\ \A c \in Changed(update) : CanGenerate(Listed(c, update[c]), PurposeOf(update[c]))
        /\ \E last \in Changed(update) : Queue(r, Update(update, last))

\* No route deletes a status list.
DeleteCredential(c) ==
  /\ credentials[c].state = "stored" /\ WriterFree
  /\ credentials' = [credentials EXCEPT ![c].state = "deleted"]
  /\ UNCHANGED <<engine, schema, lists, pools, currentIndex, handlers>>

------------------------------------------------------------------------------
Status == [revoked : BOOLEAN, suspended : BOOLEAN]

Resets(update) ==
  \E c \in DOMAIN update : ~update[c].revoked /\ ~update[c].suspended

Batches(n) == {batch \in SUBSET Credential : batch # {} /\ Cardinality(batch) <= n}

CreateRoutes(r) ==
  \/ \E batch \in Batches(MaxCreate), p \in Purpose : CreateCredentials(r, batch, p)
  \/ QueueCreation(r)

StatusRoutes(r) ==
  \/ \E batch \in Batches(MaxUpdate) :
       \E update \in [batch -> Status] :
         (Resets(update) => CanReset) /\ UpdateStatuses(r, update)
  \/ QueueUpdate(r)

SchemaRoutes == CreateSchema \/ DeleteSchema

Next ==
  \/ SchemaRoutes
  \/ \E r \in Request :
       \/ CreateRoutes(r) \/ StatusRoutes(r)
       \/ Open(r) \/ Commit(r) \/ Retry(r) \/ Abandon(r)
  \/ \E c \in Credential : DeleteCredential(c)

Spec == Init /\ [][Next]_vars

------------------------------------------------------------------------------
Issued == {c \in Credential : credentials[c].state # "new"}

\* No two credentials ever issued, the deleted ones included, since their holders
\* keep them, share an index of a status list: revoking one would revoke both.
\* Two creations may read the same list and index before either commits; it holds
\* for creations of one credential each while the pool has indexes left
\* (core/service/credential/service.go:95-134, storage.go:164-189).
IndexUnique ==
  \A c, d \in Issued :
    credentials[c].list = credentials[d].list
      /\ credentials[c].index = credentials[d].index => c = d

\* The credentials of an issuer and schema with the same purpose share one status
\* list, the one that is published, whoever creates it first
\* (core/service/credential/status.go:19-67).
ListShared ==
  \A c \in Issued : credentials[c].list = lists[credentials[c].purpose].id

\* The published list tells of every stored credential what the store tells: its
\* bit is set exactly when the credential is revoked or suspended, although an
\* update collects the bits of the others from a store that other updates,
\* creations and deletions change meanwhile (core/service/credential/service.go:505-545).
PublishedExactly ==
  \A c \in Stored :
    LET published == lists[credentials[c].purpose]
    IN /\ published.purpose = credentials[c].purpose
       /\ credentials[c].index \in published.entries
            <=> (credentials[c].revoked \/ credentials[c].suspended)

\* On Bolt a deleted credential does not come back by an update that had found it
\* before.  On Redis it may: the update watches the list, not the credential
\* (core/service/credential/service.go:420-466).
DeletedNotRestored ==
  [][engine = "bolt" =>
       \A c \in Credential : credentials[c].state = "deleted" =>
         credentials'[c].state = "deleted"]_credentials

\* What a status list promises to verifiers: a revoked or suspended credential
\* that is stored has its bit set in the published list.
RevokedIsPublished ==
  \A c \in Stored :
    credentials[c].revoked \/ credentials[c].suspended =>
      credentials[c].index \in lists[credentials[c].purpose].entries
==============================================================================
