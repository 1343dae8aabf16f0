----------------------- MODULE CredentialStatus_proofs -----------------------
(***************************************************************************)
(* The status lists, for any credentials, handlers and orders of indexes,  *)
(* on either engine.  Each layer of the invariant rests on the one before: *)
(*                                                                         *)
(*   BaseInv     whatever is asked for: types, what a transaction may have *)
(*               in its queue, and on Bolt that there is one transaction;  *)
(*   GivenInv    if requests create one credential each and the pools have *)
(*               indexes left: what was given out to which credential;     *)
(*   PublishInv  if updates, too, are of one credential and to revoked or  *)
(*               suspended: what the lists say.                            *)
(*                                                                         *)
(* The last two follow a transaction from the reads to the commit: as long *)
(* as it is not stale, what it will write is what it would write if it     *)
(* read again (CreationFresh), or still right to publish (UpdateFresh).    *)
(***************************************************************************)
EXTENDS CredentialStatus, FiniteSetTheorems, TLAPS

------------------------------------------------------------------------------
\* Types.
CredentialRecord ==
  [state : {"new", "stored", "deleted"}, purpose : Purpose, list : Credential \cup {NoList},
   index : Nat, revoked : BOOLEAN, suspended : BOOLEAN]

ListRecord == [id : Credential \cup {NoList}, purpose : Purpose, entries : SUBSET Nat]

Count == 0..PoolSize - 1

\* Functions on a part of D.
Partial(D, T) == UNION {[d -> T] : d \in SUBSET D}

Requests ==
  {NoRequest}
    \cup [kind : {"create"}, ids : SUBSET Credential, purpose : Purpose]
    \cup [kind : {"update"}, statuses : Partial(Credential, Status), purpose : Purpose]

Writes ==
  [credentials : Partial(Credential, CredentialRecord), lists : Partial(Purpose, ListRecord),
   pools : Partial(Purpose, Shuffle), currentIndex : Partial(Purpose, Count)]

TypeOK ==
  /\ engine \in Engine
  /\ schema \in {"new", "stored", "deleted"}
  /\ credentials \in [Credential -> CredentialRecord]
  /\ lists \in [Purpose -> ListRecord]
  /\ pools \in [Purpose -> Shuffle \cup {<<>>}]
  /\ currentIndex \in [Purpose -> Count]
  /\ step \in [Request -> {"idle", "watching", "open", "queued"}]
  /\ request \in [Request -> Requests]
  /\ writes \in [Request -> Writes]
  /\ stale \in SUBSET Request

\* Indexes are given out of a pool there is.
PoolsMade ==
  \A p \in Purpose :
    HasList(p) \/ (\E c \in Issued : credentials[c].purpose = p) => pools[p] \in Shuffle

\* What a creation will write: credentials nobody else makes, and a list together
\* with its pool unless there is one.
Creating(r) ==
  /\ step[r] \in {"open", "watching", "queued"}
  /\ \A c \in request[r].ids : credentials[c].state = "new"
  /\ step[r] = "queued" =>
       LET w == writes[r]
           p == request[r].purpose
       IN /\ DOMAIN w.credentials = request[r].ids
          /\ \A c \in DOMAIN w.credentials :
               w.credentials[c].state = "stored" /\ w.credentials[c].purpose = p
          /\ DOMAIN w.lists = DOMAIN w.pools
          /\ DOMAIN w.pools \in SUBSET {p}
          /\ DOMAIN w.currentIndex = {p}
          /\ pools[p] \notin Shuffle => p \in DOMAIN w.pools

\* What an update will write: of issued credentials the status only, and the list
\* of their purpose.
Updating(r) ==
  /\ step[r] \in {"open", "watching", "queued"}
  /\ \A c \in DOMAIN request[r].statuses :
       c \in Issued /\ credentials[c].purpose = request[r].purpose
  /\ step[r] = "queued" =>
       LET w == writes[r]
       IN /\ DOMAIN w.credentials \in SUBSET DOMAIN request[r].statuses
          /\ \A c \in DOMAIN w.credentials :
               /\ w.credentials[c].state = "stored"
               /\ w.credentials[c].purpose = credentials[c].purpose
               /\ w.credentials[c].list = credentials[c].list
               /\ w.credentials[c].index = credentials[c].index
          /\ DOMAIN w.credentials # {}
          /\ DOMAIN w.lists = {request[r].purpose}
          /\ DOMAIN w.pools = {} /\ DOMAIN w.currentIndex = {}

HandlerOK(r) ==
  \/ step[r] = "idle" /\ request[r] = NoRequest
  \/ request[r].kind = "create" /\ Creating(r)
  \/ request[r].kind = "update" /\ Updating(r)

OneMakes ==
  \A r, q \in Request :
    r # q /\ request[r].kind = "create" /\ request[q].kind = "create" =>
      request[r].ids \cap request[q].ids = {}

\* Bolt: one transaction writes at a time, and what an update found is there.
Bolt ==
  engine = "bolt" =>
    /\ \A r, q \in Request : InTransaction(r) /\ InTransaction(q) => r = q
    /\ \A r \in Request : step[r] = "queued" /\ request[r].kind = "update" =>
         \A c \in DOMAIN writes[r].credentials : c \in Stored

BaseInv ==
  /\ TypeOK /\ PoolsMade
  /\ \A r \in Request : HandlerOK(r)
  /\ OneMakes
  /\ Bolt

------------------------------------------------------------------------------
\* The operators.
LEMMA Overwritten ==
  ASSUME NEW D, NEW T, NEW f \in [D -> T], NEW w \in Partial(D, T)
  PROVE  /\ DOMAIN w \in SUBSET D
         /\ Overwrite(f, w) \in [D -> T]
         /\ \A x \in D : Overwrite(f, w)[x] = IF x \in DOMAIN w THEN w[x] ELSE f[x]
<1> PICK d \in SUBSET D : w \in [d -> T]
  BY DEF Partial
<1> QED BY DEF Overwrite

LEMMA NothingType == ASSUME NEW D, NEW T PROVE Nothing \in Partial(D, T) /\ DOMAIN Nothing = {}
<1>1. Nothing \in [{} -> T]
  BY DEF Nothing
<1> QED BY <1>1 DEF Partial

LEMMA NoWritesType == NoWrites \in Writes
BY NothingType DEF NoWrites, Writes

LEMMA NoRequestKind == NoRequest.kind = "none" /\ NoRequest \in Requests
BY DEF NoRequest, Requests

\* The entry and the writes of a creation.
LEMMA EntryType ==
  ASSUME TypeOK, PoolsMade, NEW c \in Credential, NEW p \in Purpose,
         NEW order, order[c] \in Shuffle
  PROVE  Entry(c, p, order) \in CredentialRecord
<1>2. order[c][1] \in Nat
  BY ShuffleAssumption, PoolSizeAssumption
<1>3. ASSUME HasList(p) PROVE pools[p][currentIndex[p] + 1] \in Nat
  <2>1. pools[p] \in [1..PoolSize -> 1..PoolSize]
    BY <1>3, ShuffleAssumption DEF PoolsMade
  <2>2. currentIndex[p] + 1 \in 1..PoolSize
    BY PoolSizeAssumption DEF TypeOK, Count
  <2> QED BY <2>1, <2>2, PoolSizeAssumption
<1>4. lists[p].id \in Credential \cup {NoList}
  BY DEF TypeOK, ListRecord
<1> QED BY <1>2, <1>3, <1>4 DEF Entry, CredentialRecord

LEMMA NextIndexType ==
  ASSUME TypeOK, NEW p \in Purpose
  PROVE  NextIndex(p) \in Count
BY PoolSizeAssumption DEF TypeOK, NextIndex, Count

LEMMA CreationWrites ==
  ASSUME TypeOK, PoolsMade, NEW p \in Purpose, NEW batch \in SUBSET Credential,
         NEW order, \A c \in batch : order[c] \in Shuffle, NEW last \in batch
  PROVE  LET w == Creation(batch, p, order, last)
         IN /\ w \in Writes
            /\ DOMAIN w.credentials = batch
            /\ \A c \in batch : w.credentials[c] = Entry(c, p, order)
<1> DEFINE w == Creation(batch, p, order, last)
<1>1. w.credentials = [c \in batch |-> Entry(c, p, order)]
  BY DEF Creation
<1>2. w.lists = [q \in Missing(p) |-> [id |-> last, purpose |-> q, entries |-> {}]]
  BY DEF Creation
<1>3. w.pools = [q \in Missing(p) |-> order[last]]
  BY DEF Creation
<1>4. w.currentIndex = [q \in {p} |-> NextIndex(q)]
  BY DEF Creation
<1>5. w = [credentials |-> w.credentials, lists |-> w.lists, pools |-> w.pools,
           currentIndex |-> w.currentIndex]
  BY DEF Creation
<1>6. w.credentials \in Partial(Credential, CredentialRecord)
  <2>1. w.credentials \in [batch -> CredentialRecord]
    BY <1>1, EntryType
  <2> QED BY <2>1 DEF Partial
<1>7. w.lists \in Partial(Purpose, ListRecord)
  <2>1. w.lists \in [Missing(p) -> ListRecord]
    BY <1>2 DEF ListRecord, Missing
  <2>2. Missing(p) \in SUBSET Purpose
    BY DEF Missing
  <2> QED BY <2>1, <2>2 DEF Partial
<1>8. w.pools \in Partial(Purpose, Shuffle)
  <2>1. w.pools \in [Missing(p) -> Shuffle]
    BY <1>3
  <2>2. Missing(p) \in SUBSET Purpose
    BY DEF Missing
  <2> QED BY <2>1, <2>2 DEF Partial
<1>9. w.currentIndex \in Partial(Purpose, Count)
  <2>1. w.currentIndex \in [{p} -> Count]
    BY <1>4, NextIndexType
  <2> QED BY <2>1 DEF Partial
<1>10. w \in Writes
  BY <1>5, <1>6, <1>7, <1>8, <1>9 DEF Writes
<1> QED BY <1>1, <1>10

\* The writes of an update.
LEMMA UpdateWrites ==
  ASSUME TypeOK, NEW update \in Partial(Credential, Status), NEW last \in Changed(update)
  PROVE  LET w == Update(update, last)
         IN /\ w \in Writes
            /\ DOMAIN w.credentials = Changed(update)
            /\ \A c \in Changed(update) :
                 w.credentials[c] =
                   [credentials[c] EXCEPT !.state = "stored", !.revoked = update[c].revoked,
                                          !.suspended = update[c].suspended]
            /\ w.lists = Published(last, update[last])
            /\ DOMAIN w.pools = {} /\ DOMAIN w.currentIndex = {}
<1> DEFINE w == Update(update, last)
           cs == [c \in Changed(update) |->
                   [credentials[c] EXCEPT !.state = "stored", !.revoked = update[c].revoked,
                                          !.suspended = update[c].suspended]]
<1>1. PICK d \in SUBSET Credential : update \in [d -> Status]
  BY DEF Partial
<1>2. Changed(update) \in SUBSET Credential /\ Changed(update) \in SUBSET d
  BY <1>1 DEF Changed
<1>3. cs \in Partial(Credential, CredentialRecord)
  <2>1. ASSUME NEW c \in Changed(update) PROVE cs[c] \in CredentialRecord
    <3>1. credentials[c] \in CredentialRecord /\ update[c] \in Status
      BY <1>1, <1>2 DEF TypeOK
    <3> QED BY <3>1 DEF CredentialRecord, Status
  <2>2. cs \in [Changed(update) -> CredentialRecord]
    BY <2>1
  <2> QED BY <2>2, <1>2 DEF Partial
<1>4. /\ w.credentials = cs /\ w.lists = Published(last, update[last])
      /\ w.pools = Nothing /\ w.currentIndex = Nothing
      /\ w = [credentials |-> w.credentials, lists |-> w.lists, pools |-> w.pools,
              currentIndex |-> w.currentIndex]
  BY DEF Update
<1>5. Published(last, update[last]) \in Partial(Purpose, ListRecord)
  <2>1. credentials[last] \in CredentialRecord
    BY <1>2 DEF TypeOK
  <2>2. \A x \in Listed(last, update[last]) : credentials[x].index \in Nat
    BY <1>2 DEF Listed, Stored, TypeOK, CredentialRecord
  <2>3. Published(last, update[last]) \in [{credentials[last].purpose} -> ListRecord]
    BY <2>1, <2>2 DEF Published, ListRecord, CredentialRecord, PurposeOf, Purpose
  <2> QED BY <2>1, <2>3 DEF Partial, CredentialRecord
<1>6. w \in Writes
  <2>1. Nothing \in Partial(Purpose, Shuffle) /\ Nothing \in Partial(Purpose, Count)
    BY NothingType
  <2> QED BY <1>3, <1>4, <1>5, <2>1 DEF Writes
<1> HIDE DEF w
<1>7. DOMAIN w.pools = {} /\ DOMAIN w.currentIndex = {}
  BY <1>4, NothingType
<1>8. DOMAIN cs = Changed(update)
  OBVIOUS
<1> QED BY <1>4, <1>6, <1>7, <1>8 DEF w

------------------------------------------------------------------------------
\* What was asked of a handler.
LEMMA RequestType ==
  ASSUME TypeOK, NEW r \in Request
  PROVE  /\ request[r].kind = "create" =>
              request[r].ids \in SUBSET Credential /\ request[r].purpose \in Purpose
         /\ request[r].kind = "update" =>
              /\ request[r].statuses \in Partial(Credential, Status)
              /\ DOMAIN request[r].statuses \in SUBSET Credential
              /\ request[r].purpose \in Purpose
<1>1. request[r] \in Requests
  BY DEF TypeOK
<1>2. \A f \in Partial(Credential, Status) : DOMAIN f \in SUBSET Credential
  BY DEF Partial
<1> QED BY <1>1, <1>2, NoRequestKind DEF Requests

\* What is issued stays so, with its list and index, and pools stay.
Grows ==
  /\ \A c \in Issued :
       /\ c \in Issued'
       /\ credentials'[c].purpose = credentials[c].purpose
       /\ credentials'[c].list = credentials[c].list
       /\ credentials'[c].index = credentials[c].index
  /\ \A p \in Purpose : pools[p] \in Shuffle => pools'[p] \in Shuffle

LEMMA OtherHandler ==
  ASSUME TypeOK, Grows, NEW q \in Request, HandlerOK(q),
         step'[q] = step[q], request'[q] = request[q], writes'[q] = writes[q],
         request[q].kind = "create" =>
           \A c \in request[q].ids : credentials'[c].state = "new"
  PROVE  HandlerOK(q)'
<1>1. CASE step[q] = "idle" /\ request[q] = NoRequest
  BY <1>1 DEF HandlerOK
<1>2. CASE request[q].kind = "create" /\ Creating(q)
  <2>1. request[q].purpose \in Purpose
    BY <1>2, RequestType
  <2> QED BY <1>2, <2>1 DEF HandlerOK, Creating, Grows
<1>3. CASE request[q].kind = "update" /\ Updating(q)
  <2>1. \A c \in DOMAIN request[q].statuses :
          /\ c \in Issued'
          /\ credentials'[c].purpose = credentials[c].purpose
          /\ credentials'[c].list = credentials[c].list
          /\ credentials'[c].index = credentials[c].index
    BY <1>3 DEF Updating, Grows
  <2> QED BY <1>3, <2>1 DEF HandlerOK, Updating
<1> QED BY <1>1, <1>2, <1>3 DEF HandlerOK

\* A step of one handler that leaves the store alone.
LEMMA HandlerMoves ==
  ASSUME BaseInv, NEW r \in Request, UNCHANGED <<engine, stored>>,
         \A q \in Request \ {r} :
           step'[q] = step[q] /\ request'[q] = request[q] /\ writes'[q] = writes[q],
         HandlerOK(r)', TypeOK'
  PROVE  (\A q \in Request : HandlerOK(q)) ' /\ PoolsMade'
<1>1. Grows
  BY DEF Grows, stored, Issued
<1>2. ASSUME NEW q \in Request \ {r} PROVE HandlerOK(q)'
  <2>1. HandlerOK(q)
    BY DEF BaseInv
  <2>2. request[q].kind = "create" => \A c \in request[q].ids : credentials'[c].state = "new"
    BY <2>1, NoRequestKind DEF HandlerOK, Creating, stored
  <2> QED BY <1>1, <1>2, <2>1, <2>2, OtherHandler DEF BaseInv
<1>3. PoolsMade'
  BY DEF BaseInv, PoolsMade, HasList, Issued, stored
<1> QED BY <1>2, <1>3

LEMMA OpenStep == ASSUME BaseInv, NEW r \in Request, Open(r) PROVE BaseInv'
<1>1. TypeOK'
  BY DEF BaseInv, TypeOK, Open, GoTo, stored
<1>2. step = [step EXCEPT ![r] = "watching"] /\ step' = [step EXCEPT ![r] = "open"]
      /\ UNCHANGED <<engine, stored, request, writes>>
  BY DEF BaseInv, TypeOK, Open, GoTo
<1>3. HandlerOK(r) /\ step[r] = "watching" /\ step'[r] = "open"
  BY <1>2 DEF BaseInv, TypeOK, Open, GoTo
<1>4. HandlerOK(r)'
  BY <1>2, <1>3 DEF HandlerOK, Creating, Updating, Issued, stored
<1>5. OneMakes'
  BY <1>2 DEF BaseInv, OneMakes
<1>6. Bolt'
  BY <1>2 DEF BaseInv, TypeOK, Bolt, InTransaction, Open, WriterFree, Stored, stored
<1> QED BY <1>1, <1>2, <1>4, <1>5, <1>6, HandlerMoves DEF BaseInv, TypeOK

LEMMA RetryStep == ASSUME BaseInv, NEW r \in Request, Retry(r) PROVE BaseInv'
<1>1. TypeOK'
  BY NoWritesType DEF BaseInv, TypeOK, Retry, GoTo, stored
<1>2. /\ step' = [step EXCEPT ![r] = "watching"] /\ UNCHANGED <<engine, stored, request>>
      /\ writes' = [writes EXCEPT ![r] = NoWrites] /\ step[r] = "queued"
  BY DEF Retry, GoTo
<1>3. HandlerOK(r) /\ step'[r] = "watching"
  BY <1>2 DEF BaseInv, TypeOK
<1>4. HandlerOK(r)'
  BY <1>2, <1>3 DEF HandlerOK, Creating, Updating, Issued, stored
<1>5. OneMakes'
  BY <1>2 DEF BaseInv, OneMakes
<1>6. Bolt'
  BY <1>2 DEF BaseInv, TypeOK, Bolt, InTransaction, Stored, stored
<1> QED BY <1>1, <1>2, <1>4, <1>5, <1>6, HandlerMoves DEF BaseInv, TypeOK

LEMMA AbandonStep == ASSUME BaseInv, NEW r \in Request, Abandon(r) PROVE BaseInv'
<1>1. TypeOK'
  BY NoWritesType, NoRequestKind DEF BaseInv, TypeOK, Abandon, End, GoTo, stored
<1>2. /\ step' = [step EXCEPT ![r] = "idle"] /\ UNCHANGED <<engine, stored>>
      /\ request' = [request EXCEPT ![r] = NoRequest]
      /\ writes' = [writes EXCEPT ![r] = NoWrites]
  BY DEF Abandon, End, GoTo
<1>3. step'[r] = "idle" /\ request'[r] = NoRequest
  BY <1>2 DEF BaseInv, TypeOK
<1>4. HandlerOK(r)'
  BY <1>3 DEF HandlerOK
<1>5. OneMakes'
  BY <1>2, <1>3, NoRequestKind DEF BaseInv, TypeOK, OneMakes
<1>6. Bolt'
  BY <1>2 DEF BaseInv, TypeOK, Bolt, InTransaction, Stored, stored
<1> QED BY <1>1, <1>2, <1>4, <1>5, <1>6, HandlerMoves DEF BaseInv, TypeOK

LEMMA CreateCredentialsStep ==
  ASSUME BaseInv, NEW r \in Request, NEW batch \in SUBSET Credential, NEW p \in Purpose,
         CreateCredentials(r, batch, p)
  PROVE  BaseInv'
<1> DEFINE asked == [kind |-> "create", ids |-> batch, purpose |-> p]
<1>1. /\ step[r] = "idle" /\ WriterFree
      /\ \A c \in batch : credentials[c].state = "new"
      /\ \A q \in Request : request[q].kind = "create" => request[q].ids \cap batch = {}
      /\ step' = [step EXCEPT ![r] = "open"] /\ UNCHANGED <<engine, stored, writes>>
      /\ request' = [request EXCEPT ![r] = asked]
      /\ stale' = stale \ {r}
  BY DEF CreateCredentials, GoTo
<1>2. asked \in Requests /\ asked.kind = "create" /\ asked.ids = batch
  BY DEF Requests
<1> HIDE DEF asked
<1>3. TypeOK'
  BY <1>1, <1>2 DEF BaseInv, TypeOK, stored
<1>4. step'[r] = "open" /\ request'[r] = asked
  BY <1>1 DEF BaseInv, TypeOK
<1>5. HandlerOK(r)'
  BY <1>1, <1>2, <1>4 DEF HandlerOK, Creating, stored
<1>6. OneMakes'
  BY <1>1, <1>2 DEF BaseInv, TypeOK, OneMakes
<1>7. Bolt'
  BY <1>1, <1>2 DEF BaseInv, TypeOK, Bolt, InTransaction, Stored, stored, WriterFree
<1> QED BY <1>1, <1>3, <1>5, <1>6, <1>7, HandlerMoves DEF BaseInv, TypeOK

LEMMA UpdateStatusesStep ==
  ASSUME BaseInv, NEW r \in Request, NEW update \in Partial(Credential, Status),
         UpdateStatuses(r, update)
  PROVE  BaseInv'
<1>1. PICK p \in Purpose :
        /\ \A c \in DOMAIN update : c \in Stored /\ credentials[c].purpose = p
        /\ request' = [request EXCEPT ![r] =
             [kind |-> "update", statuses |-> update, purpose |-> p]]
  BY DEF UpdateStatuses
<1> DEFINE asked == [kind |-> "update", statuses |-> update, purpose |-> p]
<1>2. /\ step' = [step EXCEPT ![r] = "watching"] /\ step[r] = "idle"
      /\ UNCHANGED <<engine, stored, writes, stale>>
      /\ request' = [request EXCEPT ![r] = asked]
  BY <1>1 DEF UpdateStatuses, GoTo
<1>3. asked \in Requests /\ asked.kind = "update" /\ asked.statuses = update
      /\ asked.purpose = p
  BY DEF Requests
<1> HIDE DEF asked
<1>4. TypeOK'
  BY <1>2, <1>3 DEF BaseInv, TypeOK, stored
<1>5. step'[r] = "watching" /\ request'[r] = asked
  BY <1>2 DEF BaseInv, TypeOK
<1>6. HandlerOK(r)'
  BY <1>1, <1>2, <1>3, <1>5 DEF HandlerOK, Updating, Issued, Stored, stored
<1>7. OneMakes'
  BY <1>2, <1>3 DEF BaseInv, TypeOK, OneMakes
<1>8. Bolt'
  BY <1>2, <1>3 DEF BaseInv, TypeOK, Bolt, InTransaction, Stored, stored
<1> QED BY <1>2, <1>4, <1>6, <1>7, <1>8, HandlerMoves DEF BaseInv, TypeOK

LEMMA QueueCreationStep == ASSUME BaseInv, NEW r \in Request, QueueCreation(r) PROVE BaseInv'
<1> DEFINE ids == request[r].ids
           p == request[r].purpose
<1>0. request[r].kind = "create" /\ step[r] = "open" /\ HandlerOK(r)
  BY DEF QueueCreation, BaseInv
<1>1. ids \in SUBSET Credential /\ p \in Purpose
  BY <1>0, RequestType DEF BaseInv
<1>2. PICK order \in [ids -> Shuffle], last \in ids : Queue(r, Creation(ids, p, order, last))
  BY DEF QueueCreation
<1> DEFINE w == Creation(ids, p, order, last)
<1>3. /\ w \in Writes
      /\ DOMAIN w.credentials = ids
      /\ \A c \in ids : w.credentials[c] = Entry(c, p, order)
      /\ DOMAIN w.lists = Missing(p) /\ DOMAIN w.pools = Missing(p)
      /\ DOMAIN w.currentIndex = {p}
  <2>1. TypeOK /\ PoolsMade /\ \A c \in ids : order[c] \in Shuffle
    BY DEF BaseInv
  <2> HIDE DEF ids, p
  <2>2. last \in ids
    OBVIOUS
  <2>3. w \in Writes
    BY <1>1, <2>1, <2>2, CreationWrites
  <2>4. DOMAIN w.credentials = ids /\ \A c \in ids : w.credentials[c] = Entry(c, p, order)
    BY <1>1, <2>1, <2>2, CreationWrites
  <2>5. DOMAIN w.lists = Missing(p) /\ DOMAIN w.pools = Missing(p)
    BY DEF Creation
  <2>6. DOMAIN w.currentIndex = {p}
    BY DEF Creation
  <2> QED BY <2>3, <2>4, <2>5, <2>6
<1>4. /\ writes' = [writes EXCEPT ![r] = w] /\ step' = [step EXCEPT ![r] = "queued"]
      /\ UNCHANGED <<engine, stored, request, stale>>
  BY <1>2 DEF Queue, GoTo
<1> HIDE DEF w
<1>5. \A c \in ids : w.credentials[c].state = "stored" /\ w.credentials[c].purpose = p
  <2>1. \A c : Entry(c, p, order).state = "stored" /\ Entry(c, p, order).purpose = p
    BY DEF Entry
  <2> QED BY <1>3, <2>1
<1>6. TypeOK'
  BY <1>3, <1>4 DEF BaseInv, TypeOK, stored
<1>7. step'[r] = "queued" /\ writes'[r] = w /\ request'[r] = request[r]
  BY <1>4 DEF BaseInv, TypeOK
<1>8. HandlerOK(r)'
  <2>1. Creating(r)
    BY <1>0, NoRequestKind DEF HandlerOK
  <2>2. pools[p] \notin Shuffle => p \in DOMAIN w.pools
    BY <1>1, <1>3 DEF BaseInv, PoolsMade, Missing
  <2>3. DOMAIN w.pools \in SUBSET {p}
    BY <1>3 DEF Missing
  <2> QED BY <1>0, <1>3, <2>3, <1>4, <1>5, <1>7, <2>1, <2>2 DEF HandlerOK, Creating, stored
<1>9. OneMakes'
  BY <1>4 DEF BaseInv, OneMakes
<1>10. Bolt'
  BY <1>0, <1>4 DEF BaseInv, TypeOK, Bolt, InTransaction, Stored, stored
<1> QED BY <1>4, <1>6, <1>8, <1>9, <1>10, HandlerMoves DEF BaseInv, TypeOK

LEMMA QueueUpdateStep == ASSUME BaseInv, NEW r \in Request, QueueUpdate(r) PROVE BaseInv'
<1> DEFINE update == request[r].statuses
<1>0. request[r].kind = "update" /\ step[r] = "open" /\ HandlerOK(r)
  BY DEF QueueUpdate, BaseInv
<1>1. /\ update \in Partial(Credential, Status) /\ DOMAIN update \in SUBSET Credential
      /\ request[r].purpose \in Purpose
  BY <1>0, RequestType DEF BaseInv
<1>2. PICK last \in Changed(update) : Queue(r, Update(update, last))
  BY DEF QueueUpdate
<1>3. \A c \in DOMAIN update : c \in Stored
  BY DEF QueueUpdate, Found
<1> DEFINE w == Update(update, last)
<1>4. /\ w \in Writes
      /\ DOMAIN w.credentials = Changed(update)
      /\ \A c \in Changed(update) :
           w.credentials[c] =
             [credentials[c] EXCEPT !.state = "stored", !.revoked = update[c].revoked,
                                    !.suspended = update[c].suspended]
      /\ w.lists = Published(last, update[last])
      /\ DOMAIN w.pools = {} /\ DOMAIN w.currentIndex = {}
  BY <1>1, UpdateWrites DEF BaseInv
<1>5. /\ writes' = [writes EXCEPT ![r] = w] /\ step' = [step EXCEPT ![r] = "queued"]
      /\ UNCHANGED <<engine, stored, request, stale>>
  BY <1>2 DEF Queue, GoTo
<1> HIDE DEF w
<1>6. TypeOK'
  BY <1>4, <1>5 DEF BaseInv, TypeOK, stored
<1>7. step'[r] = "queued" /\ writes'[r] = w /\ request'[r] = request[r]
  BY <1>5 DEF BaseInv, TypeOK
<1>8. Updating(r)
  BY <1>0, NoRequestKind DEF HandlerOK
<1>9. Changed(update) \in SUBSET DOMAIN update
  BY DEF Changed
<1>10. HandlerOK(r)'
  <2>1. \A c \in Changed(update) :
          /\ w.credentials[c].state = "stored"
          /\ w.credentials[c].purpose = credentials[c].purpose
          /\ w.credentials[c].list = credentials[c].list
          /\ w.credentials[c].index = credentials[c].index
    <3> SUFFICES ASSUME NEW c \in Changed(update)
                 PROVE  /\ w.credentials[c].state = "stored"
                        /\ w.credentials[c].purpose = credentials[c].purpose
                        /\ w.credentials[c].list = credentials[c].list
                        /\ w.credentials[c].index = credentials[c].index
      OBVIOUS
    <3>1. credentials[c] \in CredentialRecord
      BY <1>1, <1>9 DEF BaseInv, TypeOK
    <3> QED BY <1>4, <3>1 DEF CredentialRecord
  <2>2. credentials[last].purpose = request[r].purpose
    BY <1>8, <1>9 DEF Updating
  <2>3. DOMAIN w.lists = {request[r].purpose}
    BY <1>4, <2>2 DEF Published
  <2>4. Changed(update) # {}
    OBVIOUS
  <2>5. Updating(r)'
    <3>1. \A c \in DOMAIN update : c \in Issued' /\ credentials'[c].purpose = request[r].purpose
      BY <1>5, <1>8 DEF Updating, stored, Issued
    <3> HIDE DEF update
    <3>2. DOMAIN w.credentials \in SUBSET DOMAIN update /\ DOMAIN w.credentials # {}
      BY <1>4, <1>9, <2>4
    <3>3. UNCHANGED credentials
      BY <1>5 DEF stored
    <3>4. request[r].statuses = update
      BY DEF update
    <3>5. DOMAIN w.pools = {} /\ DOMAIN w.currentIndex = {}
      BY <1>4
    <3>6. \A c \in DOMAIN w.credentials :
            /\ w.credentials[c].state = "stored"
            /\ w.credentials[c].purpose = credentials[c].purpose
            /\ w.credentials[c].list = credentials[c].list
            /\ w.credentials[c].index = credentials[c].index
      BY <1>4, <2>1
    <3> QED BY <1>7, <2>3, <3>1, <3>2, <3>3, <3>4, <3>5, <3>6 DEF Updating
  <2> QED BY <1>0, <1>5, <2>5 DEF HandlerOK
<1>11. OneMakes'
  BY <1>5 DEF BaseInv, OneMakes
<1>12. Bolt'
  BY <1>0, <1>3, <1>4, <1>5, <1>9 DEF BaseInv, TypeOK, Bolt, InTransaction, Stored, stored
<1> QED BY <1>5, <1>6, <1>10, <1>11, <1>12, HandlerMoves DEF BaseInv, TypeOK

\* Steps that change the schema or nothing.
LEMMA SchemaStep ==
  ASSUME BaseInv, SchemaRoutes \/ UNCHANGED vars
  PROVE  BaseInv'
<1>1. UNCHANGED <<engine, credentials, lists, pools, currentIndex, handlers>>
      /\ schema' \in {schema, "stored", "deleted"}
  BY DEF SchemaRoutes, CreateSchema, DeleteSchema, vars, stored
<1>2. TypeOK' /\ PoolsMade' /\ OneMakes' /\ Bolt'
  BY <1>1 DEF BaseInv, TypeOK, PoolsMade, OneMakes, Bolt, InTransaction, HasList, Issued,
              Stored, handlers
<1>3. ASSUME NEW q \in Request PROVE HandlerOK(q)'
  <2>1. HandlerOK(q) /\ TypeOK
    BY DEF BaseInv
  <2>2. Grows
    BY <1>1 DEF Grows, Issued
  <2>3. step'[q] = step[q] /\ request'[q] = request[q] /\ writes'[q] = writes[q]
    BY <1>1 DEF handlers
  <2>4. request[q].kind = "create" => \A c \in request[q].ids : credentials'[c].state = "new"
    BY <1>1, <2>1, NoRequestKind DEF HandlerOK, Creating
  <2> QED BY <2>1, <2>2, <2>3, <2>4, OtherHandler
<1> QED BY <1>2, <1>3 DEF BaseInv

\* A deletion changes one credential's state.
LEMMA Deleted ==
  ASSUME TypeOK, NEW c \in Credential, DeleteCredential(c)
  PROVE  /\ UNCHANGED <<engine, schema, lists, pools, currentIndex, handlers>>
         /\ credentials' \in [Credential -> CredentialRecord]
         /\ credentials'[c].state = "deleted" /\ credentials[c].state = "stored"
         /\ \A d \in Credential :
              /\ d # c => credentials'[d].state = credentials[d].state
              /\ credentials'[d].purpose = credentials[d].purpose
              /\ credentials'[d].list = credentials[d].list
              /\ credentials'[d].index = credentials[d].index
              /\ credentials'[d].revoked = credentials[d].revoked
              /\ credentials'[d].suspended = credentials[d].suspended
<1>1. credentials \in [Credential -> CredentialRecord]
  BY DEF TypeOK
<1>2. /\ \A d \in Credential \ {c} : credentials'[d] = credentials[d]
      /\ credentials'[c] = [credentials[c] EXCEPT !.state = "deleted"]
  BY <1>1 DEF DeleteCredential
<1>3. credentials[c] \in CredentialRecord
  BY <1>1
<1>4. /\ credentials'[c].state = "deleted"
      /\ credentials'[c].purpose = credentials[c].purpose
      /\ credentials'[c].list = credentials[c].list
      /\ credentials'[c].index = credentials[c].index
      /\ credentials'[c].revoked = credentials[c].revoked
      /\ credentials'[c].suspended = credentials[c].suspended
  BY <1>2, <1>3 DEF CredentialRecord
<1>5. credentials' \in [Credential -> CredentialRecord]
  BY <1>1 DEF DeleteCredential, CredentialRecord
<1> QED BY <1>2, <1>4, <1>5 DEF DeleteCredential

LEMMA DeleteStep == ASSUME BaseInv, NEW c \in Credential, DeleteCredential(c) PROVE BaseInv'
<1>0. TypeOK
  BY DEF BaseInv
<1>1. WriterFree /\ UNCHANGED <<engine, schema, lists, pools, currentIndex, handlers>>
  BY DEF DeleteCredential
<1>3. TypeOK'
  BY <1>0, <1>1, Deleted DEF TypeOK, handlers
<1>5. \A d \in Credential :
        /\ credentials'[d].state # "new" <=> credentials[d].state # "new"
        /\ credentials'[d].purpose = credentials[d].purpose
        /\ credentials'[d].list = credentials[d].list
        /\ credentials'[d].index = credentials[d].index
  BY <1>0, Deleted
<1>6. Grows
  BY <1>1, <1>5 DEF Grows, Issued
<1>7. ASSUME NEW q \in Request PROVE HandlerOK(q)'
  <2>1. HandlerOK(q) /\ TypeOK
    BY DEF BaseInv
  <2>2. request[q].kind = "create" => \A d \in request[q].ids : credentials'[d].state = "new"
    BY <1>5, <2>1, NoRequestKind, RequestType DEF HandlerOK, Creating
  <2>3. step'[q] = step[q] /\ request'[q] = request[q] /\ writes'[q] = writes[q]
    BY <1>1 DEF handlers
  <2> QED BY <1>6, <2>1, <2>2, <2>3, OtherHandler
<1>8. PoolsMade'
  BY <1>1, <1>5 DEF BaseInv, PoolsMade, HasList, Issued
<1>9. OneMakes'
  BY <1>1 DEF BaseInv, OneMakes, handlers
<1>10. Bolt'
  BY <1>1 DEF BaseInv, Bolt, InTransaction, WriterFree, handlers
<1> QED BY <1>3, <1>7, <1>8, <1>9, <1>10 DEF BaseInv

\* What is stored after a commit.
LEMMA Committed ==
  ASSUME TypeOK, NEW r \in Request, Commit(r)
  PROVE  /\ credentials' \in [Credential -> CredentialRecord]
         /\ lists' \in [Purpose -> ListRecord]
         /\ pools' \in [Purpose -> Shuffle \cup {<<>>}]
         /\ currentIndex' \in [Purpose -> Count]
         /\ \A c \in Credential :
              credentials'[c] = IF c \in DOMAIN writes[r].credentials
                                THEN writes[r].credentials[c] ELSE credentials[c]
         /\ \A p \in Purpose :
              /\ lists'[p] = IF p \in DOMAIN writes[r].lists
                             THEN writes[r].lists[p] ELSE lists[p]
              /\ pools'[p] = IF p \in DOMAIN writes[r].pools
                             THEN writes[r].pools[p] ELSE pools[p]
              /\ currentIndex'[p] = IF p \in DOMAIN writes[r].currentIndex
                                    THEN writes[r].currentIndex[p] ELSE currentIndex[p]
<1>1. writes[r] \in Writes
  BY DEF TypeOK
<1>2. writes[r].credentials \in Partial(Credential, CredentialRecord)
  BY <1>1 DEF Writes
<1>3. writes[r].lists \in Partial(Purpose, ListRecord)
  BY <1>1 DEF Writes
<1>4. writes[r].pools \in Partial(Purpose, Shuffle \cup {<<>>})
  <2>1. writes[r].pools \in Partial(Purpose, Shuffle)
    BY <1>1 DEF Writes
  <2> QED BY <2>1 DEF Partial
<1>5. writes[r].currentIndex \in Partial(Purpose, Count)
  BY <1>1 DEF Writes
<1>6. /\ credentials' = Overwrite(credentials, writes[r].credentials)
      /\ lists' = Overwrite(lists, writes[r].lists)
      /\ pools' = Overwrite(pools, writes[r].pools)
      /\ currentIndex' = Overwrite(currentIndex, writes[r].currentIndex)
  BY DEF Commit
<1>7. credentials \in [Credential -> CredentialRecord]
      /\ lists \in [Purpose -> ListRecord]
      /\ pools \in [Purpose -> Shuffle \cup {<<>>}]
      /\ currentIndex \in [Purpose -> Count]
  BY DEF TypeOK
<1>8. /\ credentials' \in [Credential -> CredentialRecord]
      /\ \A c \in Credential :
           credentials'[c] = IF c \in DOMAIN writes[r].credentials
                             THEN writes[r].credentials[c] ELSE credentials[c]
  BY <1>2, <1>6, <1>7, Overwritten
<1>9. /\ lists' \in [Purpose -> ListRecord]
      /\ \A p \in Purpose :
           lists'[p] = IF p \in DOMAIN writes[r].lists THEN writes[r].lists[p] ELSE lists[p]
  BY <1>3, <1>6, <1>7, Overwritten
<1>10. /\ pools' \in [Purpose -> Shuffle \cup {<<>>}]
       /\ \A p \in Purpose :
            pools'[p] = IF p \in DOMAIN writes[r].pools THEN writes[r].pools[p] ELSE pools[p]
  BY <1>4, <1>6, <1>7, Overwritten
<1>11. /\ currentIndex' \in [Purpose -> Count]
       /\ \A p \in Purpose :
            currentIndex'[p] = IF p \in DOMAIN writes[r].currentIndex
                               THEN writes[r].currentIndex[p] ELSE currentIndex[p]
  BY <1>5, <1>6, <1>7, Overwritten
<1> QED BY <1>8, <1>9, <1>10, <1>11

LEMMA CommitStep == ASSUME BaseInv, NEW r \in Request, Commit(r) PROVE BaseInv'
<1> DEFINE w == writes[r]
           p == request[r].purpose
<1>0. TypeOK /\ PoolsMade /\ HandlerOK(r) /\ step[r] = "queued" /\ r \notin stale
  BY DEF BaseInv, Commit
<1>1. /\ step' = [step EXCEPT ![r] = "idle"] /\ UNCHANGED <<engine, schema>>
      /\ request' = [request EXCEPT ![r] = NoRequest]
      /\ writes' = [writes EXCEPT ![r] = NoWrites]
      /\ stale' \in SUBSET Request
  BY <1>0 DEF Commit, End, GoTo, TypeOK
<1>2. TypeOK'
  <2>1. writes' \in [Request -> Writes] /\ request' \in [Request -> Requests]
    BY <1>0, <1>1, NoWritesType, NoRequestKind DEF TypeOK
  <2> QED BY <1>0, <1>1, <2>1, Committed DEF TypeOK
<1>3. \/ Creating(r) /\ request[r].kind = "create"
      \/ Updating(r) /\ request[r].kind = "update"
  BY <1>0 DEF HandlerOK
<1>4. p \in Purpose
  BY <1>0, <1>3, RequestType
<1>5. w \in Writes
  BY <1>0 DEF TypeOK
<1>6. ASSUME NEW c \in DOMAIN w.credentials
      PROVE  c \in Issued'
  <2>1. w.credentials[c].state = "stored"
    BY <1>0, <1>3 DEF Creating, Updating
  <2>2. c \in Credential
    BY <1>5 DEF Writes, Partial
  <2> QED BY <1>0, <2>1, <2>2, Committed DEF Issued
<1>7. ASSUME NEW c \in Issued
      PROVE  /\ c \in Issued'
             /\ credentials'[c].purpose = credentials[c].purpose
             /\ credentials'[c].list = credentials[c].list
             /\ credentials'[c].index = credentials[c].index
  <2>1. CASE c \in DOMAIN w.credentials
    <3>1. Updating(r)
      BY <1>0, <1>3, <2>1 DEF Creating, Issued
    <3> QED BY <1>0, <1>6, <2>1, <3>1, Committed DEF Updating, Issued
  <2>2. CASE c \notin DOMAIN w.credentials
    BY <1>0, <2>2, Committed DEF Issued
  <2> QED BY <2>1, <2>2
<1>8. ASSUME NEW s \in Purpose, pools[s] \in Shuffle PROVE pools'[s] \in Shuffle
  <2>1. CASE s \in DOMAIN w.pools
    <3>1. w.pools[s] \in Shuffle
      BY <1>5, <2>1 DEF Writes, Partial
    <3> QED BY <1>0, <2>1, <3>1, Committed
  <2>2. CASE s \notin DOMAIN w.pools
    BY <1>0, <1>8, <2>2, Committed
  <2> QED BY <2>1, <2>2
<1>9. Grows
  BY <1>7, <1>8 DEF Grows
<1>10. ASSUME NEW q \in Request PROVE HandlerOK(q)'
  <2>1. CASE q = r
    BY <1>0, <1>1, <2>1 DEF HandlerOK, TypeOK
  <2>2. CASE q # r
    <3>1. step'[q] = step[q] /\ request'[q] = request[q] /\ writes'[q] = writes[q]
      BY <1>0, <1>1, <2>2 DEF TypeOK
    <3>2. ASSUME request[q].kind = "create", NEW c \in request[q].ids
          PROVE  credentials'[c].state = "new"
      <4>1. credentials[c].state = "new" /\ c \in Credential
        BY <1>0, <3>2, NoRequestKind, RequestType DEF BaseInv, HandlerOK, Creating
      <4>2. c \notin DOMAIN w.credentials
        BY <1>0, <1>3, <2>2, <3>2, <4>1 DEF BaseInv, OneMakes, Creating, Updating, Issued
      <4> QED BY <1>0, <4>1, <4>2, Committed
    <3> QED BY <1>0, <1>9, <3>1, <3>2, OtherHandler DEF BaseInv
  <2> QED BY <2>1, <2>2
<1>11. PoolsMade'
  <2> SUFFICES ASSUME NEW s \in Purpose,
                      HasList(s)' \/ \E c \in Issued' : credentials'[c].purpose = s
               PROVE  pools'[s] \in Shuffle
    BY DEF PoolsMade
  <2>1. CASE s # p
    <3>1. lists'[s] = lists[s] /\ pools'[s] = pools[s]
      BY <1>0, <1>3, <2>1, Committed DEF Creating, Updating
    <3>2. ASSUME NEW c \in Issued', credentials'[c].purpose = s
          PROVE  c \in Issued /\ credentials[c].purpose = s
      <4>1. c \notin DOMAIN w.credentials
        <5>1. ASSUME c \in DOMAIN w.credentials PROVE w.credentials[c].purpose = p
          BY <1>0, <1>3, <5>1 DEF Creating, Updating
        <5> QED BY <1>0, <2>1, <3>2, <5>1, Committed DEF Issued
      <4> QED BY <1>0, <3>2, <4>1, Committed DEF Issued
    <3> QED BY <1>0, <3>1, <3>2 DEF PoolsMade, HasList
  <2>2. CASE s = p
    <3>1. pools[p] \notin Shuffle => p \in DOMAIN w.pools
      <4>1. CASE Creating(r)
        BY <1>0, <4>1 DEF Creating
      <4>2. CASE Updating(r)
        <5>1. PICK c \in DOMAIN w.credentials : TRUE
          BY <1>0, <4>2 DEF Updating
        <5>2. c \in Issued /\ credentials[c].purpose = p
          BY <1>0, <4>2 DEF Updating
        <5> QED BY <1>0, <1>4, <5>2 DEF PoolsMade
      <4> QED BY <1>3, <4>1, <4>2
    <3>2. CASE pools[p] \in Shuffle
      BY <1>4, <1>8, <2>2, <3>2
    <3>3. CASE p \in DOMAIN w.pools
      <4>1. w.pools[p] \in Shuffle
        BY <1>5, <3>3 DEF Writes, Partial
      <4> QED BY <1>0, <1>4, <2>2, <3>3, <4>1, Committed
    <3> QED BY <3>1, <3>2, <3>3
  <2> QED BY <2>1, <2>2
<1>12. OneMakes'
  BY <1>0, <1>1, NoRequestKind DEF BaseInv, TypeOK, OneMakes
<1>13. Bolt'
  BY <1>0, <1>1 DEF BaseInv, TypeOK, Bolt, InTransaction
<1> QED BY <1>2, <1>10, <1>11, <1>12, <1>13 DEF BaseInv

LEMMA BaseInit == Init => BaseInv
<1> SUFFICES ASSUME Init PROVE BaseInv
  OBVIOUS
<1>1. TypeOK
  BY NoWritesType, NoRequestKind, PoolSizeAssumption
    DEF Init, TypeOK, CredentialRecord, ListRecord, Count, Purpose
<1>2. PoolsMade
  BY DEF Init, PoolsMade, HasList, Issued
<1>3. \A r \in Request : HandlerOK(r)
  BY DEF Init, HandlerOK
<1>4. OneMakes
  BY NoRequestKind DEF Init, OneMakes
<1>5. Bolt
  BY DEF Init, Bolt, InTransaction
<1> QED BY <1>1, <1>2, <1>3, <1>4, <1>5 DEF BaseInv

LEMMA BaseStep == ASSUME BaseInv, [Next]_vars PROVE BaseInv'
<1>2. CASE SchemaRoutes \/ UNCHANGED vars
  BY <1>2, SchemaStep
<1>3. ASSUME NEW r \in Request, CreateRoutes(r) PROVE BaseInv'
  BY <1>3, CreateCredentialsStep, QueueCreationStep DEF CreateRoutes, Batches
<1>4. ASSUME NEW r \in Request, StatusRoutes(r) PROVE BaseInv'
  <2>1. CASE QueueUpdate(r)
    BY <2>1, QueueUpdateStep
  <2>2. ASSUME NEW batch \in Batches(MaxUpdate), NEW update \in [batch -> Status],
               UpdateStatuses(r, update)
        PROVE  BaseInv'
    <3>1. update \in Partial(Credential, Status)
      BY DEF Batches, Partial
    <3> QED BY <2>2, <3>1, UpdateStatusesStep
  <2> QED BY <1>4, <2>1, <2>2 DEF StatusRoutes
<1>5. ASSUME NEW r \in Request, Open(r) \/ Commit(r) \/ Retry(r) \/ Abandon(r) PROVE BaseInv'
  BY <1>5, OpenStep, CommitStep, RetryStep, AbandonStep
<1>6. ASSUME NEW c \in Credential, DeleteCredential(c) PROVE BaseInv'
  BY <1>6, DeleteStep
<1> QED BY <1>2, <1>3, <1>4, <1>5, <1>6 DEF Next

\* Whatever is asked for, in batches of any size: credentials that are being made are
\* new and made by one request, an update is of issued credentials and changes
\* no more than their status (core/service/credential/service.go:145, 420-466).
THEOREM StatusBaseInvariant == Spec => []BaseInv
<1>1. BaseInv /\ [Next]_vars => BaseInv'
  BY BaseStep
<1> QED BY <1>1, BaseInit, PTL DEF Spec

\* On Bolt a deleted credential does not come back, by batches either: what an
\* update finds within its transaction cannot be deleted before it commits
\* (core/service/credential/service.go:420-466).
THEOREM StatusDeletedNotRestored == Spec => DeletedNotRestored
<1>1. BaseInv /\ [Next]_vars =>
        [engine = "bolt" =>
           \A c \in Credential : credentials[c].state = "deleted" =>
             credentials'[c].state = "deleted"]_credentials
  <2> SUFFICES ASSUME BaseInv, [Next]_vars, engine = "bolt", NEW c \in Credential,
                      credentials[c].state = "deleted", ~UNCHANGED credentials
               PROVE  credentials'[c].state = "deleted"
    OBVIOUS
  <2>1. CASE \E r \in Request : Commit(r)
    <3> PICK r \in Request : Commit(r)
      BY <2>1
    <3>1. c \notin DOMAIN writes[r].credentials
      BY RequestType DEF BaseInv, HandlerOK, Creating, Bolt, Stored, Commit
    <3> QED BY <3>1, Committed DEF BaseInv
  <2>2. CASE \E d \in Credential : DeleteCredential(d)
    BY <2>2 DEF DeleteCredential, BaseInv, TypeOK, CredentialRecord
  <2>3. UNCHANGED credentials \/ (\E r \in Request : Commit(r))
          \/ (\E d \in Credential : DeleteCredential(d))
    BY DEF Next, vars, stored, SchemaRoutes, CreateSchema, DeleteSchema, CreateRoutes,
           CreateCredentials, QueueCreation, Queue, StatusRoutes, UpdateStatuses, QueueUpdate,
           Open, Retry, Abandon
  <2> QED BY <2>1, <2>2, <2>3
<1> QED BY <1>1, StatusBaseInvariant, PTL DEF Spec, DeletedNotRestored

\* What an issued credential says of where its status is.
Place(c) == <<credentials[c].purpose, credentials[c].list, credentials[c].index>>

\* No step takes an issued credential back or moves it.
PlaceKept == [][\A c \in Issued : c \in Issued' /\ Place(c)' = Place(c)]_credentials

\* A credential that was issued stays so, with the purpose, status list and index
\* its holder has in it, whatever updates, creations and deletions commit in
\* between and however often a transaction ran again, on Redis too, where an update
\* may write a record it read before it was deleted
\* (core/service/credential/service.go:420-466, 505-545).
THEOREM StatusPlaceKept == Spec => PlaceKept
<1>1. BaseInv /\ [Next]_vars =>
        [\A c \in Issued : c \in Issued' /\ Place(c)' = Place(c)]_credentials
  <2> SUFFICES ASSUME BaseInv, [Next]_vars, ~UNCHANGED credentials, NEW c \in Issued
               PROVE  c \in Issued' /\ Place(c)' = Place(c)
    OBVIOUS
  <2>0. TypeOK /\ c \in Credential
    BY DEF BaseInv, Issued
  <2>1. ASSUME NEW r \in Request, Commit(r)
        PROVE  c \in Issued' /\ Place(c)' = Place(c)
    <3>1. CASE c \notin DOMAIN writes[r].credentials
      <4>1. credentials'[c] = credentials[c]
        BY <2>0, <2>1, <3>1, Committed
      <4> QED BY <4>1 DEF Issued, Place
    <3>2. CASE c \in DOMAIN writes[r].credentials
      <4>1. credentials'[c] = writes[r].credentials[c]
        BY <2>0, <2>1, <3>2, Committed
      <4>2. HandlerOK(r) /\ step[r] = "queued" /\ credentials[c].state # "new"
        BY <2>1 DEF BaseInv, Commit, Issued
      <4>3. Updating(r)
        BY <3>2, <4>2 DEF HandlerOK, Creating
      <4>4. /\ writes[r].credentials[c].state = "stored"
            /\ writes[r].credentials[c].purpose = credentials[c].purpose
            /\ writes[r].credentials[c].list = credentials[c].list
            /\ writes[r].credentials[c].index = credentials[c].index
        BY <3>2, <4>2, <4>3 DEF Updating
      <4> QED BY <2>0, <4>1, <4>4 DEF Issued, Place
    <3> QED BY <3>1, <3>2
  <2>2. ASSUME NEW d \in Credential, DeleteCredential(d)
        PROVE  c \in Issued' /\ Place(c)' = Place(c)
    <3>1. /\ credentials'[c].state # "new"
          /\ credentials'[c].purpose = credentials[c].purpose
          /\ credentials'[c].list = credentials[c].list
          /\ credentials'[c].index = credentials[c].index
      BY <2>0, <2>2, Deleted DEF Issued
    <3> QED BY <2>0, <3>1 DEF Issued, Place
  <2>3. UNCHANGED credentials \/ (\E r \in Request : Commit(r))
          \/ (\E d \in Credential : DeleteCredential(d))
    BY DEF Next, vars, stored, SchemaRoutes, CreateSchema, DeleteSchema, CreateRoutes,
           CreateCredentials, QueueCreation, Queue, StatusRoutes, UpdateStatuses, QueueUpdate,
           Open, Retry, Abandon
  <2> QED BY <2>1, <2>2, <2>3
<1> QED BY <1>1, StatusBaseInvariant, PTL DEF Spec, PlaceKept

------------------------------------------------------------------------------
\* Requests create one credential each, and the pools have indexes left.
CreatesOne ==
  MaxCreate = 1 /\ IsFiniteSet(Credential) /\ Cardinality(Credential) < PoolSize

IssuedOf(p) == {c \in Issued : credentials[c].purpose = p}

\* The credentials of a purpose are in its list, which one of them made.
SharedLists ==
  \A p \in Purpose :
    /\ HasList(p) => lists[p].id \in IssuedOf(p)
    /\ \A c \in IssuedOf(p) : HasList(p) /\ credentials[c].list = lists[p].id

\* Their indexes were given out, each once, and no more than there are.
IndexesGiven ==
  \A p \in Purpose :
    /\ \A c \in IssuedOf(p) : \E k \in 1..currentIndex[p] : credentials[c].index = pools[p][k]
    /\ \A c, d \in IssuedOf(p) : credentials[c].index = credentials[d].index => c = d
    /\ HasList(p) => currentIndex[p] <= Cardinality(IssuedOf(p))

\* Of a creation that is not stale: what it read is still so.
CreationFresh(r) ==
  \E c \in Credential : \E order \in [{c} -> Shuffle] :
    /\ request[r].ids = {c}
    /\ writes[r] = Creation({c}, request[r].purpose, order, c)

CreationOK(r) ==
  request[r].kind = "create" =>
    /\ \E c \in Credential : request[r].ids = {c}
    /\ step[r] = "queued" /\ r \notin stale => CreationFresh(r)

\* An update keeps the id of the list.
UpdateOK(r) ==
  request[r].kind = "update" /\ step[r] = "queued" =>
    writes[r].lists[request[r].purpose].id = lists[request[r].purpose].id

GivenInv ==
  /\ SharedLists /\ IndexesGiven
  /\ \A r \in Request : CreationOK(r) /\ UpdateOK(r)


LEMMA CreationSame ==
  ASSUME NEW p, lists'[p].id = lists[p].id, pools'[p] = pools[p],
         currentIndex'[p] = currentIndex[p], NEW batch, NEW order, NEW last
  PROVE  Creation(batch, p, order, last)' = Creation(batch, p, order, last)
BY DEF Creation, Missing, Entry, HasList, NextIndex

\* A handler that another one's step does not change.
LEMMA OtherGiven ==
  ASSUME NEW q \in Request, CreationOK(q), UpdateOK(q),
         step'[q] = step[q], request'[q] = request[q], writes'[q] = writes[q],
         request[q].kind = "create" /\ step[q] = "queued" /\ q \notin stale' =>
           LET p == request[q].purpose
           IN /\ q \notin stale
              /\ lists'[p].id = lists[p].id
              /\ pools'[p] = pools[p] /\ currentIndex'[p] = currentIndex[p],
         request[q].kind = "update" /\ step[q] = "queued" =>
           lists'[request[q].purpose].id = lists[request[q].purpose].id
  PROVE  CreationOK(q)' /\ UpdateOK(q)'
<1>1. CreationOK(q)'
  <2> SUFFICES ASSUME request[q].kind = "create", step[q] = "queued", q \notin stale'
               PROVE  CreationFresh(q)'
    BY DEF CreationOK
  <2>1. PICK c \in Credential : \E order \in [{c} -> Shuffle] :
          /\ request[q].ids = {c}
          /\ writes[q] = Creation({c}, request[q].purpose, order, c)
    BY DEF CreationOK, CreationFresh
  <2>2. PICK order \in [{c} -> Shuffle] :
          /\ request[q].ids = {c}
          /\ writes[q] = Creation({c}, request[q].purpose, order, c)
    BY <2>1
  <2>3. PICK p : p = request[q].purpose
    OBVIOUS
  <2>4. writes'[q] = Creation({c}, p, order, c)'
    BY <2>2, <2>3, CreationSame
  <2>5. request'[q].ids = {c} /\ request'[q].purpose = p
    BY <2>2, <2>3
  <2> QED BY <2>4, <2>5 DEF CreationFresh
<1>2. UpdateOK(q)'
  BY DEF UpdateOK
<1> QED BY <1>1, <1>2

\* Steps that give out no index and make no list.
LEMMA GivenSame ==
  ASSUME TypeOK, SharedLists, IndexesGiven, Issued' = Issued,
         \A c \in Issued :
           /\ credentials'[c].purpose = credentials[c].purpose
           /\ credentials'[c].list = credentials[c].list
           /\ credentials'[c].index = credentials[c].index,
         \A p \in Purpose :
           /\ lists'[p].id = lists[p].id
           /\ pools'[p] = pools[p] /\ currentIndex'[p] = currentIndex[p]
  PROVE  SharedLists' /\ IndexesGiven'
<1>1. \A p : IssuedOf(p)' = IssuedOf(p)
  BY DEF IssuedOf
<1>2. SharedLists'
  BY <1>1 DEF SharedLists, HasList, IssuedOf
<1>3. IndexesGiven'
  BY <1>1 DEF IndexesGiven, HasList, IssuedOf
<1> QED BY <1>2, <1>3

LEMMA GivenStays ==
  ASSUME TypeOK, GivenInv, NEW r \in Request, UNCHANGED stored,
         \A q \in Request \ {r} :
           step'[q] = step[q] /\ request'[q] = request[q] /\ writes'[q] = writes[q],
         stale \ {r} = stale' \ {r}, CreationOK(r)', UpdateOK(r)'
  PROVE  GivenInv'
<1>1. SharedLists' /\ IndexesGiven'
  <2>1. Issued' = Issued /\ UNCHANGED <<credentials, lists, pools, currentIndex>>
    BY DEF Issued, stored
  <2> QED BY <2>1, GivenSame DEF GivenInv
<1>2. ASSUME NEW q \in Request \ {r} PROVE CreationOK(q)' /\ UpdateOK(q)'
  <2>1. UNCHANGED <<lists, pools, currentIndex>>
    BY DEF stored
  <2>2. q \notin stale' => q \notin stale
    OBVIOUS
  <2>3. CreationOK(q) /\ UpdateOK(q)
    BY DEF GivenInv
  <2> QED BY <2>1, <2>2, <2>3, OtherGiven
<1> QED BY <1>1, <1>2 DEF GivenInv

\* A batch of at most one credential is one credential.
LEMMA OneOfBatch ==
  ASSUME CreatesOne, NEW batch \in Batches(1)
  PROVE  \E c \in Credential : batch = {c}
<1>1. batch \in SUBSET Credential /\ batch # {} /\ Cardinality(batch) <= 1
  BY DEF Batches
<1>2. IsFiniteSet(batch)
  BY <1>1, FS_Subset DEF CreatesOne
<1>3. Cardinality(batch) = 1
  BY <1>1, <1>2, FS_EmptySet, FS_CardinalityType
<1>4. PICK c : batch = {c}
  BY <1>2, <1>3, FS_Singleton
<1> QED BY <1>1, <1>4

LEMMA GivenCreate ==
  ASSUME BaseInv, GivenInv, CreatesOne, NEW r \in Request,
         NEW batch \in Batches(MaxCreate), NEW p \in Purpose, CreateCredentials(r, batch, p)
  PROVE  GivenInv'
<1>1. /\ step' = [step EXCEPT ![r] = "open"] /\ UNCHANGED <<stored, writes>>
      /\ request' = [request EXCEPT ![r] = [kind |-> "create", ids |-> batch, purpose |-> p]]
      /\ stale' = stale \ {r}
  BY DEF CreateCredentials, GoTo
<1>2. step'[r] = "open" /\ request'[r] = [kind |-> "create", ids |-> batch, purpose |-> p]
  BY <1>1 DEF BaseInv, TypeOK
<1>3. CreationOK(r)' /\ UpdateOK(r)'
  BY <1>2, OneOfBatch DEF CreationOK, UpdateOK, CreatesOne
<1>4. \A q \in Request \ {r} :
        step'[q] = step[q] /\ request'[q] = request[q] /\ writes'[q] = writes[q]
  BY <1>1 DEF BaseInv, TypeOK
<1> QED BY <1>1, <1>3, <1>4, GivenStays DEF BaseInv

LEMMA GivenQueueCreation ==
  ASSUME BaseInv, GivenInv, NEW r \in Request, QueueCreation(r)
  PROVE  GivenInv'
<1>0. request[r].kind = "create" /\ step[r] = "open"
  BY DEF QueueCreation
<1>1. PICK c \in Credential : request[r].ids = {c}
  BY <1>0 DEF GivenInv, CreationOK
<1>2. PICK order \in [{c} -> Shuffle] : Queue(r, Creation({c}, request[r].purpose, order, c))
  BY <1>1 DEF QueueCreation
<1>3. PICK p : p = request[r].purpose
  OBVIOUS
<1>4. /\ writes' = [writes EXCEPT ![r] = Creation({c}, p, order, c)]
      /\ step' = [step EXCEPT ![r] = "queued"] /\ UNCHANGED <<stored, request, stale>>
  BY <1>2, <1>3 DEF Queue, GoTo
<1>5. writes'[r] = Creation({c}, p, order, c)
  BY <1>4 DEF BaseInv, TypeOK
<1>6. Creation({c}, p, order, c)' = Creation({c}, p, order, c)
  BY <1>4, CreationSame DEF stored
<1>7. CreationFresh(r)'
  BY <1>1, <1>3, <1>4, <1>5, <1>6 DEF CreationFresh
<1>8. CreationOK(r)' /\ UpdateOK(r)'
  BY <1>0, <1>1, <1>4, <1>7 DEF CreationOK, UpdateOK
<1>9. \A q \in Request \ {r} :
        step'[q] = step[q] /\ request'[q] = request[q] /\ writes'[q] = writes[q]
  BY <1>4 DEF BaseInv, TypeOK
<1> QED BY <1>4, <1>8, <1>9, GivenStays DEF BaseInv

LEMMA GivenUpdateStatuses ==
  ASSUME BaseInv, GivenInv, NEW r \in Request, NEW update, UpdateStatuses(r, update)
  PROVE  GivenInv'
<1>1. PICK p \in Purpose :
        request' = [request EXCEPT ![r] = [kind |-> "update", statuses |-> update, purpose |-> p]]
  BY DEF UpdateStatuses
<1>2. /\ step' = [step EXCEPT ![r] = "watching"] /\ UNCHANGED <<stored, writes, stale>>
  BY DEF UpdateStatuses, GoTo
<1>3. step'[r] = "watching"
      /\ request'[r] = [kind |-> "update", statuses |-> update, purpose |-> p]
  BY <1>1, <1>2 DEF BaseInv, TypeOK
<1>4. CreationOK(r)' /\ UpdateOK(r)'
  BY <1>3 DEF CreationOK, UpdateOK
<1>5. \A q \in Request \ {r} :
        step'[q] = step[q] /\ request'[q] = request[q] /\ writes'[q] = writes[q]
  BY <1>1, <1>2 DEF BaseInv, TypeOK
<1> QED BY <1>2, <1>4, <1>5, GivenStays DEF BaseInv

LEMMA GivenQueueUpdate ==
  ASSUME BaseInv, GivenInv, NEW r \in Request, QueueUpdate(r)
  PROVE  GivenInv'
<1> DEFINE update == request[r].statuses
<1>0. request[r].kind = "update" /\ step[r] = "open" /\ HandlerOK(r)
  BY DEF QueueUpdate, BaseInv
<1>1. PICK last \in Changed(update) : Queue(r, Update(update, last))
  BY DEF QueueUpdate
<1>2. /\ writes' = [writes EXCEPT ![r] = Update(update, last)]
      /\ step' = [step EXCEPT ![r] = "queued"] /\ UNCHANGED <<stored, request, stale>>
  BY <1>1 DEF Queue, GoTo
<1>3. writes'[r] = Update(update, last) /\ step'[r] = "queued"
  BY <1>2 DEF BaseInv, TypeOK
<1>4. last \in Issued /\ credentials[last].purpose = request[r].purpose
      /\ request[r].purpose \in Purpose
  BY <1>0, NoRequestKind, RequestType DEF HandlerOK, Updating, Changed, BaseInv
<1>5. writes'[r].lists[request[r].purpose].id = credentials[last].list
  <2>1. Update(update, last).lists = Published(last, update[last])
    BY DEF Update
  <2>2. Published(last, update[last])[credentials[last].purpose].id = credentials[last].list
    BY DEF Published
  <2> QED BY <1>3, <1>4, <2>1, <2>2
<1>6. credentials[last].list = lists[request[r].purpose].id
  BY <1>4 DEF GivenInv, SharedLists, IssuedOf
<1>7. CreationOK(r)' /\ UpdateOK(r)'
  BY <1>0, <1>2, <1>5, <1>6 DEF CreationOK, UpdateOK, stored
<1>8. \A q \in Request \ {r} :
        step'[q] = step[q] /\ request'[q] = request[q] /\ writes'[q] = writes[q]
  BY <1>2 DEF BaseInv, TypeOK
<1> QED BY <1>2, <1>7, <1>8, GivenStays DEF BaseInv

LEMMA GivenOpen ==
  ASSUME BaseInv, GivenInv, NEW r \in Request, Open(r) \/ Retry(r) \/ Abandon(r)
  PROVE  GivenInv'
<1>1. /\ UNCHANGED stored /\ stale \ {r} = stale' \ {r}
      /\ \A q \in Request \ {r} :
           step'[q] = step[q] /\ request'[q] = request[q] /\ writes'[q] = writes[q]
      /\ step'[r] # "queued" /\ request'[r] \in {request[r], NoRequest}
  BY DEF BaseInv, TypeOK, Open, Retry, Abandon, End, GoTo
<1>2. CreationOK(r)' /\ UpdateOK(r)'
  BY <1>1, NoRequestKind DEF CreationOK, UpdateOK, GivenInv
<1> QED BY <1>1, <1>2, GivenStays DEF BaseInv

LEMMA GivenDelete ==
  ASSUME BaseInv, GivenInv, SchemaRoutes \/ \E c \in Credential : DeleteCredential(c)
  PROVE  GivenInv'
<1>1. /\ UNCHANGED <<lists, pools, currentIndex, handlers>>
      /\ Issued' = Issued
      /\ \A c \in Issued :
           /\ credentials'[c].purpose = credentials[c].purpose
           /\ credentials'[c].list = credentials[c].list
           /\ credentials'[c].index = credentials[c].index
  <2>1. CASE SchemaRoutes
    BY <2>1 DEF SchemaRoutes, CreateSchema, DeleteSchema, Issued
  <2>2. CASE \E c \in Credential : DeleteCredential(c)
    BY <2>2, Deleted DEF Issued, BaseInv
  <2> QED BY <2>1, <2>2
<1>2. SharedLists' /\ IndexesGiven'
  BY <1>1, GivenSame DEF GivenInv, BaseInv
<1>3. ASSUME NEW q \in Request PROVE CreationOK(q)' /\ UpdateOK(q)'
  BY <1>1, OtherGiven DEF GivenInv, handlers
<1> QED BY <1>2, <1>3 DEF GivenInv

\* What another transaction that stays good has watched was not written.
LEMMA WatchedUnwritten ==
  ASSUME TypeOK, NEW r \in Request, Commit(r), NEW q \in Request \ {r},
         step[q] = "queued", q \notin stale', request[q].purpose \in Purpose
  PROVE  LET p == request[q].purpose
         IN /\ q \notin stale
            /\ p \notin DOMAIN writes[r].lists
            /\ request[q].kind = "create" =>
                 p \notin DOMAIN writes[r].pools /\ p \notin DOMAIN writes[r].currentIndex
<1> DEFINE p == request[q].purpose
<1>1. q \notin stale /\ Watched(request[q]) \cap Written(writes[r]) = {}
  BY DEF Commit, InTransaction
<1>2. <<"list", p>> \in Watched(request[q])
  BY DEF Watched
<1>3. request[q].kind = "create" =>
        <<"pool", p>> \in Watched(request[q]) /\ <<"index", p>> \in Watched(request[q])
  BY DEF Watched
<1>4. /\ p \in DOMAIN writes[r].lists => <<"list", p>> \in Written(writes[r])
      /\ p \in DOMAIN writes[r].pools => <<"pool", p>> \in Written(writes[r])
      /\ p \in DOMAIN writes[r].currentIndex => <<"index", p>> \in Written(writes[r])
  BY DEF Written
<1> QED BY <1>1, <1>2, <1>3, <1>4

\* What a creation of c commits is what it would read now.
Created(c, p, order) ==
  /\ credentials[c].state = "new" /\ credentials'[c] = Entry(c, p, order)
  /\ \A d \in Credential \ {c} : credentials'[d] = credentials[d]
  /\ \A q \in Purpose \ {p} :
       lists'[q] = lists[q] /\ pools'[q] = pools[q] /\ currentIndex'[q] = currentIndex[q]
  /\ currentIndex'[p] = NextIndex(p)
  /\ HasList(p) => lists'[p] = lists[p] /\ pools'[p] = pools[p]
  /\ ~HasList(p) =>
       lists'[p] = [id |-> c, purpose |-> p, entries |-> {}] /\ pools'[p] = order[c]

LEMMA CommittedCreation ==
  ASSUME BaseInv, GivenInv, NEW r \in Request, Commit(r), request[r].kind = "create"
  PROVE  \E c \in Credential : \E order \in [{c} -> Shuffle] : \E p \in Purpose :
           p = request[r].purpose /\ Created(c, p, order)
<1>1. PICK c \in Credential : \E order \in [{c} -> Shuffle] :
        /\ request[r].ids = {c}
        /\ writes[r] = Creation({c}, request[r].purpose, order, c)
  BY DEF Commit, GivenInv, CreationOK, CreationFresh
<1>2. PICK order \in [{c} -> Shuffle] :
        /\ request[r].ids = {c}
        /\ writes[r] = Creation({c}, request[r].purpose, order, c)
  BY <1>1
<1>3. PICK p \in Purpose : p = request[r].purpose
  BY RequestType DEF BaseInv
<1>4. writes[r] = Creation({c}, p, order, c)
  BY <1>2, <1>3
<1>5. credentials[c].state = "new"
  BY <1>2, NoRequestKind DEF BaseInv, HandlerOK, Creating
<1>6. /\ writes[r].credentials = [d \in {c} |-> Entry(d, p, order)]
      /\ writes[r].lists = [q \in Missing(p) |-> [id |-> c, purpose |-> q, entries |-> {}]]
      /\ writes[r].pools = [q \in Missing(p) |-> order[c]]
      /\ writes[r].currentIndex = [q \in {p} |-> NextIndex(q)]
  BY <1>4 DEF Creation
<1>7. TypeOK
  BY DEF BaseInv
<1>8. credentials'[c] = Entry(c, p, order)
  BY <1>6, <1>7, Committed
<1>9. \A d \in Credential \ {c} : credentials'[d] = credentials[d]
  BY <1>6, <1>7, Committed
<1>10. \A q \in Purpose \ {p} :
         lists'[q] = lists[q] /\ pools'[q] = pools[q] /\ currentIndex'[q] = currentIndex[q]
  BY <1>6, <1>7, Committed DEF Missing
<1>11. currentIndex'[p] = NextIndex(p)
  BY <1>6, <1>7, Committed
<1>12. HasList(p) => lists'[p] = lists[p] /\ pools'[p] = pools[p]
  BY <1>6, <1>7, Committed DEF Missing
<1>13. ~HasList(p) =>
         lists'[p] = [id |-> c, purpose |-> p, entries |-> {}] /\ pools'[p] = order[c]
  <2> SUFFICES ASSUME ~HasList(p)
               PROVE  lists'[p] = [id |-> c, purpose |-> p, entries |-> {}]
                      /\ pools'[p] = order[c]
    OBVIOUS
  <2>1. p \in Missing(p)
    BY DEF Missing
  <2>2. /\ p \in DOMAIN writes[r].lists /\ p \in DOMAIN writes[r].pools
        /\ writes[r].lists[p] = [id |-> c, purpose |-> p, entries |-> {}]
        /\ writes[r].pools[p] = order[c]
    BY <1>6, <2>1
  <2> QED BY <1>7, <2>2, Committed
<1> QED BY <1>3, <1>5, <1>8, <1>9, <1>10, <1>11, <1>12, <1>13 DEF Created

LEMMA GivenCommitCreation ==
  ASSUME BaseInv, GivenInv, CreatesOne, NEW r \in Request, Commit(r),
         request[r].kind = "create"
  PROVE  SharedLists' /\ IndexesGiven' /\ \A p \in Purpose \ {request[r].purpose} :
           lists'[p] = lists[p] /\ pools'[p] = pools[p] /\ currentIndex'[p] = currentIndex[p]
<1>1. PICK c \in Credential : \E order \in [{c} -> Shuffle] : \E p \in Purpose :
        p = request[r].purpose /\ Created(c, p, order)
  BY CommittedCreation
<1>2. PICK order \in [{c} -> Shuffle], p \in Purpose :
        p = request[r].purpose /\ Created(c, p, order)
  BY <1>1
<1>3. /\ credentials'[c].state = "stored" /\ credentials'[c].purpose = p
      /\ credentials'[c].list = IF HasList(p) THEN lists[p].id ELSE c
      /\ credentials'[c].index =
           IF HasList(p) THEN pools[p][currentIndex[p] + 1] ELSE order[c][1]
  BY <1>2 DEF Entry, Created
<1>4. c \notin Issued
  BY <1>2 DEF Issued, Created
<1>5. IssuedOf(p)' = IssuedOf(p) \cup {c}
  BY <1>2, <1>3, <1>4 DEF IssuedOf, Issued, Created
<1>6. \A q \in Purpose \ {p} : IssuedOf(q)' = IssuedOf(q)
  BY <1>2, <1>3, <1>4 DEF IssuedOf, Issued, Created
<1>7. c \in IssuedOf(p)'
  BY <1>5
<1>8. SharedLists'
  <2> SUFFICES ASSUME NEW q \in Purpose
               PROVE  /\ HasList(q)' => lists'[q].id \in IssuedOf(q)'
                      /\ \A d \in IssuedOf(q)' : HasList(q)' /\ credentials'[d].list = lists'[q].id
    BY DEF SharedLists
  <2>1. CASE q # p
    <3>1. \A d \in IssuedOf(q) : d # c
      BY <1>4 DEF IssuedOf
    <3>2. \A d \in IssuedOf(q) : credentials'[d] = credentials[d]
      BY <1>2, <3>1 DEF IssuedOf, Issued, Created
    <3>3. lists'[q] = lists[q] /\ IssuedOf(q)' = IssuedOf(q)
      BY <1>2, <1>6, <2>1 DEF Created
    <3> QED BY <3>2, <3>3 DEF GivenInv, SharedLists, HasList
  <2>2. CASE q = p /\ HasList(p)
    <3>1. lists'[p] = lists[p] /\ credentials'[c].list = lists[p].id
      BY <1>2, <1>3, <2>2 DEF Created
    <3>2. \A d \in IssuedOf(p) : credentials'[d] = credentials[d]
      BY <1>2, <1>4 DEF IssuedOf, Issued, Created
    <3> QED BY <1>5, <2>2, <3>1, <3>2 DEF GivenInv, SharedLists, HasList
  <2>3. CASE q = p /\ ~HasList(p)
    <3>1. IssuedOf(p) = {}
      BY <2>3 DEF GivenInv, SharedLists
    <3>2. lists'[p].id = c /\ credentials'[c].list = c /\ c # NoList
      BY <1>2, <1>3, <2>3, NoListAssumption DEF Created
    <3> QED BY <1>5, <2>3, <3>1, <3>2 DEF HasList
  <2> QED BY <2>1, <2>2, <2>3
<1>9. IndexesGiven'
  <2> SUFFICES ASSUME NEW q \in Purpose
               PROVE  /\ \A d \in IssuedOf(q)' : \E k \in 1..currentIndex'[q] :
                           credentials'[d].index = pools'[q][k]
                      /\ \A d, e \in IssuedOf(q)' :
                           credentials'[d].index = credentials'[e].index => d = e
                      /\ HasList(q)' => currentIndex'[q] <= Cardinality(IssuedOf(q)')
    BY DEF IndexesGiven
  <2>0. \A d \in IssuedOf(q) : credentials'[d] = credentials[d]
    BY <1>2, <1>4 DEF IssuedOf, Issued, Created
  <2>1. CASE q # p
    <3>1. IssuedOf(q)' = IssuedOf(q) /\ lists'[q] = lists[q]
          /\ pools'[q] = pools[q] /\ currentIndex'[q] = currentIndex[q]
      BY <1>2, <1>6, <2>1 DEF Created
    <3> QED BY <2>0, <3>1 DEF GivenInv, IndexesGiven, HasList
  <2>2. CASE q = p /\ HasList(p)
    <3>1. pools[p] \in Shuffle /\ pools'[p] = pools[p]
      BY <1>2, <2>2 DEF BaseInv, PoolsMade, Created
    <3>2. currentIndex[p] \in Nat
      BY PoolSizeAssumption DEF BaseInv, TypeOK, Count
    <3>3. IssuedOf(p) \in SUBSET (Credential \ {c}) /\ IsFiniteSet(Credential)
      BY <1>4 DEF IssuedOf, Issued, CreatesOne
    <3>4. IsFiniteSet(IssuedOf(p)) /\ Cardinality(IssuedOf(p)) \in Nat
          /\ Cardinality(IssuedOf(p)) <= Cardinality(Credential) - 1
          /\ Cardinality(Credential) \in Nat
      <4>1. IsFiniteSet(Credential \ {c}) /\ Cardinality(Credential \ {c}) = Cardinality(Credential) - 1
        BY <3>3, FS_RemoveElement
      <4>2. IsFiniteSet(IssuedOf(p)) /\ Cardinality(IssuedOf(p)) <= Cardinality(Credential \ {c})
        BY <3>3, <4>1, FS_Subset
      <4> QED BY <3>3, <4>1, <4>2, FS_CardinalityType
    <3>5. currentIndex[p] <= Cardinality(IssuedOf(p))
      BY <2>2 DEF GivenInv, IndexesGiven
    <3>6. currentIndex[p] < PoolSize - 1
      BY <3>2, <3>4, <3>5, PoolSizeAssumption DEF CreatesOne
    <3>7. currentIndex'[p] = currentIndex[p] + 1
      BY <1>2, <2>2, <3>2, <3>6, PoolSizeAssumption DEF NextIndex, Created
    <3>8. Cardinality(IssuedOf(p)') = Cardinality(IssuedOf(p)) + 1
      BY <1>5, <3>3, <3>4, FS_AddElement
    <3>9. credentials'[c].index = pools[p][currentIndex[p] + 1]
      BY <1>3, <2>2
    <3>10. ASSUME NEW d \in IssuedOf(p) PROVE credentials'[d].index # credentials'[c].index
      <4>1. PICK k \in 1..currentIndex[p] : credentials[d].index = pools[p][k]
        BY DEF GivenInv, IndexesGiven
      <4>2. k \in 1..PoolSize /\ currentIndex[p] + 1 \in 1..PoolSize /\ k # currentIndex[p] + 1
        BY <3>2, <3>6, PoolSizeAssumption
      <4>3. pools[p][k] # pools[p][currentIndex[p] + 1]
        BY <3>1, <4>2, ShuffleAssumption
      <4> QED BY <2>0, <2>2, <3>9, <4>1, <4>3
    <3>11. \A d, e \in IssuedOf(p)' : credentials'[d].index = credentials'[e].index => d = e
      BY <1>5, <2>0, <2>2, <3>10 DEF GivenInv, IndexesGiven
    <3>12. ASSUME NEW d \in IssuedOf(p)'
           PROVE  \E k \in 1..currentIndex'[p] : credentials'[d].index = pools'[p][k]
      <4>1. CASE d = c
        BY <3>1, <3>2, <3>7, <3>9, <4>1
      <4>2. CASE d # c
        <5>1. PICK k \in 1..currentIndex[p] : credentials[d].index = pools[p][k]
          BY <1>5, <4>2 DEF GivenInv, IndexesGiven
        <5>2. k \in 1..currentIndex'[p] /\ credentials'[d] = credentials[d]
          BY <1>5, <2>0, <2>2, <3>2, <3>7, <4>2
        <5> QED BY <3>1, <5>1, <5>2
      <4> QED BY <4>1, <4>2
    <3> QED BY <2>2, <3>2, <3>4, <3>5, <3>7, <3>8, <3>11, <3>12
  <2>3. CASE q = p /\ ~HasList(p)
    <3>1. IssuedOf(p) = {} /\ IssuedOf(p)' = {c}
      BY <1>5, <2>3 DEF GivenInv, SharedLists
    <3>2. currentIndex'[p] = 1 /\ pools'[p] = order[c] /\ credentials'[c].index = order[c][1]
      BY <1>2, <1>3, <2>3 DEF NextIndex, Created
    <3>3. Cardinality(IssuedOf(p)') = 1
      BY <3>1, FS_Singleton
    <3> QED BY <2>3, <3>1, <3>2, <3>3
  <2> QED BY <2>1, <2>2, <2>3
<1> QED BY <1>2, <1>8, <1>9 DEF Created

\* An update commits new statuses of issued credentials, and a list under its id.
LEMMA CommittedUpdate ==
  ASSUME BaseInv, NEW r \in Request, Commit(r), request[r].kind = "update"
  PROVE  /\ request[r].purpose \in Purpose
         /\ Issued' = Issued
         /\ \A c \in Issued :
              /\ credentials'[c].purpose = credentials[c].purpose
              /\ credentials'[c].list = credentials[c].list
              /\ credentials'[c].index = credentials[c].index
         /\ UNCHANGED <<pools, currentIndex>>
         /\ \A p \in Purpose \ {request[r].purpose} : lists'[p] = lists[p]
         /\ lists'[request[r].purpose] = writes[r].lists[request[r].purpose]
<1>0. TypeOK /\ step[r] = "queued"
  BY DEF BaseInv, Commit
<1>1. Updating(r) /\ request[r].purpose \in Purpose
  BY <1>0, NoRequestKind, RequestType DEF BaseInv, HandlerOK
<1>2. /\ DOMAIN writes[r].credentials \in SUBSET Issued
      /\ \A c \in DOMAIN writes[r].credentials :
           /\ writes[r].credentials[c].state = "stored"
           /\ writes[r].credentials[c].purpose = credentials[c].purpose
           /\ writes[r].credentials[c].list = credentials[c].list
           /\ writes[r].credentials[c].index = credentials[c].index
      /\ DOMAIN writes[r].lists = {request[r].purpose}
      /\ DOMAIN writes[r].pools = {} /\ DOMAIN writes[r].currentIndex = {}
  BY <1>0, <1>1 DEF Updating
<1>3. /\ Issued' = Issued
      /\ \A c \in Issued :
           /\ credentials'[c].purpose = credentials[c].purpose
           /\ credentials'[c].list = credentials[c].list
           /\ credentials'[c].index = credentials[c].index
  BY <1>0, <1>2, Committed DEF Issued
<1>4. UNCHANGED <<pools, currentIndex>>
  <2>1. /\ pools \in [Purpose -> Shuffle \cup {<<>>}] /\ pools' \in [Purpose -> Shuffle \cup {<<>>}]
        /\ currentIndex \in [Purpose -> Count] /\ currentIndex' \in [Purpose -> Count]
    BY <1>0, Committed DEF TypeOK
  <2>2. \A p \in Purpose : pools'[p] = pools[p] /\ currentIndex'[p] = currentIndex[p]
    BY <1>0, <1>2, Committed
  <2> QED BY <2>1, <2>2
<1>5. /\ \A p \in Purpose \ {request[r].purpose} : lists'[p] = lists[p]
      /\ lists'[request[r].purpose] = writes[r].lists[request[r].purpose]
  BY <1>0, <1>1, <1>2, Committed
<1> QED BY <1>1, <1>3, <1>4, <1>5

LEMMA GivenCommit ==
  ASSUME BaseInv, GivenInv, CreatesOne, NEW r \in Request, Commit(r)
  PROVE  GivenInv'
<1>0. TypeOK /\ HandlerOK(r) /\ step[r] = "queued"
  BY DEF BaseInv, Commit
<1>1. request[r].kind \in {"create", "update"} /\ request[r].purpose \in Purpose
  BY <1>0, RequestType DEF HandlerOK
<1>2. /\ SharedLists' /\ IndexesGiven'
      /\ \A p \in Purpose : p \notin DOMAIN writes[r].lists => lists'[p] = lists[p]
      /\ \A p \in Purpose : HasList(p) => lists'[p].id = lists[p].id
  <2>1. CASE request[r].kind = "create"
    <3>1. PICK c \in Credential : \E order \in [{c} -> Shuffle] : \E p \in Purpose :
            p = request[r].purpose /\ Created(c, p, order)
      BY <2>1, CommittedCreation
    <3>2. \A p \in Purpose : HasList(p) => lists'[p].id = lists[p].id
      BY <3>1 DEF Created
    <3> QED BY <1>0, <2>1, <3>2, GivenCommitCreation, Committed
  <2>2. CASE request[r].kind = "update"
    <3>1. lists'[request[r].purpose].id = lists[request[r].purpose].id
      BY <1>0, <2>2, CommittedUpdate DEF GivenInv, UpdateOK
    <3>2. \A p \in Purpose : lists'[p].id = lists[p].id
      BY <2>2, <3>1, CommittedUpdate
    <3>3. SharedLists' /\ IndexesGiven'
      BY <1>0, <2>2, <3>2, CommittedUpdate, GivenSame DEF GivenInv
    <3> QED BY <1>0, <3>2, <3>3, Committed
  <2> QED BY <1>1, <2>1, <2>2
<1>3. ASSUME NEW q \in Request PROVE CreationOK(q)' /\ UpdateOK(q)'
  <2>1. CASE q = r
    <3>1. request'[r] = NoRequest
      BY <1>0 DEF Commit, End, TypeOK
    <3> QED BY <2>1, <3>1, NoRequestKind DEF CreationOK, UpdateOK
  <2>2. CASE q # r
    <3>1. step'[q] = step[q] /\ request'[q] = request[q] /\ writes'[q] = writes[q]
      BY <1>0, <2>2 DEF TypeOK, Commit, End, GoTo
    <3>2. ASSUME request[q].kind = "create", step[q] = "queued", q \notin stale'
          PROVE  LET p == request[q].purpose
                 IN /\ q \notin stale
                    /\ lists'[p].id = lists[p].id
                    /\ pools'[p] = pools[p] /\ currentIndex'[p] = currentIndex[p]
      <4>1. request[q].purpose \in Purpose
        BY <1>0, <3>2, RequestType
      <4>2. /\ q \notin stale
            /\ request[q].purpose \notin DOMAIN writes[r].lists
            /\ request[q].purpose \notin DOMAIN writes[r].pools
            /\ request[q].purpose \notin DOMAIN writes[r].currentIndex
        BY <1>0, <2>2, <3>2, <4>1, WatchedUnwritten
      <4> QED BY <1>0, <4>1, <4>2, Committed
    <3>3. ASSUME request[q].kind = "update", step[q] = "queued"
          PROVE  lists'[request[q].purpose].id = lists[request[q].purpose].id
      <4>1. HandlerOK(q) /\ request[q].purpose \in Purpose
        BY <1>0, <3>3, RequestType DEF BaseInv
      <4>2. Updating(q)
        BY <3>3, <4>1, NoRequestKind DEF HandlerOK
      <4>3. PICK c \in DOMAIN writes[q].credentials : c \in IssuedOf(request[q].purpose)
        BY <3>3, <4>2 DEF Updating, IssuedOf
      <4>4. HasList(request[q].purpose)
        BY <4>1, <4>3 DEF GivenInv, SharedLists
      <4> QED BY <1>2, <4>1, <4>4
    <3>4. CreationOK(q) /\ UpdateOK(q)
      BY DEF GivenInv
    <3> QED BY <3>1, <3>2, <3>3, <3>4, OtherGiven
  <2> QED BY <2>1, <2>2
<1> QED BY <1>2, <1>3 DEF GivenInv

LEMMA GivenInit == Init => GivenInv
<1> SUFFICES ASSUME Init PROVE GivenInv
  OBVIOUS
<1>1. Issued = {}
  BY DEF Init, Issued
<1>2. \A p \in Purpose : ~HasList(p) /\ IssuedOf(p) = {}
  BY <1>1 DEF Init, HasList, IssuedOf
<1>3. SharedLists /\ IndexesGiven
  BY <1>2 DEF SharedLists, IndexesGiven
<1>4. \A r \in Request : CreationOK(r) /\ UpdateOK(r)
  BY NoRequestKind DEF Init, CreationOK, UpdateOK
<1> QED BY <1>3, <1>4 DEF GivenInv

LEMMA GivenStep == ASSUME BaseInv, GivenInv, CreatesOne, [Next]_vars PROVE GivenInv'
<1>1. CASE UNCHANGED vars
  <2>1. SharedLists' /\ IndexesGiven'
    <3>1. Issued' = Issued /\ UNCHANGED <<credentials, lists, pools, currentIndex>>
      BY <1>1 DEF Issued, vars, stored
    <3> QED BY <3>1, GivenSame DEF GivenInv, BaseInv
  <2>2. ASSUME NEW q \in Request PROVE CreationOK(q)' /\ UpdateOK(q)'
    <3>1. UNCHANGED <<lists, pools, currentIndex, step, request, writes, stale>>
      BY <1>1 DEF vars, stored, handlers
    <3> QED BY <3>1, OtherGiven DEF GivenInv
  <2> QED BY <2>1, <2>2 DEF GivenInv
<1>2. CASE SchemaRoutes \/ \E c \in Credential : DeleteCredential(c)
  BY <1>2, GivenDelete
<1>3. ASSUME NEW r \in Request, CreateRoutes(r) PROVE GivenInv'
  BY <1>3, GivenCreate, GivenQueueCreation DEF CreateRoutes
<1>4. ASSUME NEW r \in Request, StatusRoutes(r) PROVE GivenInv'
  BY <1>4, GivenUpdateStatuses, GivenQueueUpdate DEF StatusRoutes
<1>5. ASSUME NEW r \in Request, Open(r) \/ Commit(r) \/ Retry(r) \/ Abandon(r) PROVE GivenInv'
  BY <1>5, GivenOpen, GivenCommit
<1> QED BY <1>1, <1>2, <1>3, <1>4, <1>5 DEF Next

\* Although creations overlap, each has an index of its own out of the pool of the
\* one list of its purpose (core/service/credential/service.go:95-134).
THEOREM StatusGivenInvariant == ASSUME CreatesOne PROVE Spec => []GivenInv
<1>1. BaseInv /\ GivenInv /\ [Next]_vars => GivenInv'
  BY GivenStep
<1> QED BY <1>1, GivenInit, StatusBaseInvariant, PTL DEF Spec

\* All credentials of a purpose, deleted ones too, are in the list that is published,
\* whatever updates and batches of updates write of it
\* (core/service/credential/status.go:19-67).
THEOREM StatusListShared == ASSUME CreatesOne PROVE Spec => []ListShared
<1>1. BaseInv /\ GivenInv => ListShared
  <2> SUFFICES ASSUME BaseInv, GivenInv, NEW c \in Issued
               PROVE  credentials[c].list = lists[credentials[c].purpose].id
    BY DEF ListShared
  <2>1. credentials[c].purpose \in Purpose
    BY DEF BaseInv, TypeOK, CredentialRecord, Issued
  <2> QED BY <2>1 DEF GivenInv, SharedLists, IssuedOf
<1> QED BY <1>1, StatusGivenInvariant, StatusBaseInvariant, PTL

\* No two credentials ever issued share an index of one list, those of different
\* purposes because their lists took their ids from credentials of theirs
\* (core/service/credential/service.go:95-134, storage.go:164-189).
THEOREM StatusIndexUnique == ASSUME CreatesOne PROVE Spec => []IndexUnique
<1>1. BaseInv /\ GivenInv => IndexUnique
  <2> SUFFICES ASSUME BaseInv, GivenInv, NEW c \in Issued, NEW d \in Issued,
                      credentials[c].list = credentials[d].list,
                      credentials[c].index = credentials[d].index
               PROVE  c = d
    BY DEF IndexUnique
  <2>1. credentials[c].purpose \in Purpose /\ credentials[d].purpose \in Purpose
    BY DEF BaseInv, TypeOK, CredentialRecord, Issued
  <2>2. /\ credentials[c].list \in IssuedOf(credentials[c].purpose)
        /\ credentials[d].list \in IssuedOf(credentials[d].purpose)
    BY <2>1 DEF GivenInv, SharedLists, IssuedOf
  <2>3. credentials[c].purpose = credentials[d].purpose
    BY <2>2 DEF IssuedOf
  <2> QED BY <2>1, <2>3 DEF GivenInv, IndexesGiven, IssuedOf
<1> QED BY <1>1, StatusGivenInvariant, StatusBaseInvariant, PTL
------------------------------------------------------------------------------
\* An update changes the status of one credential, to revoked or suspended.
UpdatesOne == CreatesOne /\ MaxUpdate = 1 /\ ~CanReset

Marked(c) == credentials[c].revoked \/ credentials[c].suspended

\* A status is of the kind the credential was made for.
Kinds ==
  /\ \A c \in Credential :
       /\ credentials[c].revoked => credentials[c].purpose = "revocation"
       /\ credentials[c].suspended => credentials[c].purpose = "suspension"
  /\ \A p \in Purpose : lists[p].purpose = p

\* A list tells of issued credentials that are revoked or suspended, and of all
\* that are stored.
Entries ==
  \A p \in Purpose :
    /\ \A i \in lists[p].entries : \E c \in IssuedOf(p) : credentials[c].index = i /\ Marked(c)
    /\ \A c \in IssuedOf(p) \cap Stored : Marked(c) => credentials[c].index \in lists[p].entries

\* Of an update that is not stale: the list it will write does so with its change.
UpdateFresh(r, c) ==
  LET p == request[r].purpose
      w == writes[r]
  IN /\ DOMAIN w.credentials = {c}
     /\ w.credentials[c].revoked \/ w.credentials[c].suspended
     /\ w.credentials[c].revoked => p = "revocation"
     /\ w.credentials[c].suspended => p = "suspension"
     /\ w.lists[p].purpose = p
     /\ \A i \in w.lists[p].entries :
          \E d \in IssuedOf(p) : credentials[d].index = i /\ (d = c \/ Marked(d))
     /\ credentials[c].index \in w.lists[p].entries
     /\ \A d \in IssuedOf(p) \cap Stored :
          Marked(d) => credentials[d].index \in w.lists[p].entries

PublishOK(r) ==
  request[r].kind = "update" =>
    \E c \in Credential :
      /\ DOMAIN request[r].statuses = {c}
      /\ request[r].statuses[c].revoked \/ request[r].statuses[c].suspended
      /\ step[r] = "queued" /\ r \notin stale => UpdateFresh(r, c)

PublishInv ==
  /\ Kinds /\ Entries
  /\ \A r \in Request : PublishOK(r)

\* A handler that another one's step does not change, when what it will publish
\* stays right.
LEMMA OtherPublish ==
  ASSUME NEW q \in Request, PublishOK(q),
         step'[q] = step[q], request'[q] = request[q], writes'[q] = writes[q],
         ASSUME request[q].kind = "update", step[q] = "queued", q \notin stale',
                NEW c \in Credential, DOMAIN request[q].statuses = {c}
         PROVE  /\ q \notin stale
                /\ UpdateFresh(q, c) => UpdateFresh(q, c)'
  PROVE  PublishOK(q)'
<1> SUFFICES ASSUME request[q].kind = "update"
             PROVE  PublishOK(q)'
  BY DEF PublishOK
<1>1. PICK c \in Credential :
        /\ DOMAIN request[q].statuses = {c}
        /\ request[q].statuses[c].revoked \/ request[q].statuses[c].suspended
        /\ step[q] = "queued" /\ q \notin stale => UpdateFresh(q, c)
  BY DEF PublishOK
<1>2. step'[q] = "queued" /\ q \notin stale' => UpdateFresh(q, c)'
  BY <1>1
<1> QED BY <1>1, <1>2 DEF PublishOK

\* What the other steps leave of the list and credentials of a purpose.
SamePurpose(p) ==
  /\ lists'[p] = lists[p]
  /\ \A c \in IssuedOf(p) :
       /\ c \in IssuedOf(p)'
       /\ credentials'[c].index = credentials[c].index
       /\ Marked(c)' <=> Marked(c)
  /\ \A c \in IssuedOf(p)' : c \in IssuedOf(p) \/ ~Marked(c)'
  /\ \A c \in IssuedOf(p) \cap Stored' : Marked(c) => c \in Stored

LEMMA EntriesSame ==
  ASSUME NEW p \in Purpose, Entries, SamePurpose(p)
  PROVE  /\ \A i \in lists'[p].entries :
              \E c \in IssuedOf(p)' : credentials'[c].index = i /\ Marked(c)'
         /\ \A c \in IssuedOf(p)' \cap Stored' :
              Marked(c)' => credentials'[c].index \in lists'[p].entries
<1>1. ASSUME NEW i \in lists'[p].entries
      PROVE  \E c \in IssuedOf(p)' : credentials'[c].index = i /\ Marked(c)'
  <2>1. PICK c \in IssuedOf(p) : credentials[c].index = i /\ Marked(c)
    BY DEF Entries, SamePurpose
  <2> QED BY <2>1 DEF SamePurpose
<1>2. ASSUME NEW c \in IssuedOf(p)' \cap Stored', Marked(c)'
      PROVE  credentials'[c].index \in lists'[p].entries
  BY <1>2 DEF Entries, SamePurpose
<1> QED BY <1>1, <1>2

LEMMA FreshSame ==
  ASSUME NEW q \in Request, NEW c \in Credential, NEW p \in Purpose, p = request[q].purpose,
         SamePurpose(p), UpdateFresh(q, c), c \in IssuedOf(p),
         request'[q] = request[q], writes'[q] = writes[q]
  PROVE  UpdateFresh(q, c)'
<1> DEFINE w == writes[q]
<1>1. /\ DOMAIN w.credentials = {c}
      /\ w.credentials[c].revoked \/ w.credentials[c].suspended
      /\ w.credentials[c].revoked => p = "revocation"
      /\ w.credentials[c].suspended => p = "suspension"
      /\ w.lists[p].purpose = p
  BY DEF UpdateFresh
<1>2. ASSUME NEW i \in w.lists[p].entries
      PROVE  \E d \in IssuedOf(p)' : credentials'[d].index = i /\ (d = c \/ Marked(d)')
  <2>1. PICK d \in IssuedOf(p) : credentials[d].index = i /\ (d = c \/ Marked(d))
    BY DEF UpdateFresh
  <2> QED BY <2>1 DEF SamePurpose
<1>3. credentials'[c].index \in w.lists[p].entries
  BY DEF UpdateFresh, SamePurpose
<1>4. ASSUME NEW d \in IssuedOf(p)' \cap Stored', Marked(d)'
      PROVE  credentials'[d].index \in w.lists[p].entries
  BY <1>4 DEF UpdateFresh, SamePurpose
<1> HIDE DEF w
<1>5. writes'[q] = w /\ request'[q].purpose = p
  BY DEF w
<1> QED BY <1>1, <1>2, <1>3, <1>4, <1>5 DEF UpdateFresh

\* An update asks for a credential that is issued for the purpose.
LEMMA UpdatedIssued ==
  ASSUME BaseInv, NEW q \in Request, request[q].kind = "update",
         NEW c \in DOMAIN request[q].statuses
  PROVE  request[q].purpose \in Purpose /\ c \in IssuedOf(request[q].purpose)
BY NoRequestKind, RequestType DEF BaseInv, HandlerOK, Updating, IssuedOf

\* The list of a purpose and its credentials stay what they are: so does what is
\* published, and what the updates for the purpose will publish.
LEMMA PublishSame ==
  ASSUME BaseInv, PublishInv, Kinds', \A p \in Purpose : SamePurpose(p)
  PROVE  /\ Entries'
         /\ \A q \in Request :
              /\ step'[q] = step[q] /\ request'[q] = request[q] /\ writes'[q] = writes[q]
              /\ q \notin stale' => q \notin stale
              => PublishOK(q)'
<1>1. Entries'
  <2>1. \A p \in Purpose :
          /\ \A i \in lists'[p].entries :
               \E c \in IssuedOf(p)' : credentials'[c].index = i /\ Marked(c)'
          /\ \A c \in IssuedOf(p)' \cap Stored' :
               Marked(c)' => credentials'[c].index \in lists'[p].entries
    BY EntriesSame DEF PublishInv
  <2> QED BY <2>1 DEF Entries
<1>2. ASSUME NEW q \in Request,
             step'[q] = step[q] /\ request'[q] = request[q] /\ writes'[q] = writes[q],
             q \notin stale' => q \notin stale
      PROVE  PublishOK(q)'
  <2>1. ASSUME request[q].kind = "update", step[q] = "queued", q \notin stale',
               NEW c \in Credential, DOMAIN request[q].statuses = {c}
        PROVE  /\ q \notin stale
               /\ UpdateFresh(q, c) => UpdateFresh(q, c)'
    <3>1. request[q].purpose \in Purpose /\ c \in IssuedOf(request[q].purpose)
      BY <2>1, UpdatedIssued
    <3> QED BY <1>2, <2>1, <3>1, FreshSame
  <2> QED BY <1>2, <2>1, OtherPublish DEF PublishInv
<1> QED BY <1>1, <1>2

LEMMA SameStore ==
  ASSUME UNCHANGED stored
  PROVE  (\A p \in Purpose : SamePurpose(p)) /\ (Kinds => Kinds')
<1>1. UNCHANGED <<credentials, lists>>
  BY DEF stored
<1>2. Issued' = Issued /\ Stored' = Stored /\ \A c : Marked(c)' <=> Marked(c)
  BY <1>1 DEF Issued, Stored, Marked
<1>3. \A p : IssuedOf(p)' = IssuedOf(p)
  BY <1>1, <1>2 DEF IssuedOf
<1> QED BY <1>1, <1>2, <1>3 DEF SamePurpose, Kinds

LEMMA PublishStays ==
  ASSUME BaseInv, PublishInv, NEW r \in Request, UNCHANGED stored,
         \A q \in Request \ {r} :
           step'[q] = step[q] /\ request'[q] = request[q] /\ writes'[q] = writes[q],
         stale \ {r} = stale' \ {r}, PublishOK(r)'
  PROVE  PublishInv'
<1>1. Kinds' /\ \A p \in Purpose : SamePurpose(p)
  BY SameStore DEF PublishInv
<1> QED BY <1>1, PublishSame DEF PublishInv

LEMMA PublishCreate ==
  ASSUME BaseInv, PublishInv, NEW r \in Request, NEW batch, NEW p \in Purpose,
         CreateCredentials(r, batch, p)
  PROVE  PublishInv'
<1>1. /\ step' = [step EXCEPT ![r] = "open"] /\ UNCHANGED <<stored, writes>>
      /\ request' = [request EXCEPT ![r] = [kind |-> "create", ids |-> batch, purpose |-> p]]
      /\ stale' = stale \ {r}
  BY DEF CreateCredentials, GoTo
<1>2. request'[r] = [kind |-> "create", ids |-> batch, purpose |-> p]
  BY <1>1 DEF BaseInv, TypeOK
<1>3. PublishOK(r)'
  BY <1>2 DEF PublishOK
<1>4. \A q \in Request \ {r} :
        step'[q] = step[q] /\ request'[q] = request[q] /\ writes'[q] = writes[q]
  BY <1>1 DEF BaseInv, TypeOK
<1> QED BY <1>1, <1>3, <1>4, PublishStays

LEMMA PublishQueueCreation ==
  ASSUME BaseInv, PublishInv, NEW r \in Request, QueueCreation(r)
  PROVE  PublishInv'
<1>1. PICK queue : Queue(r, queue)
  BY DEF QueueCreation
<1>2. /\ writes' = [writes EXCEPT ![r] = queue]
      /\ step' = [step EXCEPT ![r] = "queued"] /\ UNCHANGED <<stored, request, stale>>
  BY <1>1 DEF Queue, GoTo
<1>3. PublishOK(r)'
  BY <1>2 DEF PublishOK, QueueCreation
<1>4. \A q \in Request \ {r} :
        step'[q] = step[q] /\ request'[q] = request[q] /\ writes'[q] = writes[q]
  BY <1>2 DEF BaseInv, TypeOK
<1> QED BY <1>2, <1>3, <1>4, PublishStays

LEMMA PublishUpdateStatuses ==
  ASSUME BaseInv, PublishInv, UpdatesOne, NEW r \in Request, NEW batch \in Batches(MaxUpdate),
         NEW update \in [batch -> Status], Resets(update) => CanReset,
         UpdateStatuses(r, update)
  PROVE  PublishInv'
<1>1. PICK p \in Purpose :
        request' = [request EXCEPT ![r] = [kind |-> "update", statuses |-> update, purpose |-> p]]
  BY DEF UpdateStatuses
<1>2. /\ step' = [step EXCEPT ![r] = "watching"] /\ UNCHANGED <<stored, writes, stale>>
  BY DEF UpdateStatuses, GoTo
<1>3. step'[r] = "watching"
      /\ request'[r] = [kind |-> "update", statuses |-> update, purpose |-> p]
  BY <1>1, <1>2 DEF BaseInv, TypeOK
<1>4. PICK c \in Credential : batch = {c}
  BY OneOfBatch DEF UpdatesOne
<1>5. DOMAIN update = {c} /\ (update[c].revoked \/ update[c].suspended)
  BY <1>4 DEF UpdatesOne, Resets
<1>6. PublishOK(r)'
  BY <1>3, <1>5 DEF PublishOK
<1>7. \A q \in Request \ {r} :
        step'[q] = step[q] /\ request'[q] = request[q] /\ writes'[q] = writes[q]
  BY <1>1, <1>2 DEF BaseInv, TypeOK
<1> QED BY <1>2, <1>6, <1>7, PublishStays

LEMMA PublishOpen ==
  ASSUME BaseInv, PublishInv, NEW r \in Request, Open(r) \/ Retry(r) \/ Abandon(r)
  PROVE  PublishInv'
<1>1. /\ UNCHANGED stored /\ stale \ {r} = stale' \ {r}
      /\ \A q \in Request \ {r} :
           step'[q] = step[q] /\ request'[q] = request[q] /\ writes'[q] = writes[q]
      /\ step'[r] # "queued" /\ request'[r] \in {request[r], NoRequest}
  BY DEF BaseInv, TypeOK, Open, Retry, Abandon, End, GoTo
<1>2. PublishOK(r)'
  BY <1>1, NoRequestKind DEF PublishOK, PublishInv
<1> QED BY <1>1, <1>2, PublishStays

\* What an update queues.
LEMMA PublishQueueUpdate ==
  ASSUME BaseInv, GivenInv, PublishInv, NEW r \in Request, QueueUpdate(r)
  PROVE  PublishInv'
<1> DEFINE update == request[r].statuses
<1>0. request[r].kind = "update" /\ step[r] = "open"
  BY DEF QueueUpdate
<1>1. PICK c \in Credential :
        /\ DOMAIN update = {c}
        /\ update[c].revoked \/ update[c].suspended
  BY <1>0 DEF PublishInv, PublishOK
<1>2. PICK last \in Changed(update) : Queue(r, Update(update, last))
  BY DEF QueueUpdate
<1>3. last = c /\ Changed(update) = {c}
  BY <1>1, <1>2 DEF Changed
<1>4. PICK p \in Purpose : p = request[r].purpose /\ c \in IssuedOf(p)
  BY <1>0, <1>1, UpdatedIssued
<1>5. /\ c \in Stored /\ ~(update[c].revoked /\ update[c].suspended)
      /\ CanGenerate(Listed(c, update[c]), PurposeOf(update[c]))
  BY <1>1, <1>3 DEF QueueUpdate, Found
<1>6. /\ writes' = [writes EXCEPT ![r] = Update(update, c)]
      /\ step' = [step EXCEPT ![r] = "queued"] /\ UNCHANGED <<stored, request, stale>>
  BY <1>2, <1>3 DEF Queue, GoTo
<1> DEFINE w == Update(update, c)
<1>7. writes'[r] = w
  BY <1>6 DEF BaseInv, TypeOK
<1>8. credentials[c].purpose = p
  BY <1>4 DEF IssuedOf
<1>9. PurposeOf(update[c]) = p
  <2>1. c \in Listed(c, update[c])
    BY <1>1 DEF Listed
  <2> QED BY <1>5, <1>8, <2>1 DEF CanGenerate
<1>10. /\ update[c].revoked <=> p = "revocation"
       /\ update[c].suspended <=> p = "suspension"
  BY <1>1, <1>5, <1>9 DEF PurposeOf
<1>11. /\ DOMAIN w.credentials = {c}
       /\ w.credentials[c].revoked = update[c].revoked
       /\ w.credentials[c].suspended = update[c].suspended
  <2>1. w.credentials = [d \in {c} |->
          [credentials[d] EXCEPT !.state = "stored", !.revoked = update[d].revoked,
                                 !.suspended = update[d].suspended]]
    BY <1>3 DEF Update
  <2>2. credentials[c] \in CredentialRecord
    BY DEF BaseInv, TypeOK
  <2> HIDE DEF w, update
  <2>3. w.credentials[c] =
          [credentials[c] EXCEPT !.state = "stored", !.revoked = update[c].revoked,
                                 !.suspended = update[c].suspended]
    BY <2>1
  <2>4. w.credentials[c].revoked = update[c].revoked
    BY <2>2, <2>3 DEF CredentialRecord
  <2>5. w.credentials[c].suspended = update[c].suspended
    BY <2>2, <2>3 DEF CredentialRecord
  <2> QED BY <2>1, <2>4, <2>5
<1>12. /\ w.lists[p].purpose = p
       /\ w.lists[p].entries = {credentials[d].index : d \in Listed(c, update[c])}
  <2>1. w.lists = Published(c, update[c])
    BY DEF Update
  <2> QED BY <1>8, <1>9, <2>1 DEF Published
<1>13. \A d \in Listed(c, update[c]) : d \in IssuedOf(p) /\ (d = c \/ Marked(d))
  <2> SUFFICES ASSUME NEW d \in Listed(c, update[c])
               PROVE  d \in IssuedOf(p) /\ (d = c \/ Marked(d))
    OBVIOUS
  <2>1. credentials[d].purpose = p
    BY <1>5, <1>9 DEF CanGenerate
  <2>2. d \in Issued
    BY <1>4 DEF Listed, Stored, Issued, IssuedOf
  <2> QED BY <2>1, <2>2 DEF IssuedOf, Listed, Marked
<1>14. \A d \in IssuedOf(p) \cap Stored : Marked(d) => d \in Listed(c, update[c])
  <2> SUFFICES ASSUME NEW d \in IssuedOf(p) \cap Stored, Marked(d), d # c
               PROVE  d \in Listed(c, update[c])
    BY <1>1 DEF Listed
  <2>1. /\ credentials[d].revoked => p = "revocation"
        /\ credentials[d].suspended => p = "suspension"
    BY DEF PublishInv, Kinds, IssuedOf, Issued
  <2>2. \/ update[c].revoked /\ credentials[d].revoked
        \/ ~update[c].revoked /\ update[c].suspended /\ credentials[d].suspended
    BY <1>10, <2>1 DEF Marked
  <2> QED BY <2>2 DEF Listed
<1>15. c \in Listed(c, update[c])
  BY <1>1 DEF Listed
<1> HIDE DEF w
<1>17. UpdateFresh(r, c)'
  <2>1. \A i \in w.lists[p].entries :
          \E d \in IssuedOf(p) : credentials[d].index = i /\ (d = c \/ Marked(d))
    BY <1>12, <1>13
  <2>2. credentials[c].index \in w.lists[p].entries
    BY <1>12, <1>15
  <2>3. \A d \in IssuedOf(p) \cap Stored :
          Marked(d) => credentials[d].index \in w.lists[p].entries
    BY <1>12, <1>14
  <2>4. IssuedOf(p)' = IssuedOf(p) /\ Stored' = Stored /\ \A d : Marked(d)' <=> Marked(d)
    BY <1>6 DEF IssuedOf, Issued, Stored, Marked, stored
  <2>5. request'[r].purpose = p /\ UNCHANGED credentials
    BY <1>4, <1>6 DEF stored
  <2>6. /\ w.credentials[c].revoked \/ w.credentials[c].suspended
        /\ w.credentials[c].revoked => p = "revocation"
        /\ w.credentials[c].suspended => p = "suspension"
    BY <1>1, <1>10, <1>11
  <2> QED BY <1>7, <1>11, <1>12, <2>1, <2>2, <2>3, <2>4, <2>5, <2>6 DEF UpdateFresh
<1>18. PublishOK(r)'
  BY <1>1, <1>6, <1>17 DEF PublishOK
<1>19. \A q \in Request \ {r} :
        step'[q] = step[q] /\ request'[q] = request[q] /\ writes'[q] = writes[q]
  BY <1>6 DEF BaseInv, TypeOK
<1> QED BY <1>6, <1>18, <1>19, PublishStays

LEMMA PublishDelete ==
  ASSUME BaseInv, PublishInv, SchemaRoutes \/ \E c \in Credential : DeleteCredential(c)
  PROVE  PublishInv'
<1>1. /\ UNCHANGED <<lists, handlers>>
      /\ \A d \in Credential :
           /\ credentials'[d].state # "new" <=> credentials[d].state # "new"
           /\ credentials'[d].state = "stored" => credentials[d].state = "stored"
           /\ credentials'[d].purpose = credentials[d].purpose
           /\ credentials'[d].index = credentials[d].index
           /\ credentials'[d].revoked = credentials[d].revoked
           /\ credentials'[d].suspended = credentials[d].suspended
  <2>1. CASE SchemaRoutes
    BY <2>1 DEF SchemaRoutes, CreateSchema, DeleteSchema
  <2>2. CASE \E c \in Credential : DeleteCredential(c)
    <3>1. PICK c \in Credential : DeleteCredential(c)
      BY <2>2
    <3> QED BY <3>1, Deleted DEF BaseInv
  <2> QED BY <2>1, <2>2
<1>2. Issued' = Issued /\ Stored' \in SUBSET Stored
      /\ \A c \in Credential : Marked(c)' <=> Marked(c)
  BY <1>1 DEF Issued, Stored, Marked
<1>3. \A p : IssuedOf(p)' = IssuedOf(p)
  BY <1>1, <1>2 DEF IssuedOf, Issued
<1>4. \A p \in Purpose : SamePurpose(p)
  BY <1>1, <1>2, <1>3 DEF SamePurpose, IssuedOf, Issued
<1>5. Kinds'
  BY <1>1 DEF PublishInv, Kinds
<1>6. \A q \in Request :
        /\ step'[q] = step[q] /\ request'[q] = request[q] /\ writes'[q] = writes[q]
        /\ q \notin stale' => q \notin stale
  BY <1>1 DEF handlers
<1> QED BY <1>4, <1>5, <1>6, PublishSame DEF PublishInv

\* A creation adds a credential that is neither revoked nor suspended.
LEMMA PublishCommitCreation ==
  ASSUME BaseInv, GivenInv, PublishInv, NEW r \in Request, Commit(r),
         request[r].kind = "create"
  PROVE  PublishInv'
<1>0. TypeOK /\ step[r] = "queued"
  BY DEF BaseInv, Commit
<1>1. PICK c \in Credential : \E order \in [{c} -> Shuffle] : \E p \in Purpose :
        p = request[r].purpose /\ Created(c, p, order)
  BY CommittedCreation
<1>2. PICK order \in [{c} -> Shuffle], p \in Purpose :
        p = request[r].purpose /\ Created(c, p, order)
  BY <1>1
<1>3. /\ credentials'[c].state = "stored" /\ credentials'[c].purpose = p
      /\ ~credentials'[c].revoked /\ ~credentials'[c].suspended
  BY <1>2 DEF Entry, Created
<1>4. c \notin Issued /\ \A d \in Credential \ {c} : credentials'[d] = credentials[d]
  BY <1>2 DEF Created, Issued
<1>5. Kinds'
  <2>1. \A s \in Purpose : lists'[s].purpose = s
    BY <1>2 DEF Created, PublishInv, Kinds
  <2>2. ASSUME NEW d \in Credential
        PROVE  /\ credentials'[d].revoked => credentials'[d].purpose = "revocation"
               /\ credentials'[d].suspended => credentials'[d].purpose = "suspension"
    BY <1>3, <1>4 DEF PublishInv, Kinds
  <2> QED BY <2>1, <2>2 DEF Kinds
<1>6. \A d \in Credential \ {c} :
        /\ d \in Issued' <=> d \in Issued
        /\ d \in Stored' <=> d \in Stored
        /\ Marked(d)' <=> Marked(d)
        /\ \A s : d \in IssuedOf(s)' <=> d \in IssuedOf(s)
  BY <1>4 DEF Issued, Stored, Marked, IssuedOf
<1>7. ~Marked(c)' /\ \A s : c \notin IssuedOf(s)
  BY <1>3, <1>4 DEF Marked, IssuedOf
<1>8. ASSUME NEW s \in Purpose, s # p \/ HasList(p) PROVE SamePurpose(s)
  <2>1. lists'[s] = lists[s]
    BY <1>2, <1>8 DEF Created
  <2>2. \A d \in IssuedOf(s) : d \in Credential \ {c}
    BY <1>7 DEF IssuedOf, Issued
  <2>3. \A d \in IssuedOf(s)' : d \in Credential
    BY DEF IssuedOf, Issued
  <2> QED BY <1>4, <1>6, <1>7, <2>1, <2>2, <2>3 DEF SamePurpose
<1>9. ~HasList(p) => lists'[p].entries = {} /\ IssuedOf(p) = {}
  BY <1>2 DEF Created, GivenInv, SharedLists
<1>10. Entries'
  <2> SUFFICES ASSUME NEW s \in Purpose
               PROVE  /\ \A i \in lists'[s].entries :
                           \E d \in IssuedOf(s)' : credentials'[d].index = i /\ Marked(d)'
                      /\ \A d \in IssuedOf(s)' \cap Stored' :
                           Marked(d)' => credentials'[d].index \in lists'[s].entries
    BY DEF Entries
  <2>1. CASE s # p \/ HasList(p)
    BY <1>8, <2>1, EntriesSame DEF PublishInv
  <2>2. CASE s = p /\ ~HasList(p)
    <3>1. \A d \in IssuedOf(s)' : d = c
      BY <1>6, <1>9, <2>2 DEF IssuedOf, Issued
    <3> QED BY <1>7, <1>9, <2>2, <3>1
  <2> QED BY <2>1, <2>2
<1>11. ASSUME NEW q \in Request PROVE PublishOK(q)'
  <2>1. CASE q = r
    <3>1. request'[r] = NoRequest
      BY <1>0 DEF Commit, End, TypeOK
    <3> QED BY <2>1, <3>1, NoRequestKind DEF PublishOK
  <2>2. CASE q # r
    <3>1. step'[q] = step[q] /\ request'[q] = request[q] /\ writes'[q] = writes[q]
      BY <1>0, <2>2 DEF TypeOK, Commit, End, GoTo
    <3>2. ASSUME request[q].kind = "update", step[q] = "queued", q \notin stale',
                 NEW d \in Credential, DOMAIN request[q].statuses = {d}
          PROVE  /\ q \notin stale
                 /\ UpdateFresh(q, d) => UpdateFresh(q, d)'
      <4>1. request[q].purpose \in Purpose /\ d \in IssuedOf(request[q].purpose)
        BY <3>2, UpdatedIssued
      <4>2. q \notin stale
        BY <1>0, <2>2, <3>2, <4>1, WatchedUnwritten
      <4>3. SamePurpose(request[q].purpose)
        BY <1>8, <1>9, <4>1
      <4> QED BY <3>1, <4>1, <4>2, <4>3, FreshSame
    <3> QED BY <3>1, <3>2, OtherPublish DEF PublishInv
  <2> QED BY <2>1, <2>2
<1> QED BY <1>5, <1>10, <1>11 DEF PublishInv

\* An update publishes what it changes.
LEMMA PublishCommitUpdate ==
  ASSUME BaseInv, GivenInv, PublishInv, NEW r \in Request, Commit(r),
         request[r].kind = "update"
  PROVE  PublishInv'
<1>0. TypeOK /\ step[r] = "queued" /\ r \notin stale
  BY DEF BaseInv, Commit
<1>1. PICK c \in Credential :
        DOMAIN request[r].statuses = {c} /\ UpdateFresh(r, c)
  BY <1>0 DEF PublishInv, PublishOK
<1>2. PICK p \in Purpose : p = request[r].purpose /\ c \in IssuedOf(p)
  BY <1>1, UpdatedIssued
<1> DEFINE w == writes[r]
<1>3. /\ Issued' = Issued
      /\ \A d \in Issued : credentials'[d].purpose = credentials[d].purpose
                           /\ credentials'[d].index = credentials[d].index
      /\ \A s \in Purpose \ {p} : lists'[s] = lists[s]
      /\ lists'[p] = w.lists[p]
  BY <1>2, CommittedUpdate
<1>4. /\ DOMAIN w.credentials = {c}
      /\ w.credentials[c].revoked \/ w.credentials[c].suspended
      /\ w.credentials[c].revoked => p = "revocation"
      /\ w.credentials[c].suspended => p = "suspension"
      /\ w.lists[p].purpose = p
      /\ \A i \in w.lists[p].entries :
           \E d \in IssuedOf(p) : credentials[d].index = i /\ (d = c \/ Marked(d))
      /\ credentials[c].index \in w.lists[p].entries
      /\ \A d \in IssuedOf(p) \cap Stored :
           Marked(d) => credentials[d].index \in w.lists[p].entries
  BY <1>1, <1>2 DEF UpdateFresh
<1>5. credentials'[c] = w.credentials[c]
      /\ \A d \in Credential \ {c} : credentials'[d] = credentials[d]
  BY <1>0, <1>4, Committed
<1> HIDE DEF w
<1>6. Marked(c)'
  BY <1>4, <1>5 DEF Marked
<1>7. \A s : IssuedOf(s)' = IssuedOf(s)
  BY <1>3 DEF IssuedOf
<1>8. \A d \in Credential \ {c} : (d \in Stored' <=> d \in Stored) /\ (Marked(d)' <=> Marked(d))
  BY <1>5 DEF Stored, Marked
<1>9. credentials'[c].purpose = p
  BY <1>2, <1>3 DEF IssuedOf
<1>10. Kinds'
  <2>1. \A s \in Purpose : lists'[s].purpose = s
    BY <1>3, <1>4 DEF PublishInv, Kinds
  <2>2. ASSUME NEW d \in Credential
        PROVE  /\ credentials'[d].revoked => credentials'[d].purpose = "revocation"
               /\ credentials'[d].suspended => credentials'[d].purpose = "suspension"
    BY <1>4, <1>5, <1>9 DEF PublishInv, Kinds
  <2> QED BY <2>1, <2>2 DEF Kinds
<1>11. ASSUME NEW s \in Purpose \ {p} PROVE SamePurpose(s)
  <2>1. \A d \in IssuedOf(s) : d \in Credential \ {c} /\ d \in Issued
    BY <1>2 DEF IssuedOf, Issued
  <2> QED BY <1>3, <1>7, <1>8, <2>1 DEF SamePurpose
<1>12. \A i \in lists'[p].entries :
         \E d \in IssuedOf(p)' : credentials'[d].index = i /\ Marked(d)'
  <2> SUFFICES ASSUME NEW i \in lists'[p].entries
               PROVE  \E d \in IssuedOf(p)' : credentials'[d].index = i /\ Marked(d)'
    OBVIOUS
  <2>1. PICK d \in IssuedOf(p) : credentials[d].index = i /\ (d = c \/ Marked(d))
    BY <1>3, <1>4
  <2>2. d \in Issued /\ d \in Credential
    BY DEF IssuedOf, Issued
  <2>3. credentials'[d].index = i /\ Marked(d)'
    BY <1>3, <1>6, <1>8, <2>1, <2>2
  <2> QED BY <1>7, <2>3
<1>13. \A d \in IssuedOf(p)' \cap Stored' :
         Marked(d)' => credentials'[d].index \in lists'[p].entries
  <2> SUFFICES ASSUME NEW d \in IssuedOf(p)' \cap Stored', Marked(d)'
               PROVE  credentials'[d].index \in lists'[p].entries
    OBVIOUS
  <2>1. d \in IssuedOf(p) /\ d \in Issued /\ d \in Credential
    BY <1>7 DEF IssuedOf, Issued
  <2>2. credentials[d].index \in w.lists[p].entries
    BY <1>4, <1>8, <2>1
  <2> QED BY <1>3, <2>1, <2>2
<1>14. Entries'
  <2> SUFFICES ASSUME NEW s \in Purpose
               PROVE  /\ \A i \in lists'[s].entries :
                           \E d \in IssuedOf(s)' : credentials'[d].index = i /\ Marked(d)'
                      /\ \A d \in IssuedOf(s)' \cap Stored' :
                           Marked(d)' => credentials'[d].index \in lists'[s].entries
    BY DEF Entries
  <2>1. CASE s # p
    BY <1>11, <2>1, EntriesSame DEF PublishInv
  <2>2. CASE s = p
    BY <1>12, <1>13, <2>2
  <2> QED BY <2>1, <2>2
<1>15. ASSUME NEW q \in Request PROVE PublishOK(q)'
  <2>1. CASE q = r
    <3>1. request'[r] = NoRequest
      BY <1>0 DEF Commit, End, TypeOK
    <3> QED BY <2>1, <3>1, NoRequestKind DEF PublishOK
  <2>2. CASE q # r
    <3>1. step'[q] = step[q] /\ request'[q] = request[q] /\ writes'[q] = writes[q]
      BY <1>0, <2>2 DEF TypeOK, Commit, End, GoTo
    <3>2. ASSUME request[q].kind = "update", step[q] = "queued", q \notin stale',
                 NEW d \in Credential, DOMAIN request[q].statuses = {d}
          PROVE  /\ q \notin stale
                 /\ UpdateFresh(q, d) => UpdateFresh(q, d)'
      <4>1. request[q].purpose \in Purpose /\ d \in IssuedOf(request[q].purpose)
        BY <3>2, UpdatedIssued
      <4>2. q \notin stale /\ request[q].purpose \notin DOMAIN writes[r].lists
        BY <1>0, <2>2, <3>2, <4>1, WatchedUnwritten
      <4>3. p \in DOMAIN writes[r].lists
        BY <1>0, <1>2, NoRequestKind DEF BaseInv, HandlerOK, Updating
      <4>4. SamePurpose(request[q].purpose)
        BY <1>11, <4>1, <4>2, <4>3
      <4> QED BY <3>1, <4>1, <4>2, <4>4, FreshSame
    <3> QED BY <3>1, <3>2, OtherPublish DEF PublishInv
  <2> QED BY <2>1, <2>2
<1> QED BY <1>10, <1>14, <1>15 DEF PublishInv

LEMMA PublishInit == Init => PublishInv
<1> SUFFICES ASSUME Init PROVE PublishInv
  OBVIOUS
<1>1. Kinds
  BY DEF Init, Kinds
<1>2. Entries
  BY DEF Init, Entries, IssuedOf, Issued
<1>3. \A r \in Request : PublishOK(r)
  BY NoRequestKind DEF Init, PublishOK
<1> QED BY <1>1, <1>2, <1>3 DEF PublishInv

LEMMA PublishStep ==
  ASSUME BaseInv, GivenInv, PublishInv, UpdatesOne, [Next]_vars PROVE PublishInv'
<1>1. CASE UNCHANGED vars
  <2>1. Kinds' /\ \A p \in Purpose : SamePurpose(p)
    BY <1>1, SameStore DEF PublishInv, vars
  <2>2. UNCHANGED <<step, request, writes, stale>>
    BY <1>1 DEF vars, handlers
  <2> QED BY <2>1, <2>2, PublishSame DEF PublishInv
<1>2. CASE SchemaRoutes \/ \E c \in Credential : DeleteCredential(c)
  BY <1>2, PublishDelete
<1>3. ASSUME NEW r \in Request, CreateRoutes(r) PROVE PublishInv'
  BY <1>3, PublishCreate, PublishQueueCreation DEF CreateRoutes
<1>4. ASSUME NEW r \in Request, StatusRoutes(r) PROVE PublishInv'
  BY <1>4, PublishUpdateStatuses, PublishQueueUpdate DEF StatusRoutes
<1>5. ASSUME NEW r \in Request, Commit(r) PROVE PublishInv'
  <2>1. request[r].kind \in {"create", "update"}
    BY <1>5 DEF BaseInv, HandlerOK, Commit
  <2> QED BY <1>5, <2>1, PublishCommitCreation, PublishCommitUpdate
<1>6. ASSUME NEW r \in Request, Open(r) \/ Retry(r) \/ Abandon(r) PROVE PublishInv'
  BY <1>6, PublishOpen
<1> QED BY <1>1, <1>2, <1>3, <1>4, <1>5, <1>6 DEF Next

\* What an update collected is still right when it commits: whoever changes a status
\* of the purpose in between writes the list, which the update watches
\* (core/service/credential/service.go:420-545).
THEOREM StatusPublishInvariant == ASSUME UpdatesOne PROVE Spec => []PublishInv
<1>1. BaseInv /\ GivenInv /\ PublishInv /\ [Next]_vars => PublishInv'
  BY PublishStep
<1>2. Spec => []GivenInv
  BY StatusGivenInvariant DEF UpdatesOne
<1> QED BY <1>1, <1>2, PublishInit, StatusBaseInvariant, PTL DEF Spec

\* The published list has the bits of exactly the stored credentials that are
\* revoked or suspended (core/service/credential/service.go:505-545).
THEOREM StatusPublishedExactly == ASSUME UpdatesOne PROVE Spec => []PublishedExactly
<1>1. BaseInv /\ GivenInv /\ PublishInv => PublishedExactly
  <2> SUFFICES ASSUME BaseInv, GivenInv, PublishInv, NEW c \in Stored, NEW p,
                      p = credentials[c].purpose
               PROVE  /\ lists[p].purpose = p
                      /\ credentials[c].index \in lists[p].entries <=> Marked(c)
    BY DEF PublishedExactly, Marked
  <2>1. p \in Purpose /\ c \in IssuedOf(p) /\ c \in Stored
    BY DEF BaseInv, TypeOK, CredentialRecord, IssuedOf, Issued, Stored
  <2>2. ASSUME credentials[c].index \in lists[p].entries PROVE Marked(c)
    <3>1. PICK d \in IssuedOf(p) : credentials[d].index = credentials[c].index /\ Marked(d)
      BY <2>1, <2>2 DEF PublishInv, Entries
    <3>2. d = c
      BY <2>1, <3>1 DEF GivenInv, IndexesGiven
    <3> QED BY <3>1, <3>2
  <2>3. Marked(c) => credentials[c].index \in lists[p].entries
    BY <2>1 DEF PublishInv, Entries
  <2> QED BY <2>1, <2>2, <2>3 DEF PublishInv, Kinds
<1>2. Spec => []GivenInv
  BY StatusGivenInvariant DEF UpdatesOne
<1> QED BY <1>1, <1>2, StatusPublishInvariant, StatusBaseInvariant, PTL
==============================================================================
