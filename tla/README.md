# Verification of onchain-access-control

TLA+ specifications of the on-chain access control system in this repository,
model-checked with TLC, with theorems proved by TLAPS.  The reference is the
code; every definition that models code is mapped to its lines in
`PROJECT.json` (`map`).  Paths below are relative to `src/`.

1. The system
2. Modules
3. What is checked
4. What is proved
5. What is not modelled, and what was seen besides

---

## 1. The system

A *resource owner* publishes resources, and the roles, policies and permissions
that open them, as smart contracts.  A *resource user* proves with a zk-SNARK
that its credentials meet a policy, is granted a role on chain and opens a
session; the owner lets a request pass when the chain says that session and role
are in force.  An *issuer* answers applications with verifiable credentials that
can be revoked.  Owner, user and issuer are Go servers (`core/`) over one set of
services, each with a key-value store of its own; the chain is what they share.

### Components, state and operations

| Component | State | Operations |
| --- | --- | --- |
| DID registry `contracts/src/SimpleDIDRegistry.sol` | per identity a list of controllers and the index of the current one | add, remove, change controller; who controls |
| Session registry `contracts/src/SessionRegistry.sol` | sessions (user, expiration), the context handler | start, revoke, valid, change of the handler |
| Access context `contracts/src/AccessContext.sol`, `did/DIDOwnable.sol`, `extension/` | owner DID, context id, roles, policies, assignments and their counter, permissions | grant and revoke role, set up role, register and assign policies and permissions, transfer and renounce ownership, init |
| Context handler `contracts/src/AccessContextHandler.sol` | context id -> clone, the session registry | create and delete a context; forwards grants and sessions |
| Policy verifiers `contracts/src/Policy.sol` | none | verify a proof |
| Access control service `core/service/accesscontrol` | stored access context, stored sessions | create access context, register resource, create and verify session |
| RPC service and wallet `core/service/rpc` | none of its own; the account's nonce lives in the node | four transactions, three reads |
| Authorization service `core/service/auth` | granted roles | grant role, start session |
| Operation service `core/service/operation` | long-running operations | read, cancel; other services store and settle |
| Presentation service `core/service/presentation` | definitions, submissions, requests | create, review, delete |
| Manifest service `core/service/manifest` | manifests, applications, responses | submit, review, delete; automatic issuance |
| Issuance service `core/service/issuance` | templates | create, delete |
| Credential service `core/service/credential` | credentials, status lists, index pools | create, revoke, suspend, batches of both, delete |
| DID service `core/service/did` | DIDs, ION update states | create, update (ION), soft delete, resolve |
| Key store `core/service/keystore` | keys, service key | store, revoke, sign |
| Schema, well-known, IPFS | schemas | create, delete |
| Routers `core/server/router`, middleware, pagination | none; a page token carries its query | what is refused, what reaches a service, what is answered |
| Storage `core/storage` | namespaces of key-value pairs, sealed under the service key | read, write, delete, list page by page, transaction with watched keys; on Bolt or Redis |

### How they interact

* **Contract to contract.**  `AccessContext` and `SessionRegistry` ask the DID
  registry, at every call, which account acts for an owner or user.  A context
  reads a policy of another context through the handler's map.  The handler
  creates clones and forwards `grantRole` and `startSession` to the clone or
  session registry it holds at that moment.  A transaction is atomic.
* **Service to chain.**  A call reads the chain, sends a transaction with a
  nonce it read a step earlier, waits until it is mined, reads again and writes
  its store.  All calls share one account, and other clients use the same
  contracts in between.
* **Service to store.**  A handler runs per HTTP request.  It makes several
  store accesses, each atomic; a few groups are one transaction
  (`UpdateValueAndOperation`, credential batches), most are not
  (`StoreReviewApplication` is three).
* **Service to service.**  Submissions and applications are settled through
  operations, which clients poll and may cancel; an approval of an application
  creates credentials, which draw their index from a status list.

### What is hard here

* *Interleavings* of handlers between store accesses, and of service calls,
  other clients and blocks between chain accesses.
* *State read and used later*: the check for an id, a definition, a template, an
  address, a nonce; the statuses an update of a credential collects; a document
  that is written back whole; a page token.
* *Early ends*: any handler may stop after any access (an error of the store or
  the node, a stop of the server), leaving what it wrote.  An ION update is
  built to be taken up again; nothing else is.
* *Two engines*: Bolt's lock and Redis' watched keys exclude different things,
  and a transaction that is run again must start from nothing.
* *Indirection on chain*: ownership, sessions and cross-context policies are
  resolved late, so a change made in one contract alters what earlier calls in
  another mean; a context id may come to name another clone.
* *Long legal sequences*: swap-with-last removal and its index, contexts that
  are deleted and created again, a second `init`, locked identities.
* *Limits*: the pool of status list indexes; sessions that expire but occupy
  their identifier.

### What makes each component correct

* DID registry: one current controller, inside the list, that only a call of the
  current one can change; a locked identity stays locked.
* Session registry: a session is valid only if it exists, is never renewed or
  taken over once it expired, and stays when its user's identity is locked.
* Access context and handler: access opens only by a grant, a session or the
  setting of a session registry, never by what an earlier life of a context
  left; a policy does not come to mean another verifier, and nothing changes
  where the owner is locked, unless somebody calls `init` again.
* Operations, submissions, applications: settled once for every time they are
  submitted, and clients are told nothing else afterwards, by any route.
* Credentials: an index of a status list belongs to one credential for ever;
  what is published is what is stored.
* Owner's and user's services: what they store and answer about the chain is so;
  the gate lets a token pass only if its subject had the role while it looked; a
  call that waits comes to an end.
* DIDs and keys: what a creation answered is complete, a batch is whole, what is
  kept of an ION DID is never ahead of its network, a deletion lasts, what was
  revoked signs nothing more.
* Storage: each call is as one step, on either engine; what is stored can be
  opened; a listing misses nothing that was there all the time.

Every hazard found in the code is in `PROJECT.json` (`hazards`), with its line
and the properties that would catch it going wrong, or why there is none.

---

## 2. Modules

```
ControllerSet  <--implements--  DIDRegistry  <--EXTENDS--  SessionRegistry
                                     ^                          ^
                               AccessContext  <--EXTENDS--  AccessContextHandler

Verdict  <--implements--  SubmissionReview  <--EXTENDS--  PresentationApi
                               |  INSTANCE
                               v
                           Operations
                               ^  INSTANCE
Docket   <--implements--  ManifestReview    <--EXTENDS--  ManifestApi

Wallet  <--EXTENDS--  OwnerService  <--EXTENDS--  AccessGate

Store  <--implements--  StorageEngine

KeyStore  <--EXTENDS--  DIDService            CredentialStatus
```

The theorems are in `DIDRegistry_proofs`, extended by
`AccessContextHandler_proofs`; `PresentationApi_proofs` (with
`SubmissionReview`); `ManifestApi_proofs` (with `ManifestReview`);
`AccessGate_proofs` (with `OwnerService`); `StorageEngine_proofs`;
`DIDService_proofs`; `CredentialStatus_proofs`.

### On chain

A transaction is one step and a reverted call is no step: the contracts run on a
sequential machine.  `msg.sender` is an argument drawn from `Account`.

* **ControllerSet** is the promise of the DID registry: a set of members and a
  head for each identity, without lists or indexes.
* **DIDRegistry** (`SimpleDIDRegistry.sol`) has `controllers` and
  `currentController` as the contract does, counting the index from 0.
  `AddController`, `RemoveController` and `ChangeController` are the external
  functions with the modifiers; `IdentityFound` is false where `getController`
  reverts.  `RemoveController` keeps the order of the code, which compares the
  moved last entry with `getController` *after* it overwrote the removed one.
* **SessionRegistry** adds `sessions`, `contextHandler` and block time `now`.
  The token of a session is left out; 1 day is `SessionDuration`.
* **AccessContext** has the state of every clone as functions of the clone: a
  clone is named by the salt, owner and id its address is computed from
  (`Deployable` bounds which are explored).  `Init` is a call of `init` on a
  clone in use: anyone may make it, with any owner, id, handler and DID registry.
  A handler or registry that is not the deployed one is `"foreign"` (`Party`) and
  may answer anything: a foreign DID registry names any sender the controller, a
  foreign handler any verifier.  Two overloads of a function are two actions.  `GetPolicy` is the late lookup through `contexts`.  A policy stands
  for its verifier; a verifier in `Satisfiable` is one for which the caller has
  a proof it accepts.
* **AccessContextHandler** composes the four contracts (`HNext`).  Anyone may
  call `CreateContextInstance` and `SetSessionRegistry`, the latter with any
  contract, as in the code: a foreign session registry vouches for any session
  (`HasAccess`) and leaves those of the deployed one alone.  A session with a
  role is one transaction that does both or neither.

### Services

Each handler is a process with a program counter; a step is one access to the
store, the node or a network, and everything a handler decides from what it read
is part of that step.  Handlers may end after any access (`Abandon`, `Stop`).
What is only data (the verification of a token, a schema check) is a choice of
outcome.

* **Verdict** is what a client that polls may rely on: an item goes from unknown
  to undecided to settled with one outcome, and stays there.
* **Docket** is the same for items that may be filed again: a filing opens the
  item, settled or not, or is refused, once; an open item is settled once; and
  nothing but a filing changes what is settled.
* **Operations** holds the record of an operation and one operator for each
  access: `StoreOperation`, `StoreDoneOperation`, and `FinishOperation`, the
  operation's half of the transaction `UpdateValueAndOperation`.
* **SubmissionReview** (`core/service/presentation/service.go`): `CreateSubmission`
  as its four accesses (`LookupSubmission`, `LookupDefinition`, `StoreSubmission`,
  `StoreOperation`), `ReviewSubmission` and `CancelOperation` as one transaction each.
* **PresentationApi** puts the routes on top
  (`server/router/presentation.go`, `operation.go`, `server/pagination`):
  `told` is what a client was told of a submission last, through a submission,
  an operation, a page of either, a review or a cancellation.  `List` reads a
  page and filters it afterwards, as `ListSubmissions` and `ListOperations` do;
  a token carries its query.  Presentation requests are signed and stored.
  `RefuseReview` is the denial that decoding refuses.
* **ManifestReview** (`core/service/manifest`): submission of an application up to
  `ReadTemplate`, where automatic issuance takes over.  The applicant's id of it
  is not looked up: an application that is submitted again is written again as
  pending and its operation opened again, at any time and from several handlers
  at once.  Then `ReviewApplication` from `ReadApplication`; and, common to
  both, `BuildResponse` and the three transactions of `StoreReviewApplication`
  (`UpdateApplication`, `StoreResponse`, `FinishReview`).  Both status types of
  the code are stored in one byte, and the model has the number: approved and
  cancelled are both 4.
* **ManifestApi** puts the routes on top, with `told` as above (`Concludes` and
  `ResultOf` say what the end of a handler answers) and manifest requests.
* **CredentialStatus** (`core/service/credential`, `core/service/schema`): a
  handler opens a transaction (`CreateCredentials`, or `UpdateStatuses`, which
  finds the key to watch before the transaction begins), reads and decides
  (`QueueCreation`, `QueueUpdate`), and commits what it queued, or, on Redis, is
  run again when a key it watches was written (`Watched`, `Written`, `stale`);
  Bolt lets one writer in at a time (`WriterFree`).  Inside a batch every
  request reads what was committed before, since the code reads through the
  database and not through the transaction.  `randomUniqueNum` is a choice from
  `Shuffle`.  One issuer and one schema: the keys of others are disjoint.
* **Wallet** (`core/service/rpc`): nonce and price are taken in one step
  (`ToTransactOpts`) and the transaction is sent in another; the pool and
  block production are external.
* **OwnerService** (`core/service/accesscontrol`): `CreateAccessContext` and
  `RegisterResource` step by step, with other clients that create and delete
  contexts under the same id (`CreateElsewhere`, `DeleteElsewhere`).
* **AccessGate** (`core/service/auth`, `VerifySession`, `server/middleware/auth.go`)
  adds resource users, whose services send `grantRole` and `startSession`, wait
  and store the role or answer the token, also again while transactions of
  earlier calls are unmined (`left`); other clients, which are granted the role
  without a policy, revoke it and end sessions (`GrantElsewhere`,
  `RevokeElsewhere`, `EndSession`); and the owner's gate, which reads the
  context's address, asks the contract *there* for the role, looks for a stored
  session and, if there is one, asks the chain.  A session that is not stored
  passes, as in the code.
* **Store** is the promise of `core/storage`: a call takes effect in one step, on
  the contents of that moment, or not at all, and the answer tells which, except
  that a failed call may have taken effect.
* **StorageEngine** (`core/storage/bolt.go`, `redis.go`, `encrypt.go`,
  `keystore/storage.go`) has both engines.  `LockWriter`/`Commit` are Bolt's
  transaction; `Watch`/`Exec`/`Retry` Redis'; the logic in between (`ReadForUpdate`,
  `Open`, `ReadServiceKey`) is that of `Update`, `UpdateValueAndOperation` and
  `ensureEncryptionKeyExists`, whose reads see what is committed.  `Open` and
  `Seal` use the service key of the moment.  A listing is page by page, Bolt's in
  one snapshot each, Redis' as SCAN and then MGET, where a key that is gone makes
  a listing of values fail.  `listing` holds how often each key was found and
  returned, and the cursor, a place in the order of the keys; a page has a size
  above 0, as the pagination of the routes refuses any other.  `Matches` has Redis' namespaces, which are prefixes.
* **KeyStore** (`core/service/keystore`): a key is two entries, and a store of one
  two writes.  `RevokeKey` reads and writes back.
* **DIDService** (`core/service/did`, `server/router/did.go`): creation of the three
  methods, document first and then the keys; `BatchCreateDIDs` in one
  transaction; the ION update as `PrepareUpdate`, `AnchorTaken` or `AnchorFails`,
  `RecordAnchor`, `ApplyUpdate`, with the network next to it (`network`,
  external), which takes what is signed with the key it was told last;
  `ReadToDelete` and `WriteDeleted`.  `AnswerMethod` is the answer 400 that does
  not end the handler.  `overlapped`, `since` and `withdrawn` are history variables
  for the properties.

Above `StorageEngine` every access, and `Execute`, is one step, which is what
`ImplementsStore` shows of the engines; `CredentialStatus` is the exception, as
its transactions read more than they watch.

`MC*` modules give the constants their values for TLC and add constraints
(`Explored`, below), and nothing else.  Operators whose name has a suffix after an
underscore, marked *MUTANT* in a comment, are plausible bugs: each property has
one that breaks it, which shows that the property can be broken by the code.

---

## 3. What is checked

| Run | Instance | Shows |
| --- | --- | --- |
| `registries` | 2 DIDs, 2 accounts and `address(0)`, lists up to 3, 1 session | the lists implement `ControllerSet`; who acts for an identity changes only by its own choice (`ControllerStable`); locked identities stay locked (`LockedForever`) and so do their sessions (`LockedSessionStays`); a session is valid only if open, and once expired is not renewed or taken over (`NeverRenewed`) |
| `contexts` | 2 contexts, up to 3 clones, 1 account, 2 DIDs, 2 verifiers | no verifier swing (`NoVerifierSwing`), access only from a grant, a session or the setting of a registry (`AccessNeedsGrantOrSession`); nothing changes once the owner is locked, but by a call of `init` (`LockedOwnerFreezes`) |
| `presentation_api` | 2 submissions with ids of their own, 1 definition, 1 request, 3 queries, pages of 1 and 2 | submission and operation are settled together; operations implement `Verdict`; a stored submission becomes reviewable; a listing followed to its end has what was owed (`PagedInFull`); clients are told for good (`ToldForGood`) |
| `manifest_api` | 1 application that is submitted twice, 1 template, 1 review, 1 request | the operation implements `Docket`, is never done while an application that was submitted once reads as pending (`DoneNotPending`), and a fulfilled response has its credentials (`DoneIsFulfilled`); an application a template was found for is settled, or its handler failed; clients are told for good, until it is submitted again |
| `credential_status` | 3 credentials, 2 purposes, 2 handlers, pool of 4, both engines | unique indexes, one shared list, the published list is exact; on Bolt a deleted credential stays deleted |
| `access_gate` | 2 creations, 1 registration, 2 prices, 1 user | the stored address is the registered one; an answered registration is set up in the registered context; what a user stores and answers is on chain (`AnsweredIsOnChain`); a token passes only if its subject held the role meanwhile (`HeldMeanwhile`); waiting ends (`WaitEnds`) |
| `storage` | any 3 of 8 calls, 5 keys in 4 namespaces, both engines, empty or filled | the engines implement `Store`; values can be opened with the stored service key however many instances start (`SealedUnderServiceKey`); a listing has what was there all the time, once (`ListedOnce`); calls end (`CallsEnd`) |
| `did_service` | any 3 of 20 requests about an ION DID, a did:web, did:keys or a key, with existing DIDs or none | completeness of creations, atomic batches, `NeverAhead` and `KeyFollowsNetwork` of ION updates over stops, a deletion that lasts, revoked keys that sign nothing more, and that a request finishes the anchored update it finds (`AnchoredIsFinished`) |

Four runs end in a violation.  Each states what a comment or answer of the
program says and shows what the code does; `findings` quotes both.

| Run | Says | Does |
| --- | --- | --- |
| `doc_unsuspend` | the new status is saved in the encoded list | taking a status back publishes an empty list: the bits of the others are gone |
| `doc_review` | when an application's state is updated, its operation is marked as done | an approval by template finishes the operation, a denial that was begun before has the last word on the status |
| `doc_signature_error` | a refusal by the network means that an update has been applied, and is OK | after a stop between anchoring and recording, the refusal of the update that is sent again ends it as an error, and the network is ahead for good |
| `doc_deny_submission` | after a review the operation is updated with its result | a denial is answered 400 by validation (`required` on a boolean) and never reaches the service |

### Bounds, and why they are enough

* Lists of controllers up to 3 (`MaxControllers`): removal distinguishes the
  first, the last and a middle entry, and whether the current one is moved.  The
  theorems hold for every length.
* Block time up to `MaxTime`, more than one duration after the start, so that
  sessions expire and others are started afterwards.
* `Deployable`: two clones of one id in turn give a deletion and a new life; a
  clone of a second context gives a policy that is read across contexts, and a
  second clone of that one a target that changes.  `MCContexts` explores states
  with policies and no roles or sessions, states with roles and sessions and no
  policies, and states of one clone with everything but sessions (`Explored`):
  `NoVerifierSwing` looks at policies and registrations only, the access property
  at roles, sessions and registrations, `LockedOwnerFreezes` at the changes of
  one clone.  Foreign handlers and registries are those of one instance, the
  handler among policies and either with one clone.  No context is renounced in
  the first part;
  permissions, which nothing else reads, are in the last part only.
* `MaxCount` is 1 in the run: a policy is assigned once.
* The requests of `PresentationApi` run any number of times.  Their ids are their
  own: with one id in two concurrent requests the check of
  `presentation/service.go:222` is passed by both (section 5).  One
  definition and two submissions give every race of their handlers and a listing
  of more than one page.
* One application with two submissions and a review has every race of two
  deciders - a review, a template, a template found a second time - with a
  cancellation and a further submission.  `MaxSubmissions` and `MaxReviews` bound
  the calls, each of which builds at most one response, and two handlers run at
  the same time in the states explored; the theorems have any number.
* `credential_status` has one request a call (`MaxCreate`, `MaxUpdate`, which
  correspond to `BatchCreateMaxItems` and `BatchUpdateStatusMaxItems`), no status
  taken back (`CanReset`) and an index more than credentials: outside these the
  properties fail (section 5, and the run `doc_unsuspend`).  The pool has 4
  indexes instead of 131072; only its end is special.
* Each call of `OwnerService` runs once.  Two creations and a registration give
  every pair of calls that can share a nonce.  Prices matter by their order only.
  `MCAccessGate` explores the calls of the owner while no user has done anything,
  and users with the gate on a context that came from another client, where
  deletions and new creations race with them (`Explored`): `HeldMeanwhile` does
  not depend on who created the context.  One user: users share nothing but the
  context.
* Three requests or calls at a time, of every kind, in `did_service` and `storage`:
  two race and one disturbs, or one finishes what another left.  Handlers are
  alike, so that one order of each choice is enough, and requests for different
  DIDs have nothing in common.  `ScanBatch` = 2 of 5 keys gives listings of several
  SCANs.

Deadlock checking is off where the system really may stop: contracts nobody
calls any more, a bounded supply of credentials, calls that have all ended.

### Fairness

* `NewBlock` is weakly fair: blocks keep being produced.
* The steps of a handler or call are weakly fair: the Go scheduler runs a
  goroutine that can run, and no step of these handlers waits for another
  handler, but for Bolt's lock, which every writer releases.  `WaitMined` is
  enabled only when the receipt exists.  Redis' retries end because one
  transaction starts again only when another committed (or, in the code, when the
  time is up: `Refuse`).
* Nothing else is fair: users, reviewers, operators and other clients may stop at
  any time, and `Abandon` and `Stop` are never required and never excluded.

---

## 4. What is proved

TLAPS proves these for every value of the constants that meets the named
assumptions; TLC checked the same formulas first, the inductive invariants too.
Each `*_proofs` module extends the module it is about.  A proof has one lemma or
step for each action, and the theorems read their property off the invariant.

**`DIDRegistry_proofs`**, from `ZeroAssumption` and `MaxControllersAssumption`:

* `RegistryInvariant`: the inductive invariant, types together with `DIDInv`.
  Types alone are not inductive: that a swap with the last entry leaves no
  duplicate, and that the index stays inside the shorter list, needs both that
  entries are distinct and that the index is inside the list before.
* `RegistryListsDistinct`, `RegistryTypeOK`: its parts.
* `RegistryControllerStable`, `RegistryLockedForever`: the action properties, one
  case an action.  Lemmas state what a removal does to a sequence: what is
  listed afterwards, where the current controller went.
* `RegistryImplements`: initial states and every step of the registry map to
  `ControllerSet`.

**`AccessContextHandler_proofs`**, on top of those, for any users, contexts,
clones, roles, policies and block times:

* `SessionsValidOnlyIfOpen`, `SessionsNeverRenewed`, `LockedSessionsStay`: the session
  registry with any step of the DID registry in between.  The last is a nested temporal formula;
  its induction starts in any state where the user's identity is locked, and
  rests on `RegistryLockedForever`.
* `HandlerInvariant`: the contexts the handler's map refers to are deployed, and a
  clone that is not deployed has no roles.  The second is what carries
  `AccessNeedsGrant`: a context that is created anew knows no role anybody could
  have been granted before.  From `NoInstanceAssumption`.
* `HandlerSessions`: the composed system is one of the session registry's, whatever
  registry a context points to, so that both promises hold in it.
* `AccessNeedsGrant`, `LockedOwnersFreeze`, `NoPolicySwings`: the action properties of
  the run `contexts`, one case a contract call, foreign contracts included.
  `LockedOwnersFreeze` rests on `RegistryLockedForever`.

**`AccessGate_proofs`**, from the assumptions of `Wallet` and `OwnerService`
(`ContextAssumption`: a context's address is none of the markers):

* `OwnerInvariant`: at each step of a call, what was sent, mined and stored.  The
  argument is that a context of the wallet's own, once registered, stays so, so
  that what a call has read of it stays true while it waits (`ReadStays`), and
  that the ledger tells what its mined transactions did (`MinedCreation`,
  `MinedSetup`).  `OwnerContextsSafe` reads both properties off it.
* `GateInvariant`: that, and what users' services and the gate hold: a stored role
  was granted (`StoredGranted`), and from each answer the chain gave the gate on,
  what it said is part of what the chain has had since the verification began
  (`PassedHeld`).  From it `GateOwnerSafe`, `GateAnsweredIsOnChain` and
  `GateHeldMeanwhile`.

**`PresentationApi_proofs`**, of the service behind the routes first, from
`FormAssumption` and `DistinctIds` (no two requests submit under one id, which a
UUID gives):

* `SubmissionTypeOK`, needs no assumption on ids.
* `SubmissionInvariant`: types, `SettledTogether` and `HandlerOwnsId`.  The last
  is the strengthening: that between its check and its last write no other
  handler can have written a handler's submission or operation is what makes
  `StoreOperation` harmless, as it would otherwise reopen a settled operation.
* `SubmissionsSettledTogether`, and `SubmissionsImplementVerdict`: the steps of the
  service are steps of `Verdict` or leave every verdict as it is.

and then of the routes:

* `ApiImplementsReview`: a step of the routes, whatever is asked for, is a step of
  `SubmissionReview` or leaves its variables alone, so that every behaviour of
  `PresentationApi` is one of the service.
* `ApiSettlesTogether`: with it, what was proved of the service holds behind the
  routes.
* `ApiToldForGood`: what a client was told of a settled submission is never taken
  back, by either route; the invariant says that what was told is what is
  stored.
* `ApiPagedInFull`: a client that follows the tokens to the end has been given all
  that matched all the while.  The invariant says of a listing under way that
  what is owed and not given yet comes after the token; with ranks that differ
  (`RankAssumption`) a page leaves out nothing before its own end.

**`ManifestApi_proofs`**, from `HandlersAssumption`, `FiniteAssumption` (finitely many
handlers at a time) and `MaxCallsAssumption` (so that responses can be numbered),
with no assumption on ids: any application may be submitted any number of times:

* `ReviewInvariant`.  A review takes no lock and does not look at the status it
  overwrites; what keeps the properties is the order of the writes, and this is
  what the invariant says: of an application that no submission has written
  there is nothing (`UnwrittenIsEmpty`), so that its first write as pending
  comes before every decision (`Decided`, `WrittenFirst`).  `DoneNotPending` and
  `WrittenFirst` are about applications that were not written again (`rewritten`);
  the rest is about all.
* `ReviewDoneNotPending`, `ReviewDoneIsFulfilled`, and `ReviewImplementsDocket`: the steps
  of the service are steps of `Docket`, where a filing is a submission that has
  not written the operation yet.
* `ApiImplementsReview`, `ApiReviewSafe`: the same behind the routes;
  `ApiToldForGood` says, for submissions of an application, that what was told is
  what the operation was done with unless a submission wrote it since
  (`ToldAsDone`, `reopened`).

**`StorageEngine_proofs`**, from `EngineAssumption`, `WorkloadAssumption` (the service
key has a namespace of its own, which `ensureEncryptionKeyExists` alone writes),
`StoredAssumption` (what was there before was stored under a service key), and for
listings `OrderAssumption` (a key has one place) and `ScanBatchAssumption`:

* `EngineInvariant`.  Its core is `Fresh`: what a transaction has read, and so what it
  has queued, is still true of the store, unless another client touched a key it
  watches, which Redis then notices at EXEC; Bolt's lock gives it to the holder
  outright.
* `EngineSealed`: whatever number of instances generate a service key at once, one
  of them is stored and every value is sealed under it.
* `EngineImplementsStore`: `Commit`, `Exec` and the single writes map to the one step
  of `Store`, every other step to a stutter.
* `EngineListInvariant`, and `EngineListedOnce` from it.  A place is passed once the
  cursor is behind it or at the end; the invariant says that a key that was there
  all the time is counted once its place is passed, and no key is counted before,
  nor twice.  For Bolt a page is cut off by size: that it leaves nothing out before
  its token is the lemma `FirstOfDown`, and that there is a first place it leaves
  for the token the lemma `Least` (the order of the naturals is well-founded).  For
  Redis the cursor moves by a number of places whatever is found there.
* `EngineLockHeld`: Bolt's lock is with exactly the client whose transaction is open,
  so that it is given back with every answer, error and stop, which is the safety
  part of `CallsEnd`.

**`DIDService_proofs`**, from `DIDAssumption`, `WorkloadAssumption` (a key or ION DID is
named after keys generated for it, so that no other request makes it) and, except
for `ServiceNeverAhead`, the hypothesis `KeysApart`: a request that stores or revokes a key by its id names a
key of a DID nobody creates or updates.  The key routes do not ask for that;
without it `PUT /v1/keys` under the id of an ION DID's update key makes
`KeyFollowsNetwork` fail, by what was asked for.  The run has such requests for a
DID of their own too.

* `ServiceInvariant`, in parts that are named after what they say.  `Creation`: how far
  each creation is, which keys are stored and which pending.  `Chain`, which
  carries the updates: the network has taken at most one update that is not
  applied, in the store or in the hand of one handler; while there is one, no
  update anybody holds is signed with the key the network waits for.  So the
  update the network takes next was prepared after the one before was applied,
  although requests overlap, stop, take each other's updates up and write lists
  back that they read before.  `Kept` and `Deleted`: what the documents that may
  still be written back know of creator and deletion.  `Follows`: more, for a DID
  without overlapping updates.
* `ServiceNeverAhead`, for any requests: whatever keys are stored or revoked under
  the service's feet, documents and recorded updates are never ahead of the
  network.  Its invariant (`ServiceBehind`) says so of what is stored and of every
  list and document a handler has read and may still write back.
* `ServiceKeyFollowsNetwork`, `ServiceBatchIsAtomic`, `ServiceCreatedIsComplete`,
  `ServiceDeletedStaysDeleted`, `ServiceRevokedSignsNothing`: the other safety
  properties of the run `did_service`, from `ServiceInvariant`.  The last has an
  invariant of its own: a key that was withdrawn is nowhere stored, nor about to
  be stored, without the flag.

**`CredentialStatus_proofs`**, from the module's assumptions, for any credentials,
handlers and orders of the pool, on either engine.  There are three layers, each
with the hypotheses its theorems name:

* `StatusBaseInvariant`, no hypotheses: types, what may be in the queue of a
  transaction, batches included, and on Bolt that one transaction is open.  From
  it `StatusDeletedNotRestored`, and `StatusPlaceKept`: on either engine an issued
  credential stays issued, with its purpose, list and index.  Only the first is
  also a property of a run.
* `StatusGivenInvariant`, from `CreatesOne`: creations are of one credential each, and
  a pool has more indexes than there are credentials; updates may be batches and
  take statuses back.  The invariant says how many indexes of a pool were given
  out and to whom.  Its strengthening is `CreationFresh`: what a creation that is
  not stale has queued is what it would queue if it read again, since it watches
  list, pool and count; Bolt lets nobody write in between.  A step of another
  handler leaves that true or makes the creation stale.  From it
  `StatusListShared` and `StatusIndexUnique`.
* `StatusPublishInvariant`, from `UpdatesOne`: that, updates of one credential each,
  and none that takes a status back.  An update watches the list only, yet what
  it read of the other credentials may change under it.  `UpdateFresh` says why
  the list it will write stays right: a creation adds credentials without a
  status, a deletion leaves a bit of a credential whose index nobody else gets
  (from the layer below), and another update writes the list.  From it
  `StatusPublishedExactly`.

The hypotheses are where the code's own limits are: with two creations or two
updates in a batch, a status taken back or a pool at its end the properties fail
(section 5 and the run `doc_unsuspend`).  A client that sends one request a call
and takes nothing back stays inside them for the first 131071 credentials of an
issuer and schema.

Only model-checked:

* liveness (`StoredThenReviewable`, `TemplateSettles`, `WaitEnds`,
  `CallsEnd`, `AnchoredIsFinished`), which is out of this prover's reach, as is
  `ENABLED`.

What a recursive definition computes for every input is out of reach too, as the
library's induction theorems cannot be instantiated here; no proof needs it.  No
module uses RECURSIVE operators.

---

## 5. What is not modelled, and what was seen besides

`components` in `PROJECT.json` lists every part with its status.

Out of the models: the content of tokens, credentials, schemas and proofs; gas;
reorganisations of the chain; the pairing arithmetic of the verifiers; DID
resolution over HTTP, IPFS and the well-known configuration, which keep no state;
configuration and start-up, generated bindings, deployment scripts, benchmarks.

Left out of modelled parts:

* Storage: SQL, since `AvailableStorage` offers Bolt and Redis only; a SCAN that
  runs while Redis rehashes and may give a key twice; `DeleteNamespace` and the
  `Update` of `RedisDB`, which nothing calls.  Bolt's `Read` hands out a slice of
  its memory map after the transaction; values are read whole here.
* DIDs and keys: keys other than a DID's document key are not revoked in the runs;
  the stateless lookups of did:pkh, did:peer and others.  An update of an ION DID
  signs with its update key without looking at the flag (`did/ion.go:590`), so
  that `RevokedSignsNothing` is about `Sign` alone; a client that stores the same
  material again stores another key; and a revocation of an update key that
  overlaps an update writes the earlier key back, which `KeysApart` leaves out.
* Credentials: those without a status, signing and verification, listing.
* Presentations and manifests: what a verification decides is an input;
  presentation submissions that overlap under one id.
* Contracts: a foreign contract that is called may call back before it returns;
  its calls are steps of their own here, after or before the call.
* Contracts beside the services: `AccessGate` has what a context says of the role
  and whether a session is open, not the proofs and policies behind it, which are
  in the contracts' modules.  Other clients create and delete contexts under the
  owner's id, but do not call `init` on the owner's own contexts nor delete
  these, which takes its DID.  `CreateSession` has no route, so
  that the owner's session store stays empty in the running program, and
  `VerifySession` lets every token of a user with the role pass.  Two calls of
  one user's wallet at the same time are not modelled; the owner's are.
  `CreatePolicy` is a stub.

While modelling, these divergences were met that no run is kept for:

* `init` of a context can be called again by anyone, with an owner, an id, a
  handler and a DID registry of their choice, although `did/DIDOwnable.sol:11`
  says the owner changes by a transfer; and `setSessionRegistry` of the handler by
  anyone with any contract.  `LockedOwnerFreezes`, `NoVerifierSwing` and
  `AccessNeedsGrantOrSession` except these steps and say that nothing else does
  what they do.
* `grantRole` with an empty list verifies no policy (`AccessContext.sol:39` says
  "Verifies a policy and grants role."), and `revokeRole` asks whether the DID
  named has the role, not whether the caller controls it (`:95`).
* `assignPolicy` does not ask whether the policy exists (`:236` says "an existing
  policy"), and counts it again when it is assigned already.
* `renounceOwnership` sets the owner to `bytes32(0)`, which is an identity the
  DID registry lets an account claim.
* The end of an index pool is not an error: `credential/storage.go:175` wraps a nil
  error, and the credential gets the index given out last.  With `PoolSize = 3`
  and four credentials `IndexUnique` fails.
* Each request of a batch of creations that finds no list makes one, and only the
  last is kept, although `core/server/router/credential_test.go:354` says they share one: with
  `MaxCreate = 2` `ListShared` fails.
* Two credentials revoked in one batch: only the last one's bit is published.
  With `MaxUpdate = 2` `PublishedExactly` fails.
* On Redis an update that had found a credential brings it back when it was
  deleted meanwhile: without the restriction to Bolt `DeletedNotRestored` fails.
* A review that ends after its first transaction moves an application's status
  and leaves its operation (`manifest/service.go:394` says a review moves the one
  and marks the other as done); two reviews are the run `doc_review`.
* An application that is submitted again while a review of it is under way, or
  denied by its second validation, may read as pending with its operation done
  (`manifest/service.go:309,326`).
* An update of a DID under a method other than ion is answered 400, "ion is the only
  method supported", and is prepared, anchored and applied all the same, as the
  handler does not return (`server/router/did.go:170`).
* `RegisterResource` "registers a resource on-chain" (`accesscontrol/service.go:154`),
  but with no access context it sends the transaction to `address(0)`, where it
  succeeds without effect, and answers with the identifiers (`:161`).
* "NB: the key can still be used for signing" (`server/router/keystore.go:160`):
  `Sign` refuses a revoked key (`keystore/service.go:185`).
* Two concurrent submissions under one id: the second one's operation replaces
  the result of a review of the first.
* A listing of values on Redis fails as a whole when one key goes between SCAN and
  MGET (`redis.go:275`).
* `GetDID` finds soft deleted DIDs (`did/handler.go:23` says otherwise).
* The route that deletes a presentation request is registered as PUT
  (`@Router` says delete).
* `accesscontrol.createSession` answers nil without an error when the insertion of
  the session fails (`accesscontrol/service.go:341`).
* A call of the owner's service whose transaction another call replaced (same
  nonce, higher price) waits until the server stops.
