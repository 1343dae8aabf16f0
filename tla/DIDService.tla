------------------------------ MODULE DIDService ------------------------------
(***************************************************************************)
(* service/did with its routers: DIDs of the methods key, web and ion are  *)
(* created with their keys, one by one or, for key, as a batch; ion DIDs   *)
(* are updated in a transaction, a call of the network and a second        *)
(* transaction; every DID can be soft deleted.  An update that was stopped *)
(* is taken up by the next request for its DID.                            *)
(***************************************************************************)
EXTENDS KeyStore, FiniteSets, SequencesExt

CONSTANTS DID, Method,   \* Method[d]: "key", "web" or "ion"
          Existing,      \* DIDs that may be there at the start
          Workload       \* assignments of requests to handlers

Use == {"doc", "update", "recovery", "staging"}

ASSUME DIDAssumption ==
  /\ KeyId = DID \X Use
  /\ Method \in [DID -> {"key", "web", "ion"}]
  /\ Existing \subseteq DID
  /\ Old # None /\ Old \notin Handler /\ None \notin Handler

\* What a request makes.
Makes(r, d) ==
  \/ r.op \in {"createKey", "createWeb", "createIon"} /\ d = r.did
  \/ r.op = "batch" /\ d \in r.dids

\* An ion or key DID is named after keys that are generated for it: no other request
\* makes one of that name, and a key DID of it was not there before.
ASSUME WorkloadAssumption ==
  \A w \in Workload : \A h \in Handler :
    /\ w[h].op \in {"createKey", "createWeb", "createIon", "batch", "update", "softDelete",
                    "get", "resolve", "list", "storeKey", "revokeKey", "sign", "keyDetails"}
    /\ w[h].did \in DID /\ w[h].id \in KeyId /\ w[h].dids \subseteq DID
    /\ w[h].op = "createWeb" => Method[w[h].did] = "web"
    /\ w[h].op = "createIon" => Method[w[h].did] = "ion"
    /\ \A d \in DID : Makes(w[h], d) =>
         /\ w[h].op \in {"createKey", "batch"} => Method[d] = "key" /\ d \notin Existing
         /\ Method[d] # "web" => \A g \in Handler \ {h} : ~Makes(w[g], d)

VARIABLES dids,      \* dids[d]: [by, ops, deleted], by None when absent
          states,    \* states[d]: the updates of d, in order
          network,   \* the ion network: updates it took, key of the next one
          local,     \* local[h]: the document or the updates h has read
          overlapped, \* history: DIDs that were written by two handlers at once
          since,      \* history: since[d]: handlers begun since d was deleted
          withdrawn   \* history: the keys whose revocation was answered, with their secrets

history == <<overlapped, since, withdrawn>>
vars == <<request, pc, reply, public, private, storing,
          dids, states, network, local, history>>

NoDoc == [by |-> None, ops |-> {}, deleted |-> FALSE]
Has(d) == dids[d].by # None
Doc(by) == [by |-> by, ops |-> {}, deleted |-> FALSE]
Target(h) == request[h].did

UsesOf(d) == IF Method[d] = "ion" THEN {"update", "recovery", "doc"} ELSE {"doc"}

Init ==
  /\ request \in Workload
  /\ pc = [h \in Handler |-> "begin"]
  /\ reply = [h \in Handler |-> 0]
  /\ \E here \in {{}, Existing} :
       LET Known(id) == id[1] \in here /\ id[2] \in UsesOf(id[1])
       IN /\ \A h \in Handler : request[h].op = "createIon" => Target(h) \notin here
          /\ dids = [d \in DID |-> IF d \in here THEN Doc(Old) ELSE NoDoc]
          /\ public = [id \in KeyId |-> IF Known(id) THEN Old ELSE None]
          /\ private = [id \in KeyId |-> IF Known(id) THEN NewKey(Old) ELSE NoKey]
          /\ network = [d \in DID |->
               [ops |-> {}, next |-> IF d \in here /\ Method[d] = "ion" THEN Old ELSE None]]
  /\ states = [d \in DID |-> <<>>]
  /\ storing = [h \in Handler |-> <<>>]
  /\ local = [h \in Handler |-> <<>>]
  /\ overlapped = {}
  /\ since = [d \in DID |-> {}]
  /\ withdrawn = {}

Fail(h) ==
  /\ Respond(h, 500)
  /\ UNCHANGED <<request, public, private, storing, dids, states, network, local, history>>

Creating == {"createKey", "createWeb", "createIon"}
Creates(h) == request[h].op \in Creating

\* The handlers that create or update d and are between their first and last step.
Writing(d) == {h \in Handler :
  /\ request[h].op \in Creating \cup {"update"}
  /\ Target(h) = d /\ pc[h] \notin {"begin", "ended"}}

Begin(h) ==
  /\ overlapped' = IF Writing(Target(h)) = {} THEN overlapped ELSE overlapped \cup {Target(h)}
  /\ since' = [since EXCEPT ![Target(h)] = @ \cup {h}]
  /\ UNCHANGED withdrawn

\* did:key, and did:web unless its document is found on the web or in storage.
ToStoring(h) ==
  /\ GoTo(h, "document")
  /\ Begin(h)
  /\ UNCHANGED <<request, reply, public, private, storing, dids, states, local>>

CreateKey(h) ==
  /\ pc[h] = "begin" /\ request[h].op = "createKey"
  /\ ToStoring(h)
  /\ UNCHANGED network

\* MUTANT of Free: the storage is not asked.
Free_Any(d) == TRUE

Free(d) == ~Has(d)

CreateWeb(h) ==
  /\ pc[h] = "begin" /\ request[h].op = "createWeb"
  /\ \/ Free(Target(h)) /\ ToStoring(h) /\ UNCHANGED network
     \/ Fail(h)

\* did:ion is anchored before anything of it is stored.
CreateIon(h) ==
  /\ pc[h] = "begin" /\ request[h].op = "createIon"
  /\ network' = [network EXCEPT ![Target(h)].next = h]
  /\ ToStoring(h)

AnchoringFails(h) ==
  /\ pc[h] = "begin" /\ request[h].op = "createIon"
  /\ Respond(h, 500)
  /\ \/ network' = [network EXCEPT ![Target(h)].next = h]
     \/ UNCHANGED network
  /\ UNCHANGED <<request, public, private, storing, dids, states, local, history>>

\* The keys that are stored after the document, in this order.
KeysOf(h) ==
  [i \in 1..Cardinality(UsesOf(Target(h))) |->
     Write(<<Target(h), IF Method[Target(h)] = "ion"
                        THEN <<"update", "recovery", "doc">>[i] ELSE "doc">>, NewKey(h))]

StoreDID(h) ==
  /\ pc[h] = "document" /\ Creates(h)
  /\ dids' = [dids EXCEPT ![Target(h)] = Doc(h)]
  /\ StoreKeys(h, KeysOf(h))
  /\ UNCHANGED <<request, reply, public, private, states, network, local, history>>

\* MUTANT of BatchCreateDIDs: the documents are committed apart from their keys.
BatchCreateDIDs_Apart(h) ==
  /\ pc[h] = "begin" /\ request[h].op = "batch"
  /\ dids' = [d \in DID |-> IF d \in request[h].dids THEN Doc(h) ELSE dids[d]]
  /\ StoreKeys(h, SetToSeq({Write(<<d, "doc">>, NewKey(h)) : d \in request[h].dids}))
  /\ UNCHANGED <<request, reply, public, private, states, network, local, history>>

\* One transaction for a batch, which did:key only has.
BatchCreateDIDs(h) ==
  /\ pc[h] = "begin" /\ request[h].op = "batch"
  /\ dids' = [d \in DID |-> IF d \in request[h].dids THEN Doc(h) ELSE dids[d]]
  /\ StoreInTransaction(request[h].dids \X {"doc"}, NewKey(h))
  /\ Succeed(h)
  /\ UNCHANGED <<request, storing, states, network, local, history>>

------------------------------------------------------------------------------
\* MUTANT of Update: the mark of a soft deleted DID is not carried over.
Update_Unmarked(h, d) ==
  [status |-> "PreAnchor", op |-> h, signed |-> private[<<d, "update">>].secret,
   doc |-> [dids[d] EXCEPT !.ops = @ \cup {h}, !.deleted = FALSE]]

\* An update: who prepared it, the key it is signed with, the document it leads to.
Update(h, d) ==
  [status |-> "PreAnchor", op |-> h, signed |-> private[<<d, "update">>].secret,
   doc |-> [dids[d] EXCEPT !.ops = @ \cup {h}]]

Status(d) == IF states[d] = <<>> THEN "none" ELSE Last(states[d]).status

\* MUTANT of Settled: an update that is anchored needs no more of anybody.
Settled_Anchored(d) == Status(d) \in {"none", "Done", "AnchorError", "Anchored"}

Settled(d) == Status(d) \in {"none", "Done", "AnchorError"}

\* The answer 400 to a method other than ion does not end the handler.
AnswerMethod(h) ==
  reply' = [reply EXCEPT ![h] = IF request[h].method = "ion" THEN @ ELSE 400]

\* MUTANT of PutAside: whoever takes an update up puts a key of its own aside.
PutAside_Always(h, d) == StoreInTransaction({<<d, "staging">>}, NewKey(h))

PutAside(h, d) ==
  IF Settled(d) THEN StoreInTransaction({<<d, "staging">>}, NewKey(h)) ELSE UNCHANGED keyVars

\* prepareUpdate, one transaction: an unfinished update is taken up, else a new
\* one is signed, its next key put aside, and both are recorded.
PrepareUpdate(h) ==
  LET d == Target(h)
      list == IF Settled(d) THEN Append(states[d], Update(h, d)) ELSE states[d]
  IN /\ pc[h] = "begin" /\ request[h].op = "update"
     /\ Stored(<<d, "update">>)
     /\ Settled(d) => Has(d)
     /\ local' = [local EXCEPT ![h] = list]
     /\ states' = [states EXCEPT ![d] = list]
     /\ PutAside(h, d)
     /\ GoTo(h, IF Last(list).status = "PreAnchor" THEN "anchor" ELSE "apply")
     /\ AnswerMethod(h)
     /\ Begin(h)
     /\ UNCHANGED <<request, storing, dids, network>>

UpdateImpossible(h) ==
  /\ pc[h] = "begin" /\ request[h].op = "update"
  /\ ~Stored(<<Target(h), "update">>) \/ (Settled(Target(h)) /\ ~Has(Target(h)))
  /\ Respond(h, IF request[h].method = "ion" THEN 500 ELSE 400)
  /\ UNCHANGED <<request, public, private, storing, dids, states, network, local, history>>

Mark(h, status) ==
  local' = [local EXCEPT ![h][Len(local[h])].status = status]

\* MUTANT of ErrorStatus: every error counts as "anchored before".
ErrorStatus_Lenient == "Anchored"

\* isPreviouslyAnchoredError tells no error from another.
ErrorStatus == "AnchorError"

\* The network takes what is signed with the key it was told last; its answer may
\* get lost.  To all else it answers with a signature error.
AnchorTaken(h) ==
  LET update == Last(local[h])
  IN /\ pc[h] = "anchor"
     /\ update.signed = network[Target(h)].next
     /\ network' = [network EXCEPT
          ![Target(h)] = [ops |-> @.ops \cup {update.op}, next |-> update.op]]
     /\ Mark(h, "Anchored") \/ Mark(h, ErrorStatus)
     /\ GoTo(h, "record")
     /\ UNCHANGED <<request, reply, public, private, storing, dids, states, history>>

AnchorFails(h) ==
  /\ pc[h] = "anchor"
  /\ Mark(h, ErrorStatus)
  /\ GoTo(h, "record")
  /\ UNCHANGED <<request, reply, public, private, storing, dids, states, network, history>>

\* The list read in PrepareUpdate is written back, whatever is stored by now.
RecordAnchor(h) ==
  /\ pc[h] = "record"
  /\ states' = [states EXCEPT ![Target(h)] = local[h]]
  /\ IF Last(local[h]).status = "AnchorError" THEN Respond(h, 500)
     ELSE GoTo(h, "apply") /\ UNCHANGED reply
  /\ UNCHANGED <<request, public, private, storing, dids, network, local, history>>

Finish(d) == states' = [states EXCEPT ![d][Len(states[d])].status = "Done"]

\* applyUpdate, one transaction: the key put aside becomes the update key, the
\* document is stored; an update that is not recorded as anchored is left alone.
ApplyUpdate(h) ==
  LET d == Target(h)
  IN /\ pc[h] = "apply"
     /\ IF Status(d) = "Anchored"
        THEN /\ StoreInTransaction({<<d, "update">>}, NewKey(private[<<d, "staging">>].secret))
             /\ dids' = [dids EXCEPT ![d] = Last(states[d]).doc]
             /\ Finish(d)
        ELSE UNCHANGED <<public, private, dids, states>>
     /\ Succeed(h)
     /\ UNCHANGED <<request, storing, network, local, history>>

------------------------------------------------------------------------------
\* SoftDeleteDID of each method reads the entry and writes all of it back.
ReadToDelete(h) ==
  /\ pc[h] = "begin" /\ request[h].op = "softDelete"
  /\ Has(Target(h))
  /\ local' = [local EXCEPT ![h] = <<dids[Target(h)]>>]
  /\ GoTo(h, "document")
  /\ UNCHANGED <<request, reply, public, private, storing, dids, states, network, history>>

WriteDeleted(h) ==
  /\ pc[h] = "document" /\ request[h].op = "softDelete"
  /\ dids' = [dids EXCEPT ![Target(h)] = [local[h][1] EXCEPT !.deleted = TRUE]]
  /\ since' = [since EXCEPT ![Target(h)] = {}]
  /\ Succeed(h)
  /\ UNCHANGED <<request, public, private, storing, states, network, local, overlapped, withdrawn>>

\* GetDID finds soft deleted DIDs too; ion asks its network (external) for one that
\* is not stored.
GetDID(d) == IF Has(d) THEN {TRUE} ELSE {FALSE} \cup {Method[d] = "ion"}

\* Resolvers are asked in turn: the handlers, local ones, a universal one (external).
Resolve(d) == IF Has(d) THEN {TRUE} ELSE BOOLEAN

Listed(d) == Has(d) /\ ~dids[d].deleted

Read(h, op, outcomes) ==
  /\ pc[h] = "begin" /\ request[h].op = op
  /\ \E found \in outcomes : IF found THEN Succeed(h) ELSE Respond(h, 400)
  /\ UNCHANGED <<request, public, private, storing, dids, states, network, local, history>>

------------------------------------------------------------------------------
\* The routes.
Refused(h, ops) == BadRequest(h, ops) /\ UNCHANGED <<dids, states, network, local, history>>

CreateDIDByMethod(h) ==
  \/ Refused(h, Creating)
  \/ CreateKey(h) \/ CreateWeb(h) \/ CreateIon(h) \/ AnchoringFails(h) \/ StoreDID(h)

BatchCreate(h) == Refused(h, {"batch"}) \/ BatchCreateDIDs(h)

UpdateDIDByMethod(h) ==
  \/ Refused(h, {"update"})
  \/ PrepareUpdate(h) \/ UpdateImpossible(h)
  \/ AnchorTaken(h) \/ AnchorFails(h) \/ RecordAnchor(h) \/ ApplyUpdate(h)

SoftDeleteDIDByMethod(h) ==
  Refused(h, {"softDelete"}) \/ ReadToDelete(h) \/ WriteDeleted(h)

GetDIDByMethod(h) == Read(h, "get", GetDID(Target(h)))
ResolveDID(h) == Read(h, "resolve", Resolve(Target(h)))
ListDIDsByMethod(h) == Read(h, "list", BOOLEAN)

\* A revocation is answered when the key is stored with the flag.
Withdraw(h) ==
  withdrawn' = IF request[h].op = "revokeKey" /\ pc[h] = "private"
               THEN withdrawn \cup {<<request[h].id, Head(storing[h]).key.secret>>}
               ELSE withdrawn

KeyRoutes(h) ==
  KeyStep(h) /\ Withdraw(h) /\ UNCHANGED <<dids, states, network, local, overlapped, since>>

Step(h) ==
  \/ CreateDIDByMethod(h) \/ BatchCreate(h) \/ UpdateDIDByMethod(h)
  \/ SoftDeleteDIDByMethod(h) \/ GetDIDByMethod(h) \/ ResolveDID(h)
  \/ ListDIDsByMethod(h) \/ KeyRoutes(h)

\* The server stops, or the storage fails the call that comes next.
Stop(h) == pc[h] # "ended" /\ Fail(h)

Done == (\A h \in Handler : pc[h] = "ended") /\ UNCHANGED vars

Next == (\E h \in Handler : Step(h) \/ Stop(h)) \/ Done

Spec == Init /\ [][Next]_vars

\* A handler that was started runs on.
FairSpec == Spec /\ \A h \in Handler : WF_vars(Step(h))

------------------------------------------------------------------------------
\* What a creation that was answered made is complete: the document and its key
\* belong together, and so do the halves of every key, for a batch, for ion's
\* three keys and for a did:web others try to create later; only creations that
\* overlapped can have left a mixture.
Created(h) ==
  IF reply[h] # 201 \/ request[h].op = "storeKey" THEN {}
  ELSE IF request[h].op = "batch" THEN request[h].dids ELSE {Target(h)}

Complete(d) ==
  /\ dids[d].by = private[<<d, "doc">>].secret
  /\ \A u \in UsesOf(d) :
       public[<<d, u>>] = private[<<d, u>>].secret /\ Stored(<<d, u>>)

CreatedIsComplete ==
  \A h \in Handler : \A d \in Created(h) \ overlapped : Complete(d)

\* A batch is never half there, for nobody who looks.
BatchIsAtomic ==
  \A h \in Handler : request[h].op = "batch" =>
    \/ \A d \in request[h].dids : Has(d) /\ Complete(d)
    \/ \A d \in request[h].dids : ~Has(d) /\ ~Stored(<<d, "doc">>)

\* The document kept and the recorded updates are never ahead of the network,
\* though requests overlap, stop, and take up each other's updates.
NeverAhead ==
  \A d \in DID :
    /\ dids[d].ops \subseteq network[d].ops
    /\ \A i \in DOMAIN states[d] :
         states[d][i].status \in {"Anchored", "Done"} => states[d][i].op \in network[d].ops

\* After an update was finished the key kept is the one the network waits for,
\* whichever request finished it and wherever one stopped before, unless two
\* updates of the DID overlapped.
KeyFollowsNetwork ==
  \A d \in DID \ overlapped :
    Status(d) = "Done" => private[<<d, "update">>].secret = network[d].next

\* A soft deleted DID is listed again only by what had begun before its deletion.
DeletedStaysDeleted ==
  [][\A d \in DID : (dids[d].deleted /\ Listed(d)')
       => /\ dids'[d].by \notin since[d]
          /\ states'[d] # states[d] => Last(states[d]).op \notin since[d]]_vars

\* Sign takes no key the revocation of which was answered, though the key is stored
\* and revoked by several requests at once, each from what it read: whatever other
\* key is stored under the id by then, what was revoked never signs again.  A key is
\* what one request stored; a client that sends the same material again stores
\* another (keystore/storage.go:230-243, service.go:185).
RevokedSignsNothing ==
  [][\A h \in Handler : LET id == request[h].id IN
       request[h].op = "sign" /\ reply[h] = 0 /\ reply'[h] = 200
         => <<id, private[id].secret>> \notin withdrawn]_vars

\* Update o is done and in the document.
FinishedUpdate(d, o) ==
  o \in dids[d].ops /\ \E i \in DOMAIN states[d] : states[d][i].op = o /\ states[d][i].status = "Done"

\* An update that is recorded as anchored when its handler stops is not lost: the next
\* request for the DID takes it up from the start, ends with it done and in the
\* document, or stops and leaves it to the request after; unless requests overlapped
\* (did/ion.go:226-344).
AnchoredIsFinished ==
  \A d \in {x \in DID : Method[x] = "ion"} : \A o, h \in Handler :
    LET Left == Status(d) = "Anchored" /\ Last(states[d]).op = o
    IN (/\ Left /\ pc[h] = "begin"
        /\ request[h].op = "update" /\ Target(h) = d /\ request[h].method = "ion")
         ~> (FinishedUpdate(d, o) \/ (Left /\ reply[h] \in {400, 500}) \/ d \in overlapped)

\* "Signature errors are OK, as they mean that the update operation has already been
\* applied": an update the network took before is recorded as anchored when it is
\* sent again (did/ion.go:148).
SignatureErrorsAreOk ==
  [][\A h \in Handler :
       /\ pc[h] = "anchor" /\ pc'[h] = "record"
       /\ Last(local[h]).op \in network[Target(h)].ops
       => Last(local'[h]).status = "Anchored"]_vars
==============================================================================
