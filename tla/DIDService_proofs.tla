-------------------------- MODULE DIDService_proofs ---------------------------
(***************************************************************************)
(* The DID service for any DIDs, requests and interleavings of them, with  *)
(* handlers that stop anywhere.  Requests that store or revoke a key by    *)
(* its id are for DIDs no request creates or updates (KeysApart), except   *)
(* in what is proved of documents and updates alone (ServiceNeverAhead).   *)
(*                                                                         *)
(* What carries the proof of the updates is Chain: the network has taken   *)
(* at most one update that is not applied, and nobody holds another one it *)
(* would take then; so an update it takes was prepared after the one       *)
(* before it was applied, however many requests overlap.  Creations rest   *)
(* on Creation, which says how far each one is, and deletions on Kept and  *)
(* Deleted, which say what the documents that may be written back hold.    *)
(***************************************************************************)
EXTENDS DIDService, SequenceTheorems, FiniteSetTheorems, TLAPS

\* A request writes the document of d or its keys.
Touches(r, d) == Makes(r, d) \/ (r.op = "update" /\ r.did = d)
Touched(d) == \E h \in Handler : Touches(request[h], d)

\* PUT and DELETE /v1/keys reach every key: whoever stores another key for a DID, or
\* revokes one that is being stored, breaks the DID by what was asked for.
KeysApart ==
  \A w \in Workload : \A g, h \in Handler :
    w[h].op \in {"storeKey", "revokeKey"} => ~Touches(w[g], w[h].id[1])

Op(h) == request[h].op

Secret == Handler \cup {Old, None}
Document == [by : Secret, ops : SUBSET Handler, deleted : BOOLEAN]
Recorded == [status : {"PreAnchor", "Anchored", "AnchorError", "Done"}, op : Handler,
            signed : Secret, doc : Document]
PrivateKey == [secret : Secret, revoked : BOOLEAN]

Steps == {"begin", "document", "public", "private", "anchor", "record", "apply", "ended"}
Replies == {0, 200, 201, 204, 400, 500}

ServiceTypeOK ==
  /\ request \in Workload
  /\ pc \in [Handler -> Steps]
  /\ reply \in [Handler -> Replies]
  /\ public \in [KeyId -> Secret]
  /\ private \in [KeyId -> PrivateKey]
  /\ storing \in [Handler -> Seq([id : KeyId, key : PrivateKey])]
  /\ dids \in [DID -> Document]
  /\ states \in [DID -> Seq(Recorded)]
  /\ network \in [DID -> [ops : SUBSET Handler, next : Secret]]
  /\ local \in [Handler -> Seq(Recorded) \cup Seq(Document)]
  /\ overlapped \in SUBSET DID
  /\ since \in [DID -> SUBSET Handler]

\* Which requests come to which step, and what they have read or have yet to write.
Phase(h) ==
  /\ pc[h] = "document" => Op(h) \in Creating \cup {"softDelete"}
  /\ pc[h] \in {"public", "private"} =>
       Op(h) \in Creating \cup {"storeKey", "revokeKey"} /\ storing[h] # <<>>
  /\ pc[h] \in {"public", "private"} /\ Op(h) = "storeKey" =>
       storing[h] = <<Write(request[h].id, NewKey(h))>>
  /\ pc[h] \in {"anchor", "record", "apply"} => Op(h) = "update"
  /\ pc[h] \in {"anchor", "record"} => local[h] \in Seq(Recorded) /\ local[h] # <<>>
  /\ pc[h] = "record" => Last(local[h]).status \in {"Anchored", "AnchorError"}
  /\ pc[h] = "document" /\ Op(h) = "softDelete" => local[h] \in Seq(Document) /\ Len(local[h]) = 1
  /\ pc[h] # "ended" /\ Op(h) # "update" => reply[h] = 0

\* The list of updates a handler has read and may still write back.
Holds(h, d) == Op(h) = "update" /\ Target(h) = d /\ pc[h] \in {"anchor", "record"}
Records(d) ==
  {states[d][i] : i \in DOMAIN states[d]} \cup
  UNION {{local[h][i] : i \in DOMAIN local[h]} : h \in {g \in Handler : Holds(g, d)}}

UpdateKey(d) == private[<<d, "update">>].secret
Taken(d) == network[d].ops
Updating(s) == s \in Handler /\ Op(s) = "update"

\* Who holds an update that was taken and is not applied: the store, or handler h.
InStore(d) == Status(d) = "Anchored"
InHand(h, d) == Holds(h, d) /\ pc[h] = "record" /\ Last(local[h]).status = "Anchored"
Unapplied(d) == InStore(d) \/ \E h \in Handler : InHand(h, d)

Chain(d) ==
  /\ Records(d) # {} => Stored(<<d, "update">>) /\ Stored(<<d, "staging">>)
  /\ InStore(d) => Last(states[d]).op = network[d].next /\ \A h \in Handler : ~InHand(h, d)
  /\ \A h \in Handler : InHand(h, d) =>
       Last(local[h]).op = network[d].next /\ \A g \in Handler : InHand(g, d) => g = h
  /\ Unapplied(d) => UpdateKey(d) # network[d].next
  /\ UpdateKey(d) # network[d].next => \A x \in Records(d) : x.signed # network[d].next
  /\ (UpdateKey(d) = network[d].next \/ Unapplied(d)) =>
       \A s \in {UpdateKey(d), network[d].next} \cup {x.signed : x \in Records(d)} :
         s \in Taken(d) \/ ~Updating(s)
  /\ \A x \in Records(d) :
       /\ x.signed = network[d].next => x.op \notin Taken(d)
       /\ Op(x.op) = "update" /\ pc[x.op] # "begin"
  /\ \A h \in Taken(d) : pc[h] # "begin"

\* The recorded updates and the documents they lead to are not ahead of the network.
Behind(d) ==
  /\ dids[d].ops \subseteq Taken(d)
  /\ \A x \in Records(d) :
       /\ x.status \in {"Anchored", "Done"} => x.op \in Taken(d)
       /\ x.doc.ops \subseteq Taken(d) \cup {x.op}
  /\ \A h \in Handler : Op(h) = "softDelete" /\ Target(h) = d /\ pc[h] = "document" =>
       local[h][1].ops \subseteq Taken(d)


------------------------------------------------------------------------------
\* The key of d for a use belongs to the document, and its halves to each other.
Whole(d, u) ==
  /\ Stored(<<d, u>>) /\ public[<<d, u>>] = private[<<d, u>>].secret
  /\ u = "doc" => private[<<d, u>>].secret = dids[d].by

\* Two creations can meet for a web DID only; what the keys of ion and key DIDs say
\* does not depend on who overlapped.
Clean(d) == Method[d] # "web" \/ d \notin overlapped

KeyOf(h, u) == Write(<<Target(h), u>>, NewKey(h))
ToWrite(h) ==
  {<<KeyOf(h, "doc")>>} \cup
  (IF Op(h) = "createIon"
   THEN {<<KeyOf(h, "recovery"), KeyOf(h, "doc")>>,
         <<KeyOf(h, "update"), KeyOf(h, "recovery"), KeyOf(h, "doc")>>}
   ELSE {})

Keeping(h) == pc[h] \in {"public", "private"}
Pending(h, u) ==
  pc[h] = "document" \/ (Keeping(h) /\ \E i \in DOMAIN storing[h] : storing[h][i].id = <<Target(h), u>>)

\* How far a creation is.
Creation(h) ==
  LET d == Target(h) IN
  Op(h) \in Creating =>
    /\ Keeping(h) => storing[h] \in ToWrite(h)
    /\ Method[d] # "web" /\ pc[h] = "begin" => ~Has(d)
    /\ Clean(d) /\ pc[h] = "document" => ~Has(d)
    /\ Clean(d) /\ Keeping(h) =>
         /\ dids[d].by = h
         /\ \A u \in UsesOf(d) : IF Pending(h, u) THEN ~Stored(<<d, u>>) ELSE Whole(d, u)
         /\ pc[h] = "private" => public[Head(storing[h]).id] = h
    /\ Clean(d) /\ reply[h] = 201 =>
         dids[d].by = h /\ \A u \in UsesOf(d) : Whole(d, u)
    /\ Op(h) = "createIon" /\ Pending(h, "update") => network[d].next = h

Batch(h) ==
  Op(h) = "batch" =>
    /\ pc[h] = "begin" => \A d \in request[h].dids : ~Has(d)
    /\ \/ reply[h] # 201 /\ \A d \in request[h].dids : ~Has(d)
       \/ \A d \in request[h].dids : Has(d) /\ Whole(d, "doc")

\* Keys come after the document, and only ion DIDs have update keys.
Keyed(d) ==
  Touched(d) =>
    /\ Clean(d) /\ ~Has(d) => \A u \in Use : ~Stored(<<d, u>>)
    /\ Method[d] # "ion" => ~Stored(<<d, "update">>)

\* The documents that are written back: none knows another creator.
Kept(d) ==
  /\ \A x \in Records(d) : Has(d) /\ x.doc.by = dids[d].by
  /\ \A h \in Handler : Op(h) = "softDelete" /\ Target(h) = d /\ pc[h] = "document" =>
       /\ Has(d) /\ local[h][1].by # None /\ ~Updating(local[h][1].by)
       /\ Clean(d) => local[h][1].by = dids[d].by
  /\ ~Updating(dids[d].by)

\* Since a deletion only updates have begun, and those the network may still take,
\* or has taken, keep the mark.
Deleted(d) ==
  /\ dids[d].deleted => Has(d) /\ \A h \in since[d] : Op(h) = "update"
  /\ \A x \in Records(d) : x.doc.deleted => \A h \in since[d] : Op(h) = "update"
  /\ dids[d].deleted =>
       /\ \A x \in Records(d) :
            x.op \in since[d] /\ x.signed = network[d].next => x.doc.deleted
       /\ InStore(d) /\ Last(states[d]).op \in since[d] => Last(states[d]).doc.deleted
       /\ \A h \in Handler :
            InHand(h, d) /\ Last(local[h]).op \in since[d] => Last(local[h]).doc.deleted

\* One at a time: the list read is the list stored, and the key put aside is the
\* one of the last update.
Follows(d) ==
  d \notin overlapped =>
    /\ \A g, h \in Writing(d) : g = h
    /\ Touched(d) /\ states[d] # <<>> => private[<<d, "staging">>].secret = Last(states[d]).op
    /\ \A h \in Handler : Holds(h, d) =>
         Status(d) = "PreAnchor" /\ Last(local[h]).op = Last(states[d]).op
    /\ Touched(d) /\ Status(d) = "Done" => UpdateKey(d) = network[d].next

\* A revocation stores the key it read with the flag.
Revocation(h) ==
  Op(h) = "revokeKey" /\ Keeping(h) => \E key \in PrivateKey :
    key.revoked /\ storing[h] = <<Write(request[h].id, key)>>

About(d) ==
  /\ Touched(d) => Chain(d)
  /\ ~Touched(d) => Records(d) = {}
  /\ Behind(d) /\ Keyed(d) /\ Kept(d) /\ Deleted(d) /\ Follows(d)

SInv ==
  /\ ServiceTypeOK
  /\ \A h \in Handler : Phase(h) /\ Creation(h) /\ Batch(h) /\ Revocation(h)
  /\ \A d \in DID : About(d)

------------------------------------------------------------------------------
\* Every request names DIDs and keys there are, of the method its operation is for.
LEMMA RequestType ==
  ASSUME request \in Workload, NEW h \in Handler
  PROVE  /\ Op(h) \in {"createKey", "createWeb", "createIon", "batch", "update", "softDelete",
                       "get", "resolve", "list", "storeKey", "revokeKey", "sign", "keyDetails"}
         /\ Target(h) \in DID /\ request[h].id \in KeyId /\ request[h].dids \subseteq DID
         /\ Op(h) = "createWeb" => Method[Target(h)] = "web"
         /\ Op(h) = "createIon" => Method[Target(h)] = "ion"
         /\ Op(h) = "createKey" => Method[Target(h)] = "key"
         /\ Op(h) = "batch" => \A d \in request[h].dids : Method[d] = "key"
BY WorkloadAssumption DEF Op, Target, Makes

\* Two requests make the same DID only for the web.
LEMMA MadeOnce ==
  ASSUME request \in Workload, NEW g \in Handler, NEW h \in Handler, g # h, NEW d \in DID,
         Makes(request[g], d), Makes(request[h], d)
  PROVE  Method[d] = "web"
BY WorkloadAssumption

\* The routes that create, and the update of ion, write the DIDs they name.
LEMMA CreatorMakes ==
  ASSUME request \in Workload, NEW h \in Handler
  PROVE  /\ Op(h) \in Creating => Makes(request[h], Target(h)) /\ Touched(Target(h))
         /\ Op(h) = "batch" => \A d \in request[h].dids : Makes(request[h], d) /\ Touched(d)
         /\ Op(h) = "update" => Touched(Target(h))
BY DEF Creating, Op, Target, Makes, Touches, Touched

\* Every DID has an id for each use of a key.
LEMMA KeyIds == ASSUME NEW d \in DID, NEW u \in Use PROVE <<d, u>> \in KeyId
BY DIDAssumption

\* Every method keeps a key of the document.
LEMMA Uses == ASSUME NEW d \in DID PROVE UsesOf(d) \subseteq Use /\ "doc" \in UsesOf(d)
BY DEF UsesOf, Use

\* A list of updates and the last of it.
LEMMA LastOf ==
  ASSUME NEW S, NEW s \in Seq(S), s # <<>>
  PROVE  /\ Len(s) \in Nat /\ Len(s) \in 1..Len(s) /\ DOMAIN s = 1..Len(s)
         /\ Last(s) = s[Len(s)] /\ Last(s) \in S
<1>1. Len(s) \in Nat /\ DOMAIN s = 1..Len(s) /\ Len(s) # 0
  BY EmptySeq, LenProperties
<1>2. Len(s) \in 1..Len(s)
  BY <1>1
<1> QED BY <1>1, <1>2, ElementOfSeq DEF Last

\* The updates of a DID are those in the store and in the lists handlers have read.
LEMMA RecordsOf ==
  ASSUME NEW d \in DID
  PROVE  /\ \A i \in DOMAIN states[d] : states[d][i] \in Records(d)
         /\ \A h \in Handler : Holds(h, d) => \A i \in DOMAIN local[h] : local[h][i] \in Records(d)
         /\ \A x \in Records(d) :
              \/ \E i \in DOMAIN states[d] : x = states[d][i]
              \/ \E h \in Handler : Holds(h, d) /\ \E i \in DOMAIN local[h] : x = local[h][i]
BY DEF Records

\* They are well formed, and the last of each list is one of them.
LEMMA RecordType ==
  ASSUME ServiceTypeOK, \A h \in Handler : Phase(h), NEW d \in DID
  PROVE  /\ \A x \in Records(d) : x \in Recorded
         /\ states[d] # <<>> => Last(states[d]) \in Records(d)
         /\ \A h \in Handler : Holds(h, d) => Last(local[h]) \in Records(d)
<1>1. states[d] \in Seq(Recorded) /\ DOMAIN states[d] = 1..Len(states[d])
  BY LenProperties DEF ServiceTypeOK
<1>2. \A h \in Handler : Holds(h, d) =>
        local[h] \in Seq(Recorded) /\ local[h] # <<>> /\ DOMAIN local[h] = 1..Len(local[h])
  BY LenProperties DEF Phase, Holds
<1>3. \A i \in DOMAIN states[d] : states[d][i] \in Recorded
  BY <1>1, ElementOfSeq
<1>4. \A h \in Handler : Holds(h, d) => \A i \in DOMAIN local[h] : local[h][i] \in Recorded
  BY <1>2, ElementOfSeq
<1>5. \A x \in Records(d) : x \in Recorded
  BY <1>3, <1>4, RecordsOf
<1>6. states[d] # <<>> => Last(states[d]) \in Records(d)
  BY <1>1, LastOf, RecordsOf
<1>7. \A h \in Handler : Holds(h, d) => Last(local[h]) \in Records(d)
  BY <1>2, LastOf, RecordsOf
<1> QED BY <1>5, <1>6, <1>7

------------------------------------------------------------------------------
\* A step that leaves the updates of d and its keys for them; handlers may end and
\* lose what they read.
Steady(d) ==
  /\ UNCHANGED request
  /\ states'[d] = states[d] /\ network'[d] = network[d]
  /\ Touched(d) => \A u \in {"update", "staging"} :
       private'[<<d, u>>].secret = private[<<d, u>>].secret
  /\ \A g \in Handler : pc'[g] = "begin" => pc[g] = "begin"
  /\ \A g \in Handler : Op(g) = "update" /\ Target(g) = d /\ pc'[g] \in {"anchor", "record"} =>
       pc'[g] = pc[g] /\ local'[g] = local[g]

\* And its document.
Still(d) ==
  /\ Steady(d)
  /\ dids'[d] = dids[d] /\ since'[d] = since[d] /\ (d \in overlapped => d \in overlapped')
  /\ Touched(d) /\ Clean(d) /\ ~Has(d) => \A u \in Use : Stored(<<d, u>>)' => Stored(<<d, u>>)
  /\ \A g \in Handler : Op(g) = "softDelete" /\ Target(g) = d /\ pc'[g] = "document" =>
       \/ pc[g] = "document" /\ local'[g] = local[g]
       \/ Has(d) /\ local'[g] = <<dids[d]>>
  /\ Writing(d)' \subseteq Writing(d)

\* A steady step adds no update and changes none.
LEMMA SteadyRecords ==
  ASSUME NEW d \in DID, Steady(d)
  PROVE  /\ Records(d)' \subseteq Records(d)
         /\ \A h \in Handler : Holds(h, d)' => Holds(h, d) /\ local'[h] = local[h] /\ pc'[h] = pc[h]
         /\ \A h \in Handler : InHand(h, d)' => InHand(h, d) /\ Last(local'[h]) = Last(local[h])
         /\ Status(d)' = Status(d) /\ (InStore(d)' <=> InStore(d))
         /\ Touched(d)' <=> Touched(d)
         /\ Touched(d) => UpdateKey(d)' = UpdateKey(d)
<1>1. \A h \in Handler : Holds(h, d)' => Holds(h, d) /\ local'[h] = local[h] /\ pc'[h] = pc[h]
  BY DEF Holds, Steady, Op, Target
<1>2. Status(d)' = Status(d)
  BY DEF Status, Steady
<1>3. Touched(d) => UpdateKey(d)' = UpdateKey(d)
  BY DEF Steady, UpdateKey
<1>4. Records(d)' \subseteq Records(d)
  BY <1>1 DEF Records, Steady
<1>5. Touched(d)' <=> Touched(d)
  BY DEF Steady, Touched
<1>6. \A h \in Handler : InHand(h, d)' => InHand(h, d) /\ Last(local'[h]) = Last(local[h])
  BY <1>1 DEF InHand
<1> QED BY <1>1, <1>2, <1>3, <1>4, <1>5, <1>6 DEF InStore

\* So it keeps the chain,
LEMMA SteadyChain ==
  ASSUME ServiceTypeOK, \A h \in Handler : Phase(h), NEW d \in DID, Touched(d), Chain(d), Steady(d)
  PROVE  Chain(d)'
<1>1. /\ Records(d)' \subseteq Records(d)
      /\ \A h \in Handler : Holds(h, d)' => Holds(h, d) /\ local'[h] = local[h] /\ pc'[h] = pc[h]
      /\ \A h \in Handler : InHand(h, d)' => InHand(h, d) /\ Last(local'[h]) = Last(local[h])
      /\ Status(d)' = Status(d) /\ (InStore(d)' <=> InStore(d))
      /\ UpdateKey(d)' = UpdateKey(d)
  BY SteadyRecords
<1>2. /\ UNCHANGED request
      /\ states'[d] = states[d] /\ network'[d] = network[d]
      /\ \A g \in Handler : pc'[g] = "begin" => pc[g] = "begin"
      /\ \A u \in {"update", "staging"} : Stored(<<d, u>>)' <=> Stored(<<d, u>>)
      /\ \A s : Updating(s)' <=> Updating(s)
      /\ Taken(d)' = Taken(d)
      /\ \A h : Op(h)' = Op(h) /\ Target(h)' = Target(h)
  BY DEF Steady, Stored, Updating, Op, Taken, Target
<1>3. Unapplied(d)' => Unapplied(d)
  BY <1>1 DEF Unapplied
<1>4. {x.signed : x \in Records(d)}' \subseteq {x.signed : x \in Records(d)}
  BY <1>1
<1>5. \A x \in Records(d) : x.op \in Handler
  BY RecordType DEF Recorded
<1>6. Records(d)' # {} => Stored(<<d, "update">>)' /\ Stored(<<d, "staging">>)'
  BY <1>1, <1>2 DEF Chain
<1>7. \A h \in Taken(d)' : pc'[h] # "begin"
  BY <1>2 DEF Chain, ServiceTypeOK, Taken
<1>8. /\ Unapplied(d)' => UpdateKey(d)' # network'[d].next
      /\ UpdateKey(d)' # network'[d].next => \A x \in Records(d)' : x.signed # network'[d].next
  BY <1>1, <1>2, <1>3 DEF Chain
<1>9. \A x \in Records(d)' :
         /\ x.signed = network'[d].next => x.op \notin Taken(d)'
         /\ Op(x.op)' = "update" /\ pc'[x.op] # "begin"
  BY <1>1, <1>2, <1>5 DEF Chain
<1>10. /\ InStore(d)' => Last(states[d])'.op = network'[d].next /\ \A h \in Handler : ~InHand(h, d)'
       /\ \A h \in Handler : InHand(h, d)' =>
            Last(local[h])'.op = network'[d].next /\ \A g \in Handler : InHand(g, d)' => g = h
  BY <1>1, <1>2 DEF Chain
<1>11. (UpdateKey(d)' = network'[d].next \/ Unapplied(d)') =>
         \A s \in ({UpdateKey(d), network[d].next} \cup {x.signed : x \in Records(d)})' :
           s \in Taken(d)' \/ ~Updating(s)'
  BY <1>1, <1>2, <1>3, <1>4 DEF Chain
<1> QED BY <1>6, <1>7, <1>8, <1>9, <1>10, <1>11 DEF Chain

\* and with the document left alone all that is said of the DID.
LEMMA StillKeeps ==
  ASSUME ServiceTypeOK, \A h \in Handler : Phase(h), NEW d \in DID, About(d), Still(d)
  PROVE  About(d)'
<1>1. /\ Records(d)' \subseteq Records(d)
      /\ \A h \in Handler : Holds(h, d)' => Holds(h, d) /\ local'[h] = local[h] /\ pc'[h] = pc[h]
      /\ \A h \in Handler : InHand(h, d)' => InHand(h, d) /\ Last(local'[h]) = Last(local[h])
      /\ Status(d)' = Status(d) /\ (InStore(d)' <=> InStore(d))
      /\ Touched(d)' <=> Touched(d)
      /\ Touched(d) => UpdateKey(d)' = UpdateKey(d)
  BY SteadyRecords DEF Still
<1>2. /\ UNCHANGED request
      /\ dids'[d] = dids[d] /\ states'[d] = states[d] /\ network'[d] = network[d]
      /\ since'[d] = since[d] /\ (d \in overlapped => d \in overlapped')
      /\ \A g \in Handler : pc'[g] = "begin" => pc[g] = "begin"
      /\ Touched(d) => \A u \in {"update", "staging"} : Stored(<<d, u>>)' <=> Stored(<<d, u>>)
      /\ \A s : Updating(s)' <=> Updating(s)
      /\ Taken(d)' = Taken(d)
      /\ \A h : Op(h)' = Op(h) /\ Target(h)' = Target(h)
  BY DEF Still, Steady, Stored, Updating, Op, Taken, Target
<1>3. \A h \in Handler : Op(h) = "softDelete" /\ Target(h) = d /\ pc'[h] = "document" =>
        \/ pc[h] = "document" /\ local'[h] = local[h]
        \/ Has(d) /\ local'[h][1] = dids[d]
  BY DEF Still, Steady
<1>4. ASSUME Touched(d) PROVE Chain(d)'
  BY <1>4, SteadyChain DEF About, Still
<1>5. ~Touched(d) => Records(d)' = {}
  BY <1>1 DEF About
<1>6. Behind(d)'
  BY <1>1, <1>2, <1>3 DEF About, Behind
<1>7. Keyed(d)'
  <2>1. Touched(d) /\ Clean(d)' /\ ~Has(d)' => \A u \in Use : ~Stored(<<d, u>>)'
    BY <1>2 DEF About, Keyed, Clean, Has, Still
  <2> QED BY <1>1, <1>2, <2>1 DEF About, Keyed
<1>8. Kept(d)'
  BY <1>1, <1>2, <1>3 DEF About, Kept, Clean, Has
<1>9. Deleted(d)'
  BY <1>1, <1>2 DEF About, Deleted, Has
<1>10. Follows(d)'
  <2>1. Writing(d)' \subseteq Writing(d)
    BY DEF Still, Steady
  <2>2. Touched(d) => private'[<<d, "staging">>].secret = private[<<d, "staging">>].secret
    BY DEF Still, Steady
  <2> QED BY <1>1, <1>2, <2>1, <2>2 DEF About, Follows
<1> QED BY <1>1, <1>4, <1>5, <1>6, <1>7, <1>8, <1>9, <1>10 DEF About

------------------------------------------------------------------------------
\* The keys a creation has yet to store, one use after the other.
UsesIn(h, list) == {u \in Use : \E i \in DOMAIN list : list[i].id = <<Target(h), u>>}

\* A list of one key is for one use,
LEMMA OneUse ==
  ASSUME NEW h \in Handler, NEW a \in Use
  PROVE  UsesIn(h, <<KeyOf(h, a)>>) = {a}
<1> DEFINE A == KeyOf(h, a)
<1>1. A.id = <<Target(h), a>>
  BY DEF KeyOf, Write
<1> HIDE DEF A
<1>2. DOMAIN <<A>> = {1} /\ <<A>>[1] = A
  OBVIOUS
<1>3. UsesIn(h, <<A>>) = {a}
  BY <1>1, <1>2 DEF UsesIn
<1> QED BY <1>3 DEF A

\* one of two keys for two,
LEMMA TwoUses ==
  ASSUME NEW h \in Handler, NEW a \in Use, NEW b \in Use
  PROVE  UsesIn(h, <<KeyOf(h, a), KeyOf(h, b)>>) = {a, b}
<1> DEFINE A == KeyOf(h, a)
           B == KeyOf(h, b)
<1>1. A.id = <<Target(h), a>> /\ B.id = <<Target(h), b>>
  BY DEF KeyOf, Write
<1> HIDE DEF A, B
<1>2. DOMAIN <<A, B>> = {1, 2} /\ <<A, B>>[1] = A /\ <<A, B>>[2] = B
  OBVIOUS
<1>3. UsesIn(h, <<A, B>>) = {a, b}
  BY <1>1, <1>2 DEF UsesIn
<1> QED BY <1>3 DEF A, B

\* and that of an ion DID for three.
LEMMA IonUses ==
  ASSUME NEW h \in Handler
  PROVE  UsesIn(h, <<KeyOf(h, "update"), KeyOf(h, "recovery"), KeyOf(h, "doc")>>) =
         {"update", "recovery", "doc"}
<1> DEFINE A == KeyOf(h, "update")
           B == KeyOf(h, "recovery")
           C == KeyOf(h, "doc")
<1>1. A.id = <<Target(h), "update">> /\ B.id = <<Target(h), "recovery">>
      /\ C.id = <<Target(h), "doc">>
  BY DEF KeyOf, Write
<1> HIDE DEF A, B, C
<1>2. DOMAIN <<A, B, C>> = {1, 2, 3} /\ <<A, B, C>>[1] = A /\ <<A, B, C>>[2] = B
      /\ <<A, B, C>>[3] = C
  OBVIOUS
<1>3. UsesIn(h, <<A, B, C>>) = {"update", "recovery", "doc"}
  BY <1>1, <1>2 DEF UsesIn, Use
<1> QED BY <1>3 DEF A, B, C

\* A key is pending while it is in the list.
LEMMA PendingUses ==
  ASSUME NEW h, NEW u \in Use, Keeping(h)
  PROVE  Pending(h, u) <=> u \in UsesIn(h, storing[h])
BY DEF Pending, UsesIn, Keeping

\* What it writes now, and what is left then.
LEMMA NextWrite ==
  ASSUME request \in Workload, NEW h \in Handler, Op(h) \in Creating, storing[h] \in ToWrite(h)
  PROVE  \E u \in UsesOf(Target(h)) :
           /\ Head(storing[h]) = KeyOf(h, u)
           /\ u \in UsesIn(h, storing[h]) /\ UsesIn(h, storing[h]) \subseteq UsesOf(Target(h))
           /\ Len(storing[h]) > 1 =>
                /\ Tail(storing[h]) \in ToWrite(h) /\ Tail(storing[h]) # <<>>
                /\ UsesIn(h, Tail(storing[h])) = UsesIn(h, storing[h]) \ {u}
           /\ ~(Len(storing[h]) > 1) => UsesIn(h, storing[h]) = {u}
<1> DEFINE A == KeyOf(h, "update")
           B == KeyOf(h, "recovery")
           C == KeyOf(h, "doc")
           d == Target(h)
<1>1. /\ UsesIn(h, <<C>>) = {"doc"} /\ UsesIn(h, <<B, C>>) = {"recovery", "doc"}
      /\ UsesIn(h, <<A, B, C>>) = {"update", "recovery", "doc"}
  <2>1. "doc" \in Use /\ "recovery" \in Use /\ "update" \in Use
    BY DEF Use
  <2>2. UsesIn(h, <<C>>) = {"doc"}
    BY <2>1, OneUse
  <2>3. UsesIn(h, <<B, C>>) = {"recovery", "doc"}
    BY <2>1, TwoUses, Zenon
  <2>4. UsesIn(h, <<A, B, C>>) = {"update", "recovery", "doc"}
    BY IonUses
  <2> QED BY <2>2, <2>3, <2>4
<1>2. /\ "doc" \in UsesOf(d)
      /\ Op(h) = "createIon" => UsesOf(d) = {"update", "recovery", "doc"}
  BY RequestType DEF UsesOf
<1>3. \/ storing[h] = <<C>>
      \/ Op(h) = "createIon" /\ storing[h] = <<B, C>>
      \/ Op(h) = "createIon" /\ storing[h] = <<A, B, C>>
  BY DEF ToWrite
<1>4. <<C>> \in ToWrite(h) /\ (Op(h) = "createIon" => <<B, C>> \in ToWrite(h))
  BY DEF ToWrite
<1> HIDE DEF A, B, C
<1>5. CASE storing[h] = <<C>>
  <2>1. Head(storing[h]) = C /\ ~(Len(storing[h]) > 1)
    BY <1>5
  <2> QED BY <1>1, <1>2, <1>5, <2>1 DEF C
<1>6. CASE Op(h) = "createIon" /\ storing[h] = <<B, C>>
  <2>1. Head(storing[h]) = B /\ Tail(storing[h]) = <<C>> /\ Len(storing[h]) > 1
    BY <1>6
  <2>2. <<C>> # <<>>
    OBVIOUS
  <2>3. UsesIn(h, Tail(storing[h])) = UsesIn(h, storing[h]) \ {"recovery"}
    BY <1>1, <1>6, <2>1
  <2> QED BY <1>1, <1>2, <1>4, <1>6, <2>1, <2>2, <2>3 DEF B
<1>7. CASE Op(h) = "createIon" /\ storing[h] = <<A, B, C>>
  <2>1. Head(storing[h]) = A /\ Tail(storing[h]) = <<B, C>> /\ Len(storing[h]) > 1
    BY <1>7
  <2>2. <<B, C>> # <<>>
    OBVIOUS
  <2>3. UsesIn(h, Tail(storing[h])) = UsesIn(h, storing[h]) \ {"update"}
    BY <1>1, <1>7, <2>1
  <2> QED BY <1>1, <1>2, <1>4, <1>7, <2>1, <2>2, <2>3 DEF A
<1> QED BY <1>3, <1>5, <1>6, <1>7

\* The keys of a new document.
LEMMA FirstWrites ==
  ASSUME request \in Workload, NEW h \in Handler, Op(h) \in Creating
  PROVE  KeysOf(h) \in ToWrite(h) /\ UsesIn(h, KeysOf(h)) = UsesOf(Target(h)) /\ KeysOf(h) # <<>>
<1> DEFINE A == KeyOf(h, "update")
           B == KeyOf(h, "recovery")
           C == KeyOf(h, "doc")
           d == Target(h)
<1>1. d \in DID /\ (Op(h) = "createIon" <=> Method[d] = "ion")
  BY RequestType DEF Creating
<1>2. CASE Method[d] = "ion"
  <2>1. UsesOf(d) = {"update", "recovery", "doc"} /\ Cardinality(UsesOf(d)) = 3
    <3>1. UsesOf(d) = {"update", "recovery", "doc"}
      BY <1>2 DEF UsesOf
    <3>2. Cardinality({"doc"}) = 1 /\ IsFiniteSet({"doc"})
      BY FS_Singleton
    <3> DEFINE two == {"doc"} \cup {"recovery"}
    <3>a. "recovery" \notin {"doc"} /\ "update" \notin two
      OBVIOUS
    <3>3. Cardinality(two) = 2 /\ IsFiniteSet(two)
      <4>1. Cardinality(two) = Cardinality({"doc"}) + 1 /\ IsFiniteSet(two)
        BY <3>2, <3>a, FS_AddElement, Zenon
      <4> QED BY <3>2, <4>1
    <3>4. Cardinality(two \cup {"update"}) = 3
      <4> HIDE DEF two
      <4>1. Cardinality(two \cup {"update"}) = Cardinality(two) + 1
        BY <3>3, <3>a, FS_AddElement, Zenon
      <4> QED BY <3>3, <4>1
    <3>5. UsesOf(d) = {"doc"} \cup {"recovery"} \cup {"update"}
      BY <3>1
    <3> QED BY <3>1, <3>4, <3>5
  <2>2. KeysOf(h) = [i \in 1..3 |-> Write(<<d, <<"update", "recovery", "doc">>[i]>>, NewKey(h))]
    BY <1>2, <2>1 DEF KeysOf
  <2>3. KeysOf(h) = <<A, B, C>>
    BY <2>2 DEF KeyOf
  <2>4. UsesIn(h, <<A, B, C>>) = {"update", "recovery", "doc"}
    BY IonUses
  <2>5. <<A, B, C>> \in ToWrite(h)
    BY <1>1, <1>2 DEF ToWrite
  <2> HIDE DEF A, B, C
  <2>6. <<A, B, C>> # <<>>
    OBVIOUS
  <2> QED BY <2>1, <2>3, <2>4, <2>5, <2>6
<1>3. CASE Method[d] # "ion"
  <2>1. UsesOf(d) = {"doc"} /\ Cardinality(UsesOf(d)) = 1
    BY <1>3, FS_Singleton DEF UsesOf
  <2>2. KeysOf(h) = [i \in 1..1 |-> Write(<<d, "doc">>, NewKey(h))]
    BY <1>3, <2>1 DEF KeysOf
  <2>3. KeysOf(h) = <<C>>
    BY <2>2 DEF KeyOf
  <2>4. UsesIn(h, <<C>>) = {"doc"}
    BY OneUse DEF Use
  <2>5. <<C>> \in ToWrite(h)
    BY DEF ToWrite
  <2> HIDE DEF C
  <2>6. <<C>> # <<>>
    OBVIOUS
  <2> QED BY <2>1, <2>3, <2>4, <2>5, <2>6
<1> QED BY <1>2, <1>3

------------------------------------------------------------------------------
\* What handler g has made stays as it is, and what it has yet to store is not there.
Active(g) == pc[g] \notin {"begin", "ended"}

Unharmed(d) ==
  /\ dids'[d].by = dids[d].by /\ (d \in overlapped => d \in overlapped')
  /\ \A u \in UsesOf(d) :
       /\ Stored(<<d, u>>)' <=> Stored(<<d, u>>)
       /\ Whole(d, u) => Whole(d, u)'
       /\ ~Stored(<<d, u>>) => public'[<<d, u>>] = public[<<d, u>>]
  /\ ~Stored(<<d, "update">>) => network'[d].next = network[d].next

Waiting(g) ==
  pc'[g] = pc[g] /\ reply'[g] = reply[g] /\ storing'[g] = storing[g] /\ local'[g] = local[g]

\* What a step of another handler must not touch for g.
Harmless(g) ==
  /\ Target(g) \in overlapped => Target(g) \in overlapped'
  /\ Op(g) \in Creating /\ Clean(Target(g))
     /\ (Method[Target(g)] # "web" \/ Active(g) \/ reply[g] = 201) => Unharmed(Target(g))
  /\ Op(g) = "batch" => \A d \in request[g].dids : Unharmed(d)

\* A handler that waits keeps what is said of its request if nothing of it is touched.
LEMMA WaitingKeeps ==
  ASSUME ServiceTypeOK, UNCHANGED request, NEW g \in Handler, Waiting(g), Harmless(g),
         Phase(g), Creation(g), Batch(g), Revocation(g), Keyed(Target(g))
  PROVE  Phase(g)' /\ Creation(g)' /\ Batch(g)' /\ Revocation(g)'
<1> DEFINE d == Target(g)
<1>0. /\ request \in Workload /\ Op(g)' = Op(g) /\ Target(g)' = Target(g) /\ d \in DID
      /\ Keeping(g)' <=> Keeping(g)
      /\ request' = request
  BY RequestType DEF ServiceTypeOK, Op, Target, Keeping, Waiting
<1>1. Phase(g)'
  BY <1>0 DEF Phase, Waiting
<1>2. Batch(g)'
  <2>1. \A e \in request[g].dids : e \in DID /\ "doc" \in UsesOf(e)
    BY <1>0, RequestType, Uses
  <2> QED BY <1>0, <2>1 DEF Batch, Waiting, Harmless, Unharmed, Has
<1>3. Revocation(g)'
  <2>1. \A s \in Handler : Op(s)' = Op(s)
    BY <1>0 DEF Op
  <2> QED BY <1>0, <2>1 DEF Revocation, Waiting, Harmless
<1>4. ASSUME Op(g) \in Creating PROVE Creation(g)'
  <2>1. \A u : Pending(g, u)' <=> Pending(g, u)
    BY <1>0 DEF Pending, Waiting
  <2>2. ToWrite(g)' = ToWrite(g)
    BY <1>0 DEF ToWrite, KeyOf
  <2>3. Clean(d)' => Clean(d)
    BY <1>0 DEF Clean, Harmless
  <2>4. CASE ~Clean(d)
    BY <1>0, <1>4, <2>1, <2>2, <2>3, <2>4, RequestType DEF Creation, Waiting, Clean
  <2>a. CASE Method[d] = "web" /\ ~Active(g) /\ reply[g] # 201
    <3>1. Op(g) # "createIon" /\ ~Keeping(g) /\ pc[g] # "document"
      BY <1>0, <2>a, RequestType DEF Active, Keeping
    <3> QED BY <1>0, <2>a, <3>1 DEF Creation, Waiting
  <2>5. CASE Clean(d) /\ ~(Method[d] = "web" /\ ~Active(g) /\ reply[g] # 201)
    <3>1. Unharmed(d)
      BY <1>4, <2>5 DEF Harmless
    <3>2. /\ Keeping(g) => storing'[g] \in ToWrite(g)'
          /\ Method[d] # "web" /\ pc'[g] = "begin" => ~Has(d)'
          /\ Clean(d)' /\ pc'[g] = "document" => ~Has(d)'
      BY <1>0, <1>4, <2>2, <2>5, <3>1 DEF Creation, Waiting, Unharmed, Has
    <3>3. Clean(d)' /\ Keeping(g)' =>
            /\ dids'[d].by = g
            /\ \A u \in UsesOf(d) : IF Pending(g, u) THEN ~Stored(<<d, u>>)' ELSE Whole(d, u)'
      BY <1>0, <1>4, <2>5, <3>1 DEF Creation, Unharmed
    <3>4. Clean(d)' /\ Keeping(g)' /\ pc'[g] = "private" => public'[Head(storing[g]).id] = g
      <4> SUFFICES ASSUME Keeping(g), pc[g] = "private" PROVE public'[Head(storing[g]).id] = g
        BY <1>0 DEF Waiting
      <4>1. storing[g] \in ToWrite(g)
        BY <1>4 DEF Creation
      <4>2. PICK u \in UsesOf(d) : Head(storing[g]) = KeyOf(g, u) /\ u \in UsesIn(g, storing[g])
        BY <1>0, <1>4, <4>1, NextWrite
      <4>3. Pending(g, u)
        BY <1>0, <4>2, Uses, PendingUses
      <4>4. ~Stored(<<d, u>>) /\ public[Head(storing[g]).id] = g
        BY <1>4, <2>5, <4>3 DEF Creation
      <4>5. Head(storing[g]).id = <<d, u>>
        BY <4>2 DEF KeyOf, Write
      <4> QED BY <3>1, <4>4, <4>5 DEF Unharmed
    <3>5. Clean(d)' /\ reply'[g] = 201 => dids'[d].by = g /\ \A u \in UsesOf(d) : Whole(d, u)'
      BY <1>4, <2>5, <3>1 DEF Creation, Waiting, Unharmed
    <3>6. Op(g) = "createIon" /\ Pending(g, "update") => network'[d].next = g
      <4> SUFFICES ASSUME Op(g) = "createIon", Pending(g, "update") PROVE network'[d].next = g
        OBVIOUS
      <4>1. "update" \in UsesOf(d) /\ "update" \in Use /\ Touched(d)
        BY <1>0, <1>4, RequestType, CreatorMakes DEF UsesOf, Use
      <4>2. ~Stored(<<d, "update">>)
        BY <1>4, <2>5, <4>1 DEF Creation, Pending, Keyed
      <4> QED BY <1>4, <3>1, <4>2 DEF Creation, Unharmed
    <3>7. UsesOf(d)' = UsesOf(d)
      BY DEF UsesOf, Target, Waiting
    <3> QED BY <1>0, <2>1, <3>2, <3>3, <3>4, <3>5, <3>6 DEF Creation, Waiting
  <2> QED BY <2>4, <2>a, <2>5
<1>5. Creation(g)'
  BY <1>0, <1>4 DEF Creation
<1> QED BY <1>1, <1>2, <1>3, <1>5

------------------------------------------------------------------------------
\* A step that does no more than to end the handler.
End(h) ==
  /\ pc[h] # "ended"
  /\ \E status \in {200, 204, 400, 500} : Respond(h, status)
  /\ UNCHANGED <<request, public, private, storing, dids, states, network, local, overlapped, since>>

AnchoredInVain(h) ==
  AnchoringFails(h) /\ network' = [network EXCEPT ![Target(h)].next = h]

StartWeb(h) == CreateWeb(h) /\ Free(Target(h)) /\ ToStoring(h) /\ UNCHANGED network

Finishes(h) == ApplyUpdate(h) /\ Status(Target(h)) = "Anchored"

KeyOnly(h) == UNCHANGED <<dids, states, network, local, overlapped, since>>
StartStoring(h) == StoreKey(h) /\ KeyOnly(h)
StartRevoking(h) == RevokeKey(h) /\ Stored(request[h].id) /\ KeyOnly(h)
Publishing(h) == WritePublic(h) /\ KeyOnly(h)
Keeps(h) == WritePrivate(h) /\ KeyOnly(h)

\* A step of a handler, with all that only end it taken together.
Acts(h) ==
  \/ End(h) \/ AnchoredInVain(h) \/ CreateKey(h) \/ StartWeb(h) \/ CreateIon(h) \/ StoreDID(h)
  \/ BatchCreateDIDs(h) \/ PrepareUpdate(h) \/ AnchorTaken(h) \/ AnchorFails(h)
  \/ RecordAnchor(h) \/ Finishes(h) \/ ReadToDelete(h) \/ WriteDeleted(h)
  \/ StartStoring(h) \/ StartRevoking(h) \/ Publishing(h) \/ Keeps(h)

\* Every step is one of those actions.
LEMMA StepActs ==
  ASSUME \A h \in Handler : Phase(h), NEW h \in Handler, Step(h) \/ Stop(h)
  PROVE  Acts(h)
<1>1. ASSUME NEW status \in {400, 500}, pc[h] # "ended", Respond(h, status),
             UNCHANGED <<request, public, private, storing, dids, states, network, local, overlapped, since>>
      PROVE  End(h)
  BY <1>1 DEF End
<1>2. ASSUME pc[h] # "ended", Succeed(h), Op(h) \in {"get", "resolve", "list", "keyDetails", "sign", "update"},
             UNCHANGED <<request, public, private, storing, dids, states, network, local, overlapped, since>>
      PROVE  End(h)
  <2>1. SuccessOf(request[h].op) = 200
    BY <1>2 DEF SuccessOf, Op
  <2> QED BY <1>2, <2>1 DEF End, Succeed
<1>3. CASE Stop(h)
  BY <1>1, <1>3 DEF Stop, Fail, Acts, history
<1>4. ASSUME NEW ops, Refused(h, ops) PROVE Acts(h)
  <2>1. pc[h] # "ended" /\ Respond(h, 400)
        /\ UNCHANGED <<request, public, private, storing, dids, states, network, local, overlapped, since>>
    BY <1>4 DEF Refused, BadRequest, history
  <2> QED BY <1>1, <2>1 DEF Acts
<1>5. CASE CreateDIDByMethod(h)
  <2>1. CASE CreateWeb(h)
    <3>1. CASE Fail(h)
      BY <1>1, <2>1, <3>1 DEF Fail, CreateWeb, Acts, history
    <3> QED BY <2>1, <3>1 DEF CreateWeb, StartWeb, Acts
  <2>2. CASE AnchoringFails(h)
    <3>1. CASE UNCHANGED network
      BY <1>1, <2>2, <3>1 DEF AnchoringFails, Acts, history
    <3> QED BY <2>2, <3>1 DEF AnchoringFails, AnchoredInVain, Acts
  <2> QED BY <1>4, <1>5, <2>1, <2>2 DEF CreateDIDByMethod, Acts
<1>6. CASE BatchCreate(h)
  BY <1>4, <1>6 DEF BatchCreate, Acts
<1>7. CASE UpdateDIDByMethod(h)
  <2>1. CASE UpdateImpossible(h)
    <3>1. PICK status \in {400, 500} : Respond(h, status)
      BY <2>1 DEF UpdateImpossible
    <3> QED BY <1>1, <2>1, <3>1 DEF UpdateImpossible, Acts, history
  <2>2. CASE ApplyUpdate(h)
    <3>1. CASE Status(Target(h)) = "Anchored"
      BY <2>2, <3>1 DEF Finishes, Acts
    <3>2. CASE Status(Target(h)) # "Anchored"
      <4>1. pc[h] # "ended" /\ Op(h) = "update" /\ Succeed(h)
            /\ UNCHANGED <<request, public, private, storing, dids, states, network, local, overlapped, since>>
        BY <2>2, <3>2 DEF ApplyUpdate, Phase, history
      <4> QED BY <1>2, <4>1 DEF Acts
    <3> QED BY <3>1, <3>2
  <2> QED BY <1>4, <1>7, <2>1, <2>2 DEF UpdateDIDByMethod, Acts
<1>8. CASE SoftDeleteDIDByMethod(h)
  BY <1>4, <1>8 DEF SoftDeleteDIDByMethod, Acts
<1>9. ASSUME NEW op \in {"get", "resolve", "list"}, NEW outcomes, Read(h, op, outcomes)
      PROVE  Acts(h)
  <2>1. pc[h] # "ended" /\ Op(h) = op
        /\ UNCHANGED <<request, public, private, storing, dids, states, network, local, overlapped, since>>
    BY <1>9 DEF Read, Op, history
  <2>2. Succeed(h) \/ Respond(h, 400)
    BY <1>9 DEF Read
  <2> QED BY <1>1, <1>2, <2>1, <2>2 DEF Acts
<1>10. CASE GetDIDByMethod(h) \/ ResolveDID(h) \/ ListDIDsByMethod(h)
  BY <1>9, <1>10 DEF GetDIDByMethod, ResolveDID, ListDIDsByMethod
<1>11. CASE KeyRoutes(h)
  <2>1. KeyStep(h) /\ KeyOnly(h)
    BY <1>11 DEF KeyRoutes, KeyOnly
  <2>2. ASSUME NEW ops, BadRequest(h, ops) PROVE Acts(h)
    BY <1>1, <2>1, <2>2 DEF BadRequest, KeyOnly, Acts
  <2>3. CASE RevokeKey(h)
    <3>1. CASE ~Stored(request[h].id)
      BY <1>1, <2>1, <2>3, <3>1 DEF RevokeKey, KeyOnly, Acts
    <3> QED BY <2>1, <2>3, <3>1 DEF StartRevoking, Acts
  <2>4. CASE GetKeyDetails(h)
    <3>1. Succeed(h) \/ Respond(h, 400)
      BY <2>4 DEF GetKeyDetails
    <3>2. pc[h] # "ended" /\ Op(h) = "keyDetails"
          /\ UNCHANGED <<request, public, private, storing, dids, states, network, local, overlapped, since>>
      BY <2>1, <2>4 DEF GetKeyDetails, KeyOnly, Op
    <3> QED BY <1>1, <1>2, <3>1, <3>2 DEF Acts
  <2>5. CASE Sign(h)
    <3>1. Succeed(h) \/ Respond(h, 500)
      BY <2>5 DEF Sign
    <3>2. pc[h] # "ended" /\ Op(h) = "sign"
          /\ UNCHANGED <<request, public, private, storing, dids, states, network, local, overlapped, since>>
      BY <2>1, <2>5 DEF Sign, KeyOnly, Op
    <3> QED BY <1>1, <1>2, <3>1, <3>2 DEF Acts
  <2>6. StoreKey(h) \/ WritePublic(h) \/ WritePrivate(h) => Acts(h)
    BY <2>1 DEF StartStoring, Publishing, Keeps, Acts
  <2> QED BY <2>1, <2>2, <2>3, <2>4, <2>5, <2>6 DEF KeyStep, PutKey, GetKey, DeleteKey
<1> QED BY <1>3, <1>5, <1>6, <1>7, <1>8, <1>10, <1>11, <1>1 DEF Step, Acts

------------------------------------------------------------------------------
\* Types.  An answer is given once, so the status of End is all there is to say.
LEMMA Answer ==
  ASSUME reply \in [Handler -> Replies], pc \in [Handler -> Steps], NEW h \in Handler,
         NEW status \in Replies, Respond(h, status)
  PROVE  /\ reply' \in [Handler -> Replies] /\ pc' \in [Handler -> Steps]
         /\ pc'[h] = "ended" /\ reply'[h] = (IF reply[h] = 0 THEN status ELSE reply[h])
         /\ \A g \in Handler \ {h} : pc'[g] = pc[g] /\ reply'[g] = reply[g]
BY DEF Respond, GoTo, Steps

\* The status each route answers success with.
LEMMA Success ==
  ASSUME request \in Workload, NEW h \in Handler
  PROVE  /\ SuccessOf(Op(h)) \in Replies
         /\ Op(h) \in Creating \cup {"batch", "storeKey"} => SuccessOf(Op(h)) = 201
         /\ Op(h) \in {"update", "revokeKey"} => SuccessOf(Op(h)) = 200
         /\ Op(h) = "softDelete" => SuccessOf(Op(h)) = 204
<1>1. Op(h) \in {"createKey", "createWeb", "createIon", "batch", "update", "softDelete",
                 "get", "resolve", "list", "storeKey", "revokeKey", "sign", "keyDetails"}
  BY RequestType
<1> QED BY <1>1 DEF SuccessOf, Replies, Creating

\* The lists of keys have the type of storing.
LEMMA ListsOf ==
  ASSUME request \in Workload, NEW h \in Handler, Op(h) \in Creating
  PROVE  ToWrite(h) \subseteq Seq([id : KeyId, key : PrivateKey])
<1>1. Target(h) \in DID
  BY RequestType
<1>2. \A u \in Use : KeyOf(h, u) \in [id : KeyId, key : PrivateKey]
  BY <1>1, KeyIds DEF KeyOf, Write, NewKey, PrivateKey, Secret
<1> DEFINE A == KeyOf(h, "update")
           B == KeyOf(h, "recovery")
           C == KeyOf(h, "doc")
           S == [id : KeyId, key : PrivateKey]
<1>3. A \in S /\ B \in S /\ C \in S
  BY <1>2 DEF Use
<1>4. ToWrite(h) \subseteq {<<C>>, <<B, C>>, <<A, B, C>>}
  BY DEF ToWrite
<1> HIDE DEF A, B, C, S
<1>5. <<C>> \in Seq(S) /\ <<B, C>> \in Seq(S) /\ <<A, B, C>> \in Seq(S)
  BY <1>3
<1>6. ToWrite(h) \subseteq Seq(S)
  BY <1>4, <1>5
<1> QED BY <1>6 DEF S

Marked(s, status) == [s EXCEPT ![Len(s)].status = status]

\* Marking changes the status of the last update of a list and nothing else.
LEMMA MarkedType ==
  ASSUME NEW s \in Seq(Recorded), s # <<>>, NEW status \in {"PreAnchor", "Anchored", "AnchorError", "Done"}
  PROVE  /\ Marked(s, status) \in Seq(Recorded) /\ Marked(s, status) # <<>>
         /\ DOMAIN Marked(s, status) = DOMAIN s
         /\ Last(Marked(s, status)).status = status
         /\ Last(Marked(s, status)).op = Last(s).op
         /\ Last(Marked(s, status)).signed = Last(s).signed
         /\ Last(Marked(s, status)).doc = Last(s).doc
         /\ \A i \in DOMAIN s :
              \/ Marked(s, status)[i] = s[i]
              \/ i = Len(s) /\ Marked(s, status)[i] = [s[i] EXCEPT !.status = status]
<1> DEFINE n == Len(s)
           t == Marked(s, status)
<1>1. n \in Nat /\ n \in 1..n /\ s \in [1..n -> Recorded] /\ DOMAIN s = 1..n
  BY LastOf, LenProperties
<1>2. t = [i \in 1..n |-> IF i = n THEN [s[n] EXCEPT !.status = status] ELSE s[i]]
  BY <1>1 DEF Marked
<1>3. s[n] \in Recorded /\ [s[n] EXCEPT !.status = status] \in Recorded
  BY <1>1 DEF Recorded
<1>4. t \in [1..n -> Recorded]
  BY <1>1, <1>2, <1>3
<1>5. t \in Seq(Recorded) /\ Len(t) = n /\ DOMAIN t = 1..n
  BY <1>1, <1>4, IsASeq, LenProperties
<1>6. t # <<>>
  BY <1>1, <1>5, EmptySeq
<1>7. Last(t) = [s[n] EXCEPT !.status = status] /\ Last(s) = s[n]
  BY <1>1, <1>2, <1>5 DEF Last
<1>8. /\ Last(t).status = status /\ Last(t).op = Last(s).op
      /\ Last(t).signed = Last(s).signed /\ Last(t).doc = Last(s).doc
  BY <1>3, <1>7 DEF Recorded
<1>9. \A i \in DOMAIN s : t[i] = s[i] \/ (i = n /\ t[i] = [s[i] EXCEPT !.status = status])
  BY <1>1, <1>2
<1> HIDE DEF t
<1> QED BY <1>1, <1>5, <1>6, <1>8, <1>9 DEF t

\* Every action keeps the types.
LEMMA TypeKept ==
  ASSUME ServiceTypeOK, \A g \in Handler : Phase(g), NEW h \in Handler, Acts(h)
  PROVE  ServiceTypeOK' /\ request' = request
<1> DEFINE d == Target(h)
<1>0. /\ d \in DID /\ request[h].id \in KeyId /\ request[h].dids \subseteq DID
      /\ request \in Workload /\ pc \in [Handler -> Steps] /\ reply \in [Handler -> Replies]
  BY RequestType DEF ServiceTypeOK
<1>a. h \in Secret /\ NewKey(h) \in PrivateKey /\ Doc(h) \in Document
  BY DEF Secret, NewKey, PrivateKey, Doc, Document
<1>b. \A status \in Replies : Respond(h, status) =>
        reply' \in [Handler -> Replies] /\ pc' \in [Handler -> Steps]
  BY <1>0, Answer
<1>c. Succeed(h) => reply' \in [Handler -> Replies] /\ pc' \in [Handler -> Steps]
  BY <1>0, <1>b, Success DEF Succeed, Op
<1>d. \A step \in Steps : GoTo(h, step) => pc' \in [Handler -> Steps]
  BY <1>0 DEF GoTo
<1>e. Begin(h) => overlapped' \in SUBSET DID /\ since' \in [DID -> SUBSET Handler]
  BY <1>0 DEF Begin, ServiceTypeOK
<1>f. ASSUME NEW ids, NEW key \in PrivateKey, StoreInTransaction(ids, key)
      PROVE  public' \in [KeyId -> Secret] /\ private' \in [KeyId -> PrivateKey]
  BY <1>f DEF StoreInTransaction, ServiceTypeOK, PrivateKey
<1>g. ASSUME NEW s \in Seq([id : KeyId, key : PrivateKey]), StoreKeys(h, s)
      PROVE  storing' \in [Handler -> Seq([id : KeyId, key : PrivateKey])] /\ pc' \in [Handler -> Steps]
  BY <1>d, <1>g DEF StoreKeys, ServiceTypeOK, Steps
<1>h. ASSUME NEW status \in {"Anchored", "AnchorError"}, pc[h] = "anchor", Mark(h, status)
      PROVE  local' \in [Handler -> Seq(Recorded) \cup Seq(Document)]
  <2>1. local[h] \in Seq(Recorded) /\ local[h] # <<>>
    BY <1>h DEF Phase
  <2>2. Marked(local[h], status) \in Seq(Recorded)
    BY <2>1, MarkedType
  <2>3. local' = [local EXCEPT ![h] = Marked(local[h], status)]
    BY <1>h DEF Mark, Marked
  <2> QED BY <2>2, <2>3 DEF ServiceTypeOK
<1>1. CASE End(h)
  <2>1. reply' \in [Handler -> Replies] /\ pc' \in [Handler -> Steps]
    <3>1. PICK status \in {200, 204, 400, 500} : Respond(h, status)
      BY <1>1 DEF End
    <3> QED BY <1>b, <3>1 DEF Replies
  <2> QED BY <1>1, <2>1 DEF End, ServiceTypeOK, history
<1>2. CASE AnchoredInVain(h)
  <2>1. reply' \in [Handler -> Replies] /\ pc' \in [Handler -> Steps]
    BY <1>2, <1>b DEF AnchoredInVain, AnchoringFails, Replies
  <2>2. network' \in [DID -> [ops : SUBSET Handler, next : Secret]]
    BY <1>0, <1>2, <1>a DEF AnchoredInVain, ServiceTypeOK
  <2> QED BY <1>2, <2>1, <2>2 DEF AnchoredInVain, AnchoringFails, ServiceTypeOK, history
<1>3. CASE CreateKey(h) \/ StartWeb(h)
  <2>1. ToStoring(h) /\ network' = network
    BY <1>3 DEF CreateKey, StartWeb
  <2>2. pc' \in [Handler -> Steps] /\ overlapped' \in SUBSET DID /\ since' \in [DID -> SUBSET Handler]
    BY <1>d, <1>e, <2>1 DEF ToStoring, Steps
  <2> QED BY <2>1, <2>2 DEF ToStoring, ServiceTypeOK
<1>4. CASE CreateIon(h)
  <2>1. ToStoring(h) /\ network' = [network EXCEPT ![d].next = h]
    BY <1>4 DEF CreateIon
  <2>2. pc' \in [Handler -> Steps] /\ overlapped' \in SUBSET DID /\ since' \in [DID -> SUBSET Handler]
    BY <1>d, <1>e, <2>1 DEF ToStoring, Steps
  <2>3. network' \in [DID -> [ops : SUBSET Handler, next : Secret]]
    BY <1>0, <1>a, <2>1 DEF ServiceTypeOK
  <2> QED BY <2>1, <2>2, <2>3 DEF ToStoring, ServiceTypeOK
<1>5. CASE StoreDID(h)
  <2>1. KeysOf(h) \in Seq([id : KeyId, key : PrivateKey])
    BY <1>0, <1>5, FirstWrites, ListsOf DEF StoreDID, Creates, Op
  <2> QED BY <1>0, <1>5, <1>a, <1>g, <2>1 DEF StoreDID, ServiceTypeOK, history
<1>6. CASE BatchCreateDIDs(h)
  BY <1>6, <1>a, <1>c, <1>f DEF BatchCreateDIDs, ServiceTypeOK, history
<1>7. CASE PrepareUpdate(h)
  <2>1. Update(h, d) \in Recorded
    <3>1. dids[d] \in Document /\ private[<<d, "update">>] \in PrivateKey
      BY <1>0, KeyIds DEF ServiceTypeOK, Use
    <3>2. [dids[d] EXCEPT !.ops = @ \cup {h}] \in Document
      BY <3>1 DEF Document
    <3> QED BY <3>1, <3>2 DEF Update, Recorded, PrivateKey
  <2>2. states[d] \in Seq(Recorded) /\ Append(states[d], Update(h, d)) \in Seq(Recorded)
    BY <1>0, <2>1, AppendProperties DEF ServiceTypeOK
  <2>3. states' \in [DID -> Seq(Recorded)]
    BY <1>0, <1>7, <2>2 DEF PrepareUpdate, ServiceTypeOK
  <2>4. public' \in [KeyId -> Secret] /\ private' \in [KeyId -> PrivateKey]
    <3>1. PutAside(h, d)
      BY <1>7 DEF PrepareUpdate
    <3> QED BY <1>a, <1>f, <3>1 DEF PutAside, keyVars, ServiceTypeOK
  <2>5. reply' \in [Handler -> Replies]
    BY <1>0, <1>7 DEF PrepareUpdate, AnswerMethod, Replies
  <2>6. pc' \in [Handler -> Steps]
    <3>1. GoTo(h, "anchor") \/ GoTo(h, "apply")
      BY <1>7 DEF PrepareUpdate
    <3> QED BY <1>d, <3>1 DEF Steps
  <2>7. local' \in [Handler -> Seq(Recorded) \cup Seq(Document)]
    BY <1>7, <2>2 DEF PrepareUpdate, ServiceTypeOK
  <2> QED BY <1>7, <1>e, <2>3, <2>4, <2>5, <2>6, <2>7 DEF PrepareUpdate, ServiceTypeOK
<1>8. CASE AnchorTaken(h)
  <2>1. local[h] \in Seq(Recorded) /\ local[h] # <<>>
    BY <1>8 DEF AnchorTaken, Phase
  <2>2. Last(local[h]).op \in Handler
    <3>1. Last(local[h]) \in Recorded
      BY <2>1, LastOf
    <3> QED BY <3>1 DEF Recorded
  <2>3. network' \in [DID -> [ops : SUBSET Handler, next : Secret]]
    BY <1>0, <1>8, <2>2 DEF AnchorTaken, ServiceTypeOK, Secret
  <2>4. pc' \in [Handler -> Steps]
    BY <1>8, <1>d DEF AnchorTaken, Steps
  <2>5. local' \in [Handler -> Seq(Recorded) \cup Seq(Document)]
    BY <1>8, <1>h DEF AnchorTaken, ErrorStatus
  <2> QED BY <1>8, <2>3, <2>4, <2>5 DEF AnchorTaken, ServiceTypeOK, history
<1>9. CASE AnchorFails(h)
  <2>1. local' \in [Handler -> Seq(Recorded) \cup Seq(Document)]
    BY <1>9, <1>h DEF AnchorFails, ErrorStatus
  <2> QED BY <1>9, <1>d, <2>1 DEF AnchorFails, ServiceTypeOK, Steps, history
<1>10. CASE RecordAnchor(h)
  <2>1. local[h] \in Seq(Recorded)
    BY <1>10 DEF RecordAnchor, Phase
  <2>2. states' \in [DID -> Seq(Recorded)]
    BY <1>0, <1>10, <2>1 DEF RecordAnchor, ServiceTypeOK
  <2>3. reply' \in [Handler -> Replies] /\ pc' \in [Handler -> Steps]
    BY <1>0, <1>10, <1>b, <1>d DEF RecordAnchor, Replies, Steps
  <2> QED BY <1>10, <2>2, <2>3 DEF RecordAnchor, ServiceTypeOK, history
<1>11. CASE Finishes(h)
  <2>1. states[d] \in Seq(Recorded) /\ states[d] # <<>> /\ Last(states[d]) \in Recorded
    <3>1. states[d] \in Seq(Recorded) /\ states[d] # <<>>
      BY <1>0, <1>11 DEF Finishes, Status, ServiceTypeOK
    <3> QED BY <3>1, LastOf
  <2>2. Marked(states[d], "Done") \in Seq(Recorded)
    BY <2>1, MarkedType
  <2>3. states' \in [DID -> Seq(Recorded)]
    <3>1. states' = [states EXCEPT ![d] = Marked(states[d], "Done")]
      BY <1>11 DEF Finishes, ApplyUpdate, Finish, Marked
    <3> QED BY <1>0, <2>2, <3>1 DEF ServiceTypeOK
  <2>4. dids' \in [DID -> Document]
    <3>1. dids' = [dids EXCEPT ![d] = Last(states[d]).doc]
      BY <1>11 DEF Finishes, ApplyUpdate
    <3> QED BY <1>0, <2>1, <3>1 DEF Recorded, ServiceTypeOK
  <2>5. public' \in [KeyId -> Secret] /\ private' \in [KeyId -> PrivateKey]
    <3>1. NewKey(private[<<d, "staging">>].secret) \in PrivateKey
      BY <1>0, KeyIds DEF ServiceTypeOK, Use, NewKey, PrivateKey
    <3> QED BY <1>11, <1>f, <3>1 DEF Finishes, ApplyUpdate
  <2>6. reply' \in [Handler -> Replies] /\ pc' \in [Handler -> Steps]
    BY <1>11, <1>c DEF Finishes, ApplyUpdate
  <2> QED BY <1>11, <2>3, <2>4, <2>5, <2>6
      DEF Finishes, ApplyUpdate, ServiceTypeOK, history
<1>12. CASE ReadToDelete(h)
  <2>1. <<dids[d]>> \in Seq(Document)
    BY <1>0 DEF ServiceTypeOK
  <2>2. local' \in [Handler -> Seq(Recorded) \cup Seq(Document)]
    BY <1>12, <2>1 DEF ReadToDelete, ServiceTypeOK
  <2> QED BY <1>12, <1>d, <2>2 DEF ReadToDelete, ServiceTypeOK, Steps, history
<1>13. CASE WriteDeleted(h)
  <2>1. local[h] \in Seq(Document) /\ Len(local[h]) = 1
    BY <1>13 DEF WriteDeleted, Phase, Op
  <2>2. local[h][1] \in Document
    BY <2>1, ElementOfSeq
  <2>3. [local[h][1] EXCEPT !.deleted = TRUE] \in Document
    BY <2>2 DEF Document
  <2> QED BY <1>0, <1>13, <1>c, <2>3 DEF WriteDeleted, ServiceTypeOK
<1>14. CASE StartStoring(h)
  <2>1. <<Write(request[h].id, NewKey(h))>> \in Seq([id : KeyId, key : PrivateKey])
    BY <1>0, <1>a DEF Write
  <2> QED BY <1>14, <1>g, <2>1 DEF StartStoring, KeyOnly, StoreKey, ServiceTypeOK, history
<1>15. CASE StartRevoking(h)
  <2>1. [private[request[h].id] EXCEPT !.revoked = TRUE] \in PrivateKey
    <3>1. private[request[h].id] \in PrivateKey
      BY <1>0 DEF ServiceTypeOK
    <3> QED BY <3>1 DEF PrivateKey
  <2>2. <<Write(request[h].id, [private[request[h].id] EXCEPT !.revoked = TRUE])>>
          \in Seq([id : KeyId, key : PrivateKey])
    BY <1>0, <2>1 DEF Write
  <2>3. /\ StoreKeys(h, <<Write(request[h].id, [private[request[h].id] EXCEPT !.revoked = TRUE])>>)
        /\ KeyOnly(h) /\ UNCHANGED <<request, reply, public, private>>
    BY <1>15 DEF StartRevoking, RevokeKey
  <2> QED BY <1>g, <2>2, <2>3 DEF KeyOnly, ServiceTypeOK, history
<1>16. ASSUME storing[h] # <<>>
       PROVE  Head(storing[h]) \in [id : KeyId, key : PrivateKey]
              /\ Tail(storing[h]) \in Seq([id : KeyId, key : PrivateKey])
  <2>1. storing[h] \in Seq([id : KeyId, key : PrivateKey])
    BY DEF ServiceTypeOK
  <2> QED BY <1>16, <2>1, HeadTailProperties
<1>17. CASE Publishing(h)
  <2>1. Head(storing[h]) \in [id : KeyId, key : PrivateKey]
    BY <1>16, <1>17 DEF Publishing, WritePublic, Phase
  <2>2. public' \in [KeyId -> Secret]
    BY <1>17, <2>1 DEF Publishing, WritePublic, ServiceTypeOK, PrivateKey
  <2>3. pc' \in [Handler -> Steps]
    BY <1>17, <1>d DEF Publishing, WritePublic, Steps
  <2> QED BY <1>17, <2>2, <2>3 DEF Publishing, KeyOnly, WritePublic, ServiceTypeOK, history
<1>18. CASE Keeps(h)
  <2>1. Head(storing[h]) \in [id : KeyId, key : PrivateKey]
        /\ Tail(storing[h]) \in Seq([id : KeyId, key : PrivateKey])
    BY <1>16, <1>18 DEF Keeps, WritePrivate, Phase
  <2>2. private' \in [KeyId -> PrivateKey]
    BY <1>18, <2>1 DEF Keeps, WritePrivate, ServiceTypeOK
  <2>3. storing' \in [Handler -> Seq([id : KeyId, key : PrivateKey])]
    BY <1>18, <2>1 DEF Keeps, WritePrivate, ServiceTypeOK
  <2>4. reply' \in [Handler -> Replies] /\ pc' \in [Handler -> Steps]
    BY <1>0, <1>18, <1>c, <1>d DEF Keeps, WritePrivate, Steps
  <2> QED BY <1>18, <2>2, <2>3, <2>4
      DEF Keeps, KeyOnly, WritePrivate, ServiceTypeOK, history
<1> QED BY <1>1, <1>2, <1>3, <1>4, <1>5, <1>6, <1>7, <1>8, <1>9, <1>10, <1>11, <1>12, <1>13,
           <1>14, <1>15, <1>17, <1>18 DEF Acts

------------------------------------------------------------------------------
\* A step keeps the invariant if it leaves the others alone and says the same of its
\* own request and of every DID.
LEMMA StepKeeps ==
  ASSUME SInv, NEW h \in Handler, Acts(h),
         \A g \in Handler \ {h} : Waiting(g) /\ Harmless(g),
         Phase(h)', Creation(h)', Batch(h)', Revocation(h)',
         \A d \in DID : About(d)'
  PROVE  SInv'
<1>1. ServiceTypeOK' /\ request' = request
  BY TypeKept DEF SInv
<1>2. \A g \in Handler \ {h} : Phase(g)' /\ Creation(g)' /\ Batch(g)' /\ Revocation(g)'
  <2> SUFFICES ASSUME NEW g \in Handler \ {h}
               PROVE  Phase(g)' /\ Creation(g)' /\ Batch(g)' /\ Revocation(g)'
    OBVIOUS
  <2>1. Target(g) \in DID
    BY RequestType DEF SInv, ServiceTypeOK
  <2>2. Keyed(Target(g))
    BY <2>1 DEF SInv, About
  <2> QED BY <1>1, <2>2, WaitingKeeps DEF SInv
<1> QED BY <1>1, <1>2 DEF SInv

\* Documents and keys stay as they are.
Calm == UNCHANGED <<request, public, private, dids, network>> /\ overlapped \subseteq overlapped'

\* Such a step is no harm to anybody.
LEMMA CalmHarmless == ASSUME Calm PROVE \A g : Harmless(g)
<1>1. \A d : Unharmed(d)
  BY DEF Calm, Unharmed, Stored, Whole
<1>2. \A g : private'[request[g].id].revoked = private[request[g].id].revoked
  BY DEF Calm
<1> QED BY <1>1, <1>2 DEF Calm, Harmless

\* Most requests neither create nor revoke anything.
LEMMA OtherRequests ==
  ASSUME NEW h \in Handler, request' = request, Op(h) \notin Creating \cup {"batch", "revokeKey"}
  PROVE  Creation(h)' /\ Batch(h)' /\ Revocation(h)'
BY DEF Creation, Batch, Revocation, Op

\* Without updates nothing is stored or read of them.
LEMMA NoRecords ==
  ASSUME ServiceTypeOK, \A g \in Handler : Phase(g), NEW d \in DID, Records(d) = {}
  PROVE  /\ states[d] = <<>> /\ Status(d) = "none" /\ ~Unapplied(d)
         /\ \A g \in Handler : ~Holds(g, d)
<1>1. states[d] = <<>> /\ \A g \in Handler : ~Holds(g, d)
  BY RecordType
<1> QED BY <1>1 DEF Status, Unapplied, InStore, InHand

\* What a DID without updates has to fulfil after a step that begins none.
LEMMA EmptyKeeps ==
  ASSUME ServiceTypeOK, \A g \in Handler : Phase(g), NEW d \in DID, About(d), Records(d) = {},
         request' = request, states'[d] = states[d], network'[d].ops = network[d].ops,
         \A g \in Handler : pc'[g] = "begin" => pc[g] = "begin",
         \A g \in Handler : Op(g) = "update" /\ Target(g) = d /\ pc'[g] \in {"anchor", "record"} =>
           pc'[g] = pc[g],
         \A g \in Handler : Op(g) = "softDelete" /\ Target(g) = d /\ pc'[g] = "document" =>
           pc[g] = "document" /\ local'[g] = local[g],
         Touched(d) /\ UpdateKey(d)' = network'[d].next =>
           UpdateKey(d)' \in Taken(d) \/ ~Updating(UpdateKey(d)'),
         \/ dids'[d] = dids[d]
         \/ /\ dids'[d].by # None /\ ~Updating(dids'[d].by)
            /\ dids'[d].ops = {} /\ ~dids'[d].deleted
            /\ Clean(d) => ~Has(d),
         d \in overlapped => d \in overlapped',
         dids'[d].deleted => since'[d] = since[d],
         Keyed(d)',
         d \notin overlapped' => \A g, h \in Writing(d)' : g = h
  PROVE  About(d)'
<1>1. states[d] = <<>> /\ \A g \in Handler : ~Holds(g, d)
  BY NoRecords
<1>2. /\ \A s : Op(s)' = Op(s) /\ Target(s)' = Target(s) /\ (Updating(s)' <=> Updating(s))
      /\ Taken(d)' = Taken(d) /\ (Touched(d)' <=> Touched(d))
  BY DEF Op, Target, Updating, Taken, Touched
<1>3. \A g \in Handler : ~Holds(g, d)' /\ ~InHand(g, d)'
  BY <1>1, <1>2 DEF Holds, InHand
<1>4. Records(d)' = {}
  BY <1>1, <1>3 DEF Records
<1>5. Status(d)' = "none" /\ ~InStore(d)' /\ ~Unapplied(d)'
  BY <1>1, <1>3 DEF Status, InStore, Unapplied
<1>6. ASSUME Touched(d) PROVE Chain(d)'
  <2>1. \A g \in Taken(d)' : pc'[g] # "begin"
    BY <1>2, <1>6 DEF About, Chain, ServiceTypeOK, Taken
  <2>2. UpdateKey(d)' = network'[d].next =>
          \A s \in ({UpdateKey(d), network[d].next} \cup {x.signed : x \in Records(d)})' :
            s \in Taken(d)' \/ ~Updating(s)'
    BY <1>2, <1>4, <1>6
  <2> QED BY <1>3, <1>4, <1>5, <2>1, <2>2 DEF Chain
<1>7. \A g \in Handler : Op(g) = "softDelete" /\ Target(g) = d /\ pc'[g] = "document" =>
        pc[g] = "document" /\ local'[g] = local[g] /\ Has(d)
  BY DEF About, Kept
<1>8. Behind(d)'
  BY <1>2, <1>4, <1>7 DEF About, Behind
<1>9. Kept(d)'
  BY <1>2, <1>4, <1>7 DEF About, Kept, Has, Clean
<1>10. Deleted(d)'
  BY <1>2, <1>3, <1>4, <1>5 DEF About, Deleted, Has
<1>11. Follows(d)'
  BY <1>1, <1>3, <1>5 DEF Follows
<1> QED BY <1>2, <1>4, <1>6, <1>8, <1>9, <1>10, <1>11 DEF About

\* While a DID is being created it has no updates.
LEMMA CreatedAnew ==
  ASSUME SInv, NEW d \in DID, ~Has(d) \/ (Touched(d) /\ ~Stored(<<d, "update">>))
  PROVE  Records(d) = {}
BY DEF SInv, About, Kept, Chain

------------------------------------------------------------------------------
\* A handler that ends, by an error or a stop, leaves all as it was.
LEMMA EndKeeps ==
  ASSUME SInv, NEW h \in Handler, End(h)
  PROVE  SInv'
<1>1. PICK status \in {200, 204, 400, 500} : Respond(h, status)
  BY DEF End
<1>2. /\ pc[h] # "ended" /\ pc'[h] = "ended" /\ reply'[h] = (IF reply[h] = 0 THEN status ELSE reply[h])
      /\ \A g \in Handler \ {h} : pc'[g] = pc[g] /\ reply'[g] = reply[g]
  BY <1>1, Answer DEF SInv, ServiceTypeOK, Replies, End
<1>3. UNCHANGED <<request, public, private, storing, dids, states, network, local, overlapped, since>>
  BY DEF End, history
<1>4. Op(h) # "update" => reply'[h] = status
  BY <1>2 DEF SInv, Phase
<1>5. \A d \in DID : About(d)'
  <2> SUFFICES ASSUME NEW d \in DID PROVE About(d)'
    OBVIOUS
  <2>1. Writing(d)' \subseteq Writing(d)
    BY <1>2, <1>3 DEF Writing, Target
  <2>2. Still(d)
    BY <1>2, <1>3, <2>1 DEF Still, Steady, Stored
  <2> QED BY <2>2, StillKeeps DEF SInv
<1>6. \A g \in Handler \ {h} : Waiting(g) /\ Harmless(g)
  BY <1>2, <1>3, CalmHarmless DEF Calm, Waiting
<1>7. Phase(h)'
  BY <1>2 DEF Phase
<1>8. Op(h)' = Op(h) /\ ~Keeping(h)' /\ \A u : ~Pending(h, u)'
  BY <1>2, <1>3 DEF Op, Keeping, Pending
<1>9. Creation(h)'
  BY <1>2, <1>4, <1>8 DEF Creation, Creating
<1>10. Batch(h)'
  <2>1. Batch(h)
    BY DEF SInv
  <2> QED BY <1>2, <1>3, <1>4, <1>8, <2>1 DEF Batch, Has, Whole, Stored
<1>11. Revocation(h)'
  BY <1>1, <1>4, <1>8 DEF Revocation
<1> QED BY <1>5, <1>6, <1>7, <1>9, <1>10, <1>11, StepKeeps DEF Acts

\* A creator starts on a DID that is not there.
LEMMA Unborn ==
  ASSUME SInv, NEW h \in Handler, Op(h) \in Creating, pc[h] = "begin",
         Method[Target(h)] = "web" => ~Has(Target(h))
  PROVE  /\ ~Has(Target(h)) /\ Records(Target(h)) = {} /\ ~dids[Target(h)].deleted
         /\ reply[h] = 0 /\ Target(h) \in DID
<1>1. Target(h) \in DID
  BY RequestType DEF SInv, ServiceTypeOK
<1>2. ~Has(Target(h))
  BY DEF SInv, Creation
<1>3. ~dids[Target(h)].deleted
  BY <1>1, <1>2 DEF SInv, About, Deleted
<1>4. Op(h) # "update"
  BY DEF Creating
<1> QED BY <1>1, <1>2, <1>3, <1>4, CreatedAnew DEF SInv, Phase

\* Others make the same DID only for the web.
LEMMA OtherCreators ==
  ASSUME request \in Workload, NEW h \in Handler, Op(h) \in Creating, NEW g \in Handler \ {h}
  PROVE  /\ Op(g) \in Creating /\ Target(g) = Target(h) => Method[Target(h)] = "web"
         /\ Op(g) = "batch" => Target(h) \notin request[g].dids
<1>1. Target(h) \in DID /\ Makes(request[h], Target(h))
  BY RequestType, CreatorMakes
<1>2. Op(g) \in Creating => Makes(request[g], Target(g))
  BY CreatorMakes
<1>3. Op(g) = "batch" => \A d \in request[g].dids : Makes(request[g], d) /\ Method[d] = "key"
  BY CreatorMakes, RequestType
<1> QED BY <1>1, <1>2, <1>3, MadeOnce

\* The network is named the key of an ion DID that is yet to be created.
LEMMA NamingHarmless ==
  ASSUME SInv, NEW h \in Handler, Op(h) = "createIon",
         network' = [network EXCEPT ![Target(h)].next = h],
         UNCHANGED <<request, public, private, dids>>, overlapped \subseteq overlapped'
  PROVE  \A g \in Handler \ {h} : Harmless(g)
<1> SUFFICES ASSUME NEW g \in Handler \ {h} PROVE Harmless(g)
  OBVIOUS
<1>0. request \in Workload /\ Op(h) \in Creating
  BY DEF SInv, ServiceTypeOK, Creating
<1>1. Target(h) \in DID /\ Method[Target(h)] = "ion"
  BY <1>0, RequestType
<1>2. \A d \in DID \ {Target(h)} : Unharmed(d)
  BY DEF Unharmed, Stored, Whole, SInv, ServiceTypeOK
<1>3. Target(g) \in DID /\ request[g].dids \subseteq DID
  BY <1>0, RequestType
<1>4. Op(g) \in Creating => Target(g) # Target(h)
  BY <1>0, <1>1, OtherCreators
<1>5. Op(g) = "batch" => Target(h) \notin request[g].dids
  BY <1>0, OtherCreators
<1> QED BY <1>2, <1>3, <1>4, <1>5 DEF Harmless

\* An ion DID that is anchored and not stored: its name is taken by no other request.
LEMMA AnchoredInVainKeeps ==
  ASSUME SInv, NEW h \in Handler, AnchoredInVain(h)
  PROVE  SInv'
<1>0. PICK d \in DID : d = Target(h)
  BY RequestType DEF SInv, ServiceTypeOK
<1>1. /\ Op(h) = "createIon" /\ pc[h] = "begin" /\ Respond(h, 500)
      /\ network' = [network EXCEPT ![d].next = h]
      /\ UNCHANGED <<request, public, private, storing, dids, states, local, overlapped, since>>
  BY <1>0 DEF AnchoredInVain, AnchoringFails, Op, history
<1>2. /\ pc'[h] = "ended" /\ reply'[h] = (IF reply[h] = 0 THEN 500 ELSE reply[h])
      /\ \A g \in Handler \ {h} : pc'[g] = pc[g] /\ reply'[g] = reply[g]
  BY <1>1, Answer DEF SInv, ServiceTypeOK, Replies
<1>3. Op(h) \in Creating /\ Method[d] = "ion"
  BY <1>0, <1>1, RequestType DEF Creating, SInv, ServiceTypeOK
<1>4. ~Has(d) /\ Records(d) = {} /\ ~dids[d].deleted /\ reply[h] = 0
  BY <1>0, <1>1, <1>3, Unborn
<1>5. \A e \in DID : Writing(e)' \subseteq Writing(e)
  BY <1>1, <1>2 DEF Writing, Target
<1>6. About(d)'
  <2>1. ~Updating(h)
    BY <1>1 DEF Updating
  <2>2. Keyed(d)'
    BY <1>1, <1>3 DEF SInv, About, Keyed, Touched, Clean, Has, Stored
  <2>3. d \notin overlapped' => \A g, k \in Writing(d)' : g = k
    BY <1>1, <1>3, <1>5 DEF SInv, About, Follows
  <2>4. network'[d].ops = network[d].ops /\ network'[d].next = h
    BY <1>1, <1>3 DEF SInv, ServiceTypeOK
  <2>5. About(d) /\ ServiceTypeOK /\ \A g \in Handler : Phase(g)
    BY <1>3 DEF SInv
  <2> QED BY <1>1, <1>2, <1>3, <1>4, <2>1, <2>2, <2>3, <2>4, <2>5, EmptyKeeps
<1>7. \A e \in DID \ {d} : About(e)'
  <2> SUFFICES ASSUME NEW e \in DID \ {d} PROVE About(e)'
    OBVIOUS
  <2>1. Still(e)
    BY <1>1, <1>2, <1>3, <1>5 DEF Still, Steady, Stored, SInv, ServiceTypeOK
  <2> QED BY <2>1, StillKeeps DEF SInv
<1>8. \A g \in Handler \ {h} : Waiting(g) /\ Harmless(g)
  BY <1>0, <1>1, <1>2, NamingHarmless DEF Waiting
<1>9. Phase(h)'
  BY <1>2 DEF Phase
<1>10. Op(h)' = Op(h) /\ ~Keeping(h)' /\ \A u : ~Pending(h, u)'
  BY <1>1, <1>2 DEF Op, Keeping, Pending
<1>11. Creation(h)' /\ Batch(h)' /\ Revocation(h)'
  BY <1>1, <1>2, <1>4, <1>10 DEF Creation, Batch, Revocation
<1> QED BY <1>6, <1>7, <1>8, <1>9, <1>11, StepKeeps DEF Acts

\* The first step of a creation overlaps with nobody but creators of the same web DID.
LEMMA StartKeeps ==
  ASSUME SInv, NEW h \in Handler, CreateKey(h) \/ StartWeb(h) \/ CreateIon(h)
  PROVE  SInv'
<1>0. PICK d \in DID : d = Target(h)
  BY RequestType DEF SInv, ServiceTypeOK
<1>1. /\ Op(h) \in Creating /\ pc[h] = "begin" /\ ToStoring(h)
      /\ UNCHANGED <<request, reply, public, private, storing, dids, states, local>>
      /\ \/ Op(h) # "createIon" /\ network' = network
         \/ Op(h) = "createIon" /\ network' = [network EXCEPT ![d].next = h]
      /\ Op(h) = "createWeb" => ~Has(d)
  BY <1>0 DEF CreateKey, StartWeb, CreateIon, CreateWeb, ToStoring, Op, Creating, Free
<1>2. /\ pc'[h] = "document" /\ \A g \in Handler \ {h} : pc'[g] = pc[g]
      /\ overlapped' = (IF Writing(d) = {} THEN overlapped ELSE overlapped \cup {d})
      /\ since' = [since EXCEPT ![d] = @ \cup {h}]
  BY <1>0, <1>1 DEF ToStoring, GoTo, Begin, SInv, ServiceTypeOK
<1>3. ~Has(d) /\ Records(d) = {} /\ ~dids[d].deleted /\ reply[h] = 0
  <2>1. Method[d] = "web" => Op(h) = "createWeb"
    BY <1>0, <1>1, RequestType DEF SInv, ServiceTypeOK, Creating
  <2> QED BY <1>0, <1>1, <2>1, Unborn
<1>4. \A e \in DID : Writing(e)' \subseteq Writing(e) \cup {h}
      /\ (e # d => Writing(e)' \subseteq Writing(e))
  BY <1>0, <1>1, <1>2 DEF Writing, Target
<1>5. Op(h) # "update" /\ Op(h) # "softDelete" /\ ~Updating(h)
  BY <1>1 DEF Creating, Updating
<1>6. About(d)'
  <2>1. network'[d].ops = network[d].ops
        /\ (network'[d].next = network[d].next \/ network'[d].next = h)
    BY <1>1 DEF SInv, ServiceTypeOK
  <2>2. UpdateKey(d)' = UpdateKey(d)
    BY <1>1 DEF UpdateKey
  <2>3. Keyed(d)'
    BY <1>1, <1>2 DEF SInv, About, Keyed, Touched, Clean, Has, Stored
  <2>4. d \notin overlapped' => \A g, k \in Writing(d)' : g = k
    BY <1>2, <1>4
  <2>5. About(d) /\ ServiceTypeOK /\ \A g \in Handler : Phase(g)
    BY DEF SInv
  <2>6. Touched(d) /\ UpdateKey(d)' = network'[d].next =>
          UpdateKey(d)' \in Taken(d) \/ ~Updating(UpdateKey(d)')
    <3>1. Touched(d) => Chain(d)
      BY <2>5 DEF About
    <3> QED BY <1>5, <2>1, <2>2, <3>1 DEF Chain
  <2> QED BY <1>1, <1>2, <1>3, <1>5, <2>1, <2>3, <2>4, <2>5, <2>6, EmptyKeeps
<1>7. \A e \in DID \ {d} : About(e)'
  <2> SUFFICES ASSUME NEW e \in DID \ {d} PROVE About(e)'
    OBVIOUS
  <2>1. Still(e)
    BY <1>0, <1>1, <1>2, <1>4, <1>5 DEF Still, Steady, Stored, SInv, ServiceTypeOK
  <2> QED BY <2>1, StillKeeps DEF SInv
<1>8. \A g \in Handler \ {h} : Waiting(g) /\ Harmless(g)
  <2>1. CASE network' = network
    BY <1>1, <1>2, <2>1, CalmHarmless DEF Calm, Waiting
  <2>2. CASE Op(h) = "createIon"
    BY <1>0, <1>1, <1>2, <2>2, NamingHarmless DEF Waiting
  <2> QED BY <1>1, <2>1, <2>2
<1>9. Phase(h)'
  BY <1>1, <1>2, <1>3, <1>5 DEF Phase, Op
<1>10. /\ Op(h)' = Op(h) /\ Target(h)' = d /\ ~Keeping(h)' /\ pc'[h] = "document"
       /\ reply'[h] = 0 /\ ~Has(d)'
  BY <1>0, <1>1, <1>2, <1>3 DEF Op, Keeping, Target, Has
<1>11. Creation(h)'
  <2>1. Op(h) = "createIon" => network'[d].next = h
    BY <1>1 DEF SInv, ServiceTypeOK
  <2> QED BY <1>10, <2>1 DEF Creation
<1>12. Batch(h)' /\ Revocation(h)'
  BY <1>1, <1>10 DEF Batch, Revocation, Creating
<1> QED BY <1>6, <1>7, <1>8, <1>9, <1>11, <1>12, StepKeeps DEF Acts

------------------------------------------------------------------------------
\* The keys of others are theirs, and a creation that is clean is alone.
LEMMA CreatorAlone ==
  ASSUME SInv, NEW h \in Handler, Op(h) \in Creating, pc[h] = "document" \/ Keeping(h),
         NEW g \in Handler \ {h}, Op(g) \in Creating, Target(g) = Target(h), Clean(Target(h))
  PROVE  Method[Target(g)] = "web" /\ ~Active(g) /\ reply[g] # 201
<1>0. request \in Workload
  BY DEF SInv, ServiceTypeOK
<1>1. Target(h) \in DID /\ Method[Target(h)] = "web"
  BY <1>0, RequestType, OtherCreators
<1>2. h \in Writing(Target(h)) /\ (Active(g) => g \in Writing(Target(h)))
  BY DEF Writing, Active, Keeping, Op
<1>3. ~Active(g)
  BY <1>1, <1>2 DEF SInv, About, Follows, Clean
<1>4. reply[g] # 201
  <2>1. reply[g] = 201 => dids[Target(h)].by = g /\ g # None
    BY DIDAssumption DEF SInv, Creation
  <2>2. pc[h] = "document" => ~Has(Target(h))
    BY DEF SInv, Creation
  <2>3. Keeping(h) => dids[Target(h)].by = h
    BY DEF SInv, Creation
  <2> QED BY <2>1, <2>2, <2>3 DEF Has
<1> QED BY <1>1, <1>3, <1>4

\* The document of a new DID: nothing of it was updated before.
LEMMA StoreDIDKeeps ==
  ASSUME SInv, NEW h \in Handler, StoreDID(h)
  PROVE  SInv'
<1>0. PICK d \in DID : d = Target(h)
  BY RequestType DEF SInv, ServiceTypeOK
<1>1. /\ Op(h) \in Creating /\ pc[h] = "document" /\ request \in Workload
      /\ dids' = [dids EXCEPT ![d] = Doc(h)]
      /\ storing'[h] = KeysOf(h) /\ \A g \in Handler \ {h} : storing'[g] = storing[g]
      /\ pc'[h] = "public" /\ \A g \in Handler \ {h} : pc'[g] = pc[g]
      /\ UNCHANGED <<request, reply, public, private, states, network, local, overlapped, since>>
  BY <1>0 DEF StoreDID, Creates, Op, StoreKeys, GoTo, history, SInv, ServiceTypeOK
<1>2. /\ Touched(d) /\ Op(h) # "update" /\ Op(h) # "softDelete" /\ Op(h) # "batch"
      /\ Op(h) # "revokeKey" /\ ~Updating(h) /\ h # None
  BY <1>0, <1>1, CreatorMakes, DIDAssumption DEF Creating, Updating
<1>3. Clean(d) => ~Has(d)
  BY <1>0, <1>1 DEF SInv, Creation
<1>4. Records(d) = {}
  <2>1. CASE Clean(d)
    BY <1>3, <2>1, CreatedAnew
  <2>2. CASE ~Clean(d)
    <3>1. ~Stored(<<d, "update">>)
      BY <1>2, <2>2 DEF Clean, SInv, About, Keyed
    <3> QED BY <1>2, <3>1, CreatedAnew
  <2> QED BY <2>1, <2>2
<1>5. \A e \in DID : Writing(e)' \subseteq Writing(e)
  BY <1>1 DEF Writing, Target
<1>6. dids'[d] = Doc(h) /\ Has(d)' /\ \A e \in DID \ {d} : dids'[e] = dids[e]
  BY <1>1, <1>2 DEF SInv, ServiceTypeOK, Has, Doc
<1>7. About(d)'
  <2>1. About(d) /\ ServiceTypeOK /\ \A g \in Handler : Phase(g)
    BY DEF SInv
  <2>2. Keyed(d)'
    BY <1>1, <1>6, <2>1 DEF About, Keyed, Touched, Stored
  <2>3. d \notin overlapped' => \A g, k \in Writing(d)' : g = k
    BY <1>1, <1>5, <2>1 DEF About, Follows
  <2>4. Touched(d) /\ UpdateKey(d)' = network'[d].next =>
          UpdateKey(d)' \in Taken(d) \/ ~Updating(UpdateKey(d)')
    <3>1. UpdateKey(d)' = UpdateKey(d) /\ network' = network
      BY <1>1 DEF UpdateKey
    <3>2. Chain(d)
      BY <1>2, <2>1 DEF About
    <3> QED BY <3>1, <3>2 DEF Chain
  <2>5. dids'[d].by = h /\ dids'[d].ops = {} /\ ~dids'[d].deleted
    BY <1>6 DEF Doc
  <2> QED BY <1>1, <1>2, <1>3, <1>4, <2>1, <2>2, <2>3, <2>4, <2>5, EmptyKeeps
<1>8. \A e \in DID \ {d} : About(e)'
  <2> SUFFICES ASSUME NEW e \in DID \ {d} PROVE About(e)'
    OBVIOUS
  <2>1. Still(e)
    BY <1>0, <1>1, <1>2, <1>5, <1>6 DEF Still, Steady, Stored
  <2> QED BY <2>1, StillKeeps DEF SInv
<1>9. \A g \in Handler \ {h} : Waiting(g) /\ Harmless(g)
  <2> SUFFICES ASSUME NEW g \in Handler \ {h} PROVE Waiting(g) /\ Harmless(g)
    OBVIOUS
  <2>1. \A e \in DID \ {d} : Unharmed(e)
    BY <1>1, <1>6 DEF Unharmed, Stored, Whole
  <2>2. Target(g) \in DID /\ request[g].dids \subseteq DID
    BY <1>1, RequestType
  <2>3. Op(g) \in Creating /\ Target(g) = d /\ Clean(d) =>
          Method[d] = "web" /\ ~Active(g) /\ reply[g] # 201
    BY <1>0, <1>1, CreatorAlone
  <2>4. Op(g) = "batch" => d \notin request[g].dids
    BY <1>0, <1>1, OtherCreators
  <2> QED BY <1>1, <2>1, <2>2, <2>3, <2>4 DEF Waiting, Harmless
<1>10. /\ Op(h)' = Op(h) /\ Target(h)' = d /\ Keeping(h)' /\ reply[h] = 0 /\ reply'[h] = 0
       /\ KeysOf(h) \in ToWrite(h) /\ KeysOf(h) # <<>> /\ UsesIn(h, KeysOf(h)) = UsesOf(d)
  BY <1>0, <1>1, <1>2, FirstWrites DEF Op, Keeping, Target, SInv, Phase
<1>11. Phase(h)'
  BY <1>1, <1>2, <1>10 DEF Phase, Creating
<1>12. \A u \in UsesOf(d) : Pending(h, u)'
  <2> SUFFICES ASSUME NEW u \in UsesOf(d) PROVE Pending(h, u)'
    OBVIOUS
  <2>1. u \in UsesIn(h, KeysOf(h))
    BY <1>10
  <2> QED BY <1>0, <1>1, <1>10, <2>1 DEF UsesIn, Pending
<1>13. Creation(h)'
  <2>1. storing'[h] \in ToWrite(h)'
    <3>1. ToWrite(h)' = ToWrite(h)
      BY <1>1 DEF ToWrite, KeyOf, Op, Target
    <3> QED BY <1>1, <1>10, <3>1
  <2>2. Clean(d)' => dids'[d].by = h /\ \A u \in UsesOf(d) : ~Stored(<<d, u>>)'
    <3>1. Clean(d)' => Clean(d)
      BY <1>1 DEF Clean
    <3>2. Clean(d) => \A u \in UsesOf(d) : ~Stored(<<d, u>>)
      BY <1>2, <1>3, Uses DEF SInv, About, Keyed
    <3> QED BY <1>1, <1>6, <3>1, <3>2 DEF Doc, Stored
  <2>3. Op(h) = "createIon" => network'[d].next = h
    BY <1>0, <1>1 DEF SInv, Creation, Pending
  <2> QED BY <1>1, <1>10, <1>12, <2>1, <2>2, <2>3 DEF Creation
<1>14. Batch(h)' /\ Revocation(h)'
  BY <1>2, <1>10 DEF Batch, Revocation
<1> QED BY <1>7, <1>8, <1>9, <1>11, <1>13, <1>14, StepKeeps DEF Acts

\* Keys by their id are no keys of the DIDs that are created or updated.
LEMMA Apart ==
  ASSUME SInv, KeysApart, NEW h \in Handler, Op(h) \in {"storeKey", "revokeKey"}
  PROVE  ~Touched(request[h].id[1])
BY DEF SInv, ServiceTypeOK, KeysApart, Touched, Op

\* One key is written, of a DID that h creates or that nobody touches.
LEMMA OneKeyHarmless ==
  ASSUME SInv, KeysApart, NEW h \in Handler, NEW id \in KeyId,
         UNCHANGED <<request, dids, network, overlapped>>,
         \A i \in KeyId \ {id} : public'[i] = public[i] /\ private'[i] = private[i],
         \/ Op(h) \in Creating /\ Keeping(h) /\ id[1] = Target(h)
         \/ ~Touched(id[1])
  PROVE  \A g \in Handler \ {h} : Harmless(g)
<1> SUFFICES ASSUME NEW g \in Handler \ {h} PROVE Harmless(g)
  OBVIOUS
<1>0. request \in Workload
  BY DEF SInv, ServiceTypeOK
<1>1. \A d \in DID : d # id[1] => Unharmed(d)
  <2> SUFFICES ASSUME NEW d \in DID, d # id[1] PROVE Unharmed(d)
    OBVIOUS
  <2>1. \A u \in UsesOf(d) : <<d, u>> \in KeyId \ {id}
    BY Uses, KeyIds
  <2> QED BY <2>1 DEF Unharmed, Stored, Whole
<1>2. Target(g) \in DID /\ request[g].dids \subseteq DID /\ request[g].id \in KeyId
  BY <1>0, RequestType
<1>4. CASE Op(h) \in Creating /\ Keeping(h) /\ id[1] = Target(h)
  <2>1. Op(g) \in Creating /\ Target(g) = Target(h) /\ Clean(Target(h)) =>
          Method[Target(g)] = "web" /\ ~Active(g) /\ reply[g] # 201
    BY <1>4, CreatorAlone
  <2>2. Op(g) = "batch" => Target(h) \notin request[g].dids
    BY <1>0, <1>4, OtherCreators
  <2> QED BY <1>1, <1>2, <1>4, <2>1, <2>2 DEF Harmless
<1>5. CASE ~Touched(id[1])
  <2>1. Op(g) \in Creating => Target(g) # id[1]
    BY <1>0, <1>5, CreatorMakes
  <2>2. Op(g) = "batch" => id[1] \notin request[g].dids
    BY <1>0, <1>5, CreatorMakes
  <2> QED BY <1>1, <1>2, <2>1, <2>2 DEF Harmless
<1> QED BY <1>4, <1>5

\* The key a handler writes.
LEMMA NextKey ==
  ASSUME SInv, KeysApart, NEW h \in Handler, Keeping(h)
  PROVE  /\ Head(storing[h]).id \in KeyId /\ Head(storing[h]).key \in PrivateKey
         /\ \/ /\ Op(h) \in Creating /\ Head(storing[h]).key = NewKey(h)
               /\ \E u \in UsesOf(Target(h)) :
                    Head(storing[h]) = KeyOf(h, u) /\ Head(storing[h]).id = <<Target(h), u>> /\ Pending(h, u)
            \/ /\ Op(h) \in {"storeKey", "revokeKey"} /\ Head(storing[h]).id = request[h].id
               /\ ~Touched(request[h].id[1]) /\ ~(Len(storing[h]) > 1)
               /\ Op(h) = "revokeKey" => Head(storing[h]).key.revoked
<1>1. Phase(h) /\ Creation(h) /\ Revocation(h) /\ ServiceTypeOK /\ request \in Workload
  BY DEF SInv, ServiceTypeOK
<1>2. storing[h] # <<>> /\ Op(h) \in Creating \cup {"storeKey", "revokeKey"}
  BY <1>1 DEF Phase, Keeping
<1>3. Head(storing[h]) \in [id : KeyId, key : PrivateKey]
  <2>1. storing[h] \in Seq([id : KeyId, key : PrivateKey])
    BY <1>1 DEF ServiceTypeOK
  <2> QED BY <1>2, <2>1, HeadTailProperties
<1>4. CASE Op(h) \in Creating
  <2>1. storing[h] \in ToWrite(h)
    BY <1>1, <1>4 DEF Creation
  <2>2. PICK u \in UsesOf(Target(h)) : Head(storing[h]) = KeyOf(h, u) /\ u \in UsesIn(h, storing[h])
    BY <1>1, <1>4, <2>1, NextWrite
  <2>3. Head(storing[h]).id = <<Target(h), u>> /\ Head(storing[h]).key = NewKey(h)
    BY <2>2 DEF KeyOf, Write
  <2>4. Pending(h, u)
    <3>1. u \in Use
      BY <1>1, RequestType, Uses
    <3> QED BY <2>2, <3>1, PendingUses
  <2> QED BY <1>3, <1>4, <2>2, <2>3, <2>4
<1>5. CASE Op(h) \in {"storeKey", "revokeKey"}
  <2>1. PICK key \in PrivateKey : storing[h] = <<Write(request[h].id, key)>>
                                  /\ (Op(h) = "revokeKey" => key.revoked)
    <3>1. NewKey(h) \in PrivateKey
      BY DEF NewKey, PrivateKey, Secret
    <3> QED BY <1>1, <1>5, <3>1 DEF Phase, Revocation, Keeping
  <2> DEFINE w == Write(request[h].id, key)
  <2>2. w.id = request[h].id /\ w.key = key
    BY DEF Write
  <2> HIDE DEF w
  <2>3. storing[h] = <<w>>
    BY <2>1 DEF w
  <2>4. Head(storing[h]) = w /\ ~(Len(storing[h]) > 1)
    BY <2>3
  <2>5. ~Touched(request[h].id[1])
    BY <1>5, Apart
  <2> QED BY <1>3, <1>5, <2>1, <2>2, <2>4, <2>5
<1> QED BY <1>2, <1>4, <1>5

\* WriteKey's first half of a key.
LEMMA PublishingKeeps ==
  ASSUME SInv, KeysApart, NEW h \in Handler, Publishing(h)
  PROVE  SInv'
<1>0. PICK d \in DID : d = Target(h)
  BY RequestType DEF SInv, ServiceTypeOK
<1>1. PICK next : next = Head(storing[h])
  OBVIOUS
<1>2. Keeping(h) /\ request \in Workload
  BY DEF Publishing, WritePublic, Keeping, SInv, ServiceTypeOK
<1>3. /\ next.id \in KeyId /\ next.key \in PrivateKey
      /\ \/ /\ Op(h) \in Creating /\ next.key = NewKey(h)
            /\ \E u \in UsesOf(d) : next = KeyOf(h, u) /\ next.id = <<d, u>> /\ Pending(h, u)
         \/ Op(h) \in {"storeKey", "revokeKey"} /\ ~Touched(next.id[1])
  BY <1>0, <1>1, <1>2, NextKey
<1>4. /\ public' = [public EXCEPT ![next.id] = next.key.secret]
      /\ pc[h] = "public" /\ pc'[h] = "private" /\ \A g \in Handler \ {h} : pc'[g] = pc[g]
      /\ UNCHANGED <<request, reply, private, storing, dids, states, network, local, overlapped, since>>
  BY <1>1 DEF Publishing, WritePublic, KeyOnly, GoTo, history, SInv, ServiceTypeOK
<1>5. \A e \in DID : About(e)'
  <2> SUFFICES ASSUME NEW e \in DID PROVE About(e)'
    OBVIOUS
  <2>1. Writing(e)' \subseteq Writing(e)
    BY <1>4 DEF Writing, Target
  <2>2. Still(e)
    BY <1>4, <2>1 DEF Still, Steady, Stored
  <2> QED BY <2>2, StillKeeps DEF SInv
<1>6. \A g \in Handler \ {h} : Waiting(g) /\ Harmless(g)
  <2>1. \A i \in KeyId \ {next.id} : public'[i] = public[i] /\ private'[i] = private[i]
    BY <1>4 DEF SInv, ServiceTypeOK
  <2>2. \/ Op(h) \in Creating /\ Keeping(h) /\ next.id[1] = Target(h)
        \/ ~Touched(next.id[1])
    BY <1>0, <1>2, <1>3
  <2>3. \A g \in Handler \ {h} : Harmless(g)
    BY <1>3, <1>4, <2>1, <2>2, OneKeyHarmless
  <2> QED BY <1>4, <2>3 DEF Waiting
<1>7. Op(h)' = Op(h) /\ Target(h)' = d /\ Keeping(h)' /\ \A u : Pending(h, u)' <=> Pending(h, u)
  BY <1>0, <1>2, <1>4 DEF Op, Target, Keeping, Pending
<1>8. Phase(h)'
  BY <1>4, <1>7 DEF Phase, SInv
<1>9. Batch(h)' /\ Revocation(h)'
  <2>1. Op(h) # "batch"
    BY <1>3 DEF Creating
  <2>2. Revocation(h)
    BY DEF SInv
  <2>3. \A g \in Handler : Op(g)' = Op(g)
    BY <1>4 DEF Op
  <2> QED BY <1>2, <1>4, <1>7, <2>1, <2>2, <2>3 DEF Batch, Revocation
<1>10. Creation(h)'
  <2> SUFFICES ASSUME Op(h) \in Creating PROVE Creation(h)'
    BY <1>7 DEF Creation
  <2>1. PICK u \in UsesOf(d) : next = KeyOf(h, u) /\ next.id = <<d, u>> /\ Pending(h, u)
    BY <1>3 DEF Creating
  <2>2. next.key.secret = h
    BY <1>3 DEF Creating, NewKey
  <2>3. Creation(h) /\ reply[h] = 0
    BY <1>4 DEF SInv, Phase, Creating
  <2>4. storing'[h] \in ToWrite(h)'
    <3>1. ToWrite(h)' = ToWrite(h)
      BY <1>4 DEF ToWrite, KeyOf, Op, Target
    <3> QED BY <1>2, <1>4, <2>3, <3>1 DEF Creation
  <2>5. public'[next.id] = h
    BY <1>3, <1>4, <2>2 DEF SInv, ServiceTypeOK
  <2>6. \A v \in UsesOf(d) : ~Pending(h, v) /\ Whole(d, v) => Whole(d, v)'
    <3> SUFFICES ASSUME NEW v \in UsesOf(d), ~Pending(h, v), Whole(d, v) PROVE Whole(d, v)'
      OBVIOUS
    <3>1. public'[<<d, v>>] = public[<<d, v>>]
      BY <1>4, <2>1
    <3> QED BY <1>4, <3>1 DEF Whole, Stored
  <2>7. Clean(d)' => /\ dids'[d].by = h
                     /\ \A v \in UsesOf(d) : IF Pending(h, v)' THEN ~Stored(<<d, v>>)' ELSE Whole(d, v)'
    <3>1. Clean(d)' => Clean(d)
      BY <1>4 DEF Clean
    <3>2. \A v \in UsesOf(d) : Stored(<<d, v>>)' <=> Stored(<<d, v>>)
      BY <1>4 DEF Stored
    <3> QED BY <1>0, <1>2, <1>4, <1>7, <2>3, <2>6, <3>1, <3>2 DEF Creation
  <2>8. Op(h) = "createIon" /\ Pending(h, "update") => network'[d].next = h
    BY <1>0, <1>4, <2>3 DEF Creation
  <2> QED BY <1>1, <1>4, <1>7, <2>3, <2>4, <2>5, <2>7, <2>8 DEF Creation
<1> QED BY <1>5, <1>6, <1>8, <1>9, <1>10, StepKeeps DEF Acts

\* The second half: with the last key a creation is complete.
LEMMA KeepsKeeps ==
  ASSUME SInv, KeysApart, NEW h \in Handler, Keeps(h)
  PROVE  SInv'
<1>0. PICK d \in DID : d = Target(h)
  BY RequestType DEF SInv, ServiceTypeOK
<1>1. PICK next : next = Head(storing[h])
  OBVIOUS
<1>2. Keeping(h) /\ request \in Workload
  BY DEF Keeps, WritePrivate, Keeping, SInv, ServiceTypeOK
<1>3. /\ next.id \in KeyId /\ next.key \in PrivateKey
      /\ \/ /\ Op(h) \in Creating /\ next.key = NewKey(h)
            /\ \E u \in UsesOf(d) : next = KeyOf(h, u) /\ next.id = <<d, u>> /\ Pending(h, u)
         \/ /\ Op(h) \in {"storeKey", "revokeKey"} /\ next.id = request[h].id
            /\ ~Touched(next.id[1]) /\ ~(Len(storing[h]) > 1)
            /\ Op(h) = "revokeKey" => next.key.revoked
  BY <1>0, <1>1, <1>2, NextKey
<1>4. /\ private' = [private EXCEPT ![next.id] = next.key]
      /\ storing'[h] = Tail(storing[h]) /\ \A g \in Handler \ {h} : storing'[g] = storing[g]
      /\ pc[h] = "private"
      /\ UNCHANGED <<request, public, dids, states, network, local, overlapped, since>>
  BY <1>1 DEF Keeps, WritePrivate, KeyOnly, history, SInv, ServiceTypeOK
<1>5. /\ \A g \in Handler \ {h} : pc'[g] = pc[g] /\ reply'[g] = reply[g]
      /\ Len(storing[h]) > 1 => pc'[h] = "public" /\ reply'[h] = reply[h]
      /\ ~(Len(storing[h]) > 1) =>
           pc'[h] = "ended" /\ reply'[h] = (IF reply[h] = 0 THEN SuccessOf(Op(h)) ELSE reply[h])
  <2>1. CASE Len(storing[h]) > 1
    <3>1. GoTo(h, "public") /\ UNCHANGED reply
      BY <2>1 DEF Keeps, WritePrivate
    <3> QED BY <2>1, <3>1 DEF GoTo, SInv, ServiceTypeOK
  <2>2. CASE ~(Len(storing[h]) > 1)
    <3>1. Respond(h, SuccessOf(Op(h))) /\ SuccessOf(Op(h)) \in Replies
      BY <1>2, <2>2, Success DEF Keeps, WritePrivate, Succeed, Op
    <3> QED BY <2>2, <3>1, Answer DEF SInv, ServiceTypeOK
  <2> QED BY <2>1, <2>2
<1>6. pc'[h] \in {"public", "ended"} /\ \A e \in DID : Writing(e)' \subseteq Writing(e)
  BY <1>4, <1>5 DEF Writing, Target
<1>7. \A i \in KeyId \ {next.id} : private'[i] = private[i]
  BY <1>4 DEF SInv, ServiceTypeOK
<1>8. Op(h) \in Creating => ~Updating(h) /\ Op(h) # "update" /\ Op(h) # "softDelete"
  BY DEF Creating, Updating
<1>9. \A e \in DID : (e = d => Op(h) \notin Creating) => About(e)'
  <2> SUFFICES ASSUME NEW e \in DID, e = d => Op(h) \notin Creating PROVE About(e)'
    OBVIOUS
  <2>1. Touched(e) => \A u \in Use : private'[<<e, u>>] = private[<<e, u>>]
    <3>1. Touched(e) => e # next.id[1]
      BY <1>3
    <3> QED BY <1>7, <3>1, KeyIds
  <2>2. Still(e)
    BY <1>4, <1>5, <1>6, <2>1 DEF Still, Steady, Stored, Use
  <2> QED BY <2>2, StillKeeps DEF SInv
<1>10. ASSUME Op(h) \in Creating PROVE About(d)' /\ Creation(h)'
  <2>1. PICK u \in UsesOf(d) : next = KeyOf(h, u) /\ next.id = <<d, u>> /\ Pending(h, u)
    BY <1>3, <1>10 DEF Creating
  <2>2. private'[<<d, u>>] = NewKey(h) /\ NewKey(h).secret = h /\ h # None
    BY <1>3, <1>4, <1>10, <2>1, DIDAssumption DEF SInv, ServiceTypeOK, NewKey, Creating
  <2>3. Creation(h) /\ reply[h] = 0 /\ Touched(d) /\ Keeping(h)
    BY <1>0, <1>2, <1>4, <1>8, <1>10, CreatorMakes DEF SInv, Phase
  <2>4. Clean(d) => /\ dids[d].by = h /\ Has(d) /\ public[<<d, u>>] = h
                    /\ \A v \in UsesOf(d) : IF Pending(h, v) THEN ~Stored(<<d, v>>) ELSE Whole(d, v)
    BY <1>0, <1>1, <1>4, <1>10, <2>1, <2>2, <2>3 DEF Creation, Has
  <2>5. u \in Use /\ u # "staging"
    BY <2>1 DEF UsesOf, Use
  <2>6. \A v \in Use \ {u} : private'[<<d, v>>] = private[<<d, v>>]
    BY <1>7, <2>1, KeyIds
  <2>7. Clean(d)' <=> Clean(d)
    BY <1>4 DEF Clean
  <2>8. ASSUME u # "update" PROVE About(d)'
    <3>1. Still(d)
      BY <1>4, <1>5, <1>6, <2>4, <2>5, <2>6, <2>8 DEF Still, Steady, Use
    <3> QED BY <3>1, StillKeeps DEF SInv
  <2>9. ASSUME u = "update" PROVE About(d)'
    <3>1. Method[d] = "ion" /\ Clean(d)
      BY <2>1, <2>9 DEF UsesOf, Clean
    <3>2. Records(d) = {}
      <4>1. ~Stored(<<d, "update">>)
        BY <2>1, <2>4, <2>9, <3>1
      <4> QED BY <2>3, <4>1, CreatedAnew
    <3>3. About(d) /\ ServiceTypeOK /\ \A g \in Handler : Phase(g)
      BY DEF SInv
    <3>4. Keyed(d)'
      BY <1>4, <2>4, <3>1 DEF Keyed, Has
    <3>5. d \notin overlapped' => \A g, k \in Writing(d)' : g = k
      BY <1>4, <1>6, <3>3 DEF About, Follows
    <3>6. UpdateKey(d)' = h
      BY <2>2, <2>9 DEF UpdateKey
    <3> QED BY <1>4, <1>5, <1>6, <1>8, <1>10, <3>2, <3>3, <3>4, <3>5, <3>6, EmptyKeeps
  <2>10. ToWrite(h)' = ToWrite(h)
    BY <1>4 DEF ToWrite, KeyOf, Op, Target
  <2>11. storing[h] \in ToWrite(h)
    BY <1>10, <2>3 DEF Creation
  <2>12. PICK w \in UsesOf(d) :
           /\ Head(storing[h]) = KeyOf(h, w)
           /\ Len(storing[h]) > 1 =>
                /\ Tail(storing[h]) \in ToWrite(h) /\ Tail(storing[h]) # <<>>
                /\ UsesIn(h, Tail(storing[h])) = UsesIn(h, storing[h]) \ {w}
           /\ ~(Len(storing[h]) > 1) => UsesIn(h, storing[h]) = {w}
    BY <1>0, <1>2, <1>10, <2>11, NextWrite
  <2>13. w = u
    BY <1>1, <2>1, <2>12 DEF KeyOf, Write
  <2>14. Op(h)' = Op(h) /\ Target(h)' = d /\ (Keeping(h)' <=> Len(storing[h]) > 1)
    BY <1>0, <1>4, <1>5 DEF Op, Target, Keeping
  <2>15. \A v \in UsesOf(d) : Pending(h, v) <=> v \in UsesIn(h, storing[h])
    BY <1>0, <2>3, Uses, PendingUses
  <2>16. \A v \in UsesOf(d) : Pending(h, v)' <=> Pending(h, v) /\ v # u
    <3>1. CASE Len(storing[h]) > 1
      <4>1. \A v \in UsesOf(d) : Pending(h, v)' <=> v \in UsesIn(h, Tail(storing[h]))
        BY <1>0, <1>4, <1>6, <2>14, <3>1, Uses DEF Pending, UsesIn
      <4> QED BY <2>12, <2>13, <2>15, <3>1, <4>1
    <3>2. CASE ~(Len(storing[h]) > 1)
      <4>1. \A v : ~Pending(h, v)'
        BY <1>5, <2>14, <3>2 DEF Pending
      <4> QED BY <2>12, <2>13, <2>15, <3>2, <4>1
    <3> QED BY <3>1, <3>2
  <2>17. Clean(d) => Whole(d, u)' /\ \A v \in UsesOf(d) : v # u => (Whole(d, v) => Whole(d, v)')
    <3>1. Clean(d) => Whole(d, u)'
      BY <1>4, <2>2, <2>4 DEF Whole, Stored
    <3>2. \A v \in UsesOf(d) : v # u => (Whole(d, v) => Whole(d, v)')
      BY <1>4, <2>6, Uses DEF Whole, Stored
    <3> QED BY <3>1, <3>2
  <2>18. \A v \in UsesOf(d) : v # u => (Stored(<<d, v>>)' <=> Stored(<<d, v>>))
    BY <2>6, Uses DEF Stored
  <2>19. Clean(d)' => \A v \in UsesOf(d) : IF Pending(h, v)' THEN ~Stored(<<d, v>>)' ELSE Whole(d, v)'
    BY <2>4, <2>7, <2>16, <2>17, <2>18
  <2>20. Keeping(h)' => storing'[h] \in ToWrite(h)'
    BY <1>4, <2>10, <2>12, <2>14
  <2>21. reply'[h] = 201 => ~Keeping(h)' /\ \A v \in UsesOf(d) : ~Pending(h, v)'
    <3>1. reply'[h] = 201 => ~(Len(storing[h]) > 1)
      BY <1>5, <2>3
    <3> QED BY <2>12, <2>13, <2>14, <2>15, <2>16, <3>1
  <2>22. Op(h) = "createIon" /\ Pending(h, "update")' => network'[d].next = h
    <3> SUFFICES ASSUME Op(h) = "createIon", Pending(h, "update")' PROVE network'[d].next = h
      OBVIOUS
    <3>1. "update" \in UsesOf(d)
      BY <1>0, <1>2, RequestType DEF UsesOf
    <3>2. Pending(h, "update")
      BY <2>16, <3>1
    <3> QED BY <1>0, <1>4, <1>10, <2>3, <3>2 DEF Creation
  <2>23. dids' = dids
    BY <1>4
  <2>24. Creation(h)'
    BY <1>6, <2>4, <2>7, <2>14, <2>19, <2>20, <2>21, <2>22, <2>23 DEF Creation
  <2>25. About(d)'
    BY <2>8, <2>9
  <2> QED BY <2>24, <2>25
<1>11. \A g \in Handler \ {h} : Waiting(g) /\ Harmless(g)
  <2>1. \A i \in KeyId \ {next.id} : public'[i] = public[i] /\ private'[i] = private[i]
    BY <1>4, <1>7
  <2>2. \/ Op(h) \in Creating /\ Keeping(h) /\ next.id[1] = Target(h)
        \/ ~Touched(next.id[1])
    BY <1>0, <1>2, <1>3
  <2>4. \A g \in Handler \ {h} : Harmless(g)
    BY <1>3, <1>4, <2>1, <2>2, OneKeyHarmless
  <2> QED BY <1>4, <1>5, <2>4 DEF Waiting
<1>12. Phase(h)'
  <2>1. pc'[h] = "public" => Op(h) \in Creating /\ Len(storing[h]) > 1
    BY <1>3, <1>5
  <2>2. pc'[h] = "public" => Tail(storing[h]) # <<>>
    <3>1. storing[h] # <<>> /\ Len(storing[h]) \in Nat
      BY <1>2, LenProperties DEF SInv, Phase, Keeping, ServiceTypeOK
    <3>2. Len(Tail(storing[h])) = Len(storing[h]) - 1
      BY <3>1, HeadTailProperties DEF SInv, ServiceTypeOK
    <3>3. \A n \in Nat : n > 1 => n - 1 # 0
      OBVIOUS
    <3>4. Len(<<>>) = 0
      BY EmptySeq
    <3> QED BY <2>1, <3>1, <3>2, <3>3, <3>4, Zenon
  <2>3. reply[h] = 0
    BY <1>2, <1>3, <1>4, <1>8 DEF SInv, Phase
  <2>4. Op(h)' = Op(h) /\ request' = request
    BY <1>4 DEF Op
  <2> QED BY <1>4, <1>5, <1>6, <1>8, <2>1, <2>2, <2>3, <2>4 DEF Phase, Creating
<1>13. Batch(h)' /\ Revocation(h)'
  <2>1. Op(h)' = Op(h) /\ Op(h) # "batch" /\ request' = request
    BY <1>3, <1>4 DEF Op, Creating
  <2>2. Op(h) = "revokeKey" => ~Keeping(h)'
    BY <1>3, <1>5 DEF Creating, Keeping
  <2> QED BY <2>1, <2>2 DEF Batch, Revocation
<1>14. Creation(h)'
  <2>1. Op(h)' = Op(h)
    BY <1>4 DEF Op
  <2> QED BY <1>10, <2>1 DEF Creation
<1>15. \A e \in DID : About(e)'
  BY <1>9, <1>10
<1> QED BY <1>11, <1>12, <1>13, <1>14, <1>15, StepKeeps DEF Acts

\* Storing and revoking a key by its id.
LEMMA StartKeyKeeps ==
  ASSUME SInv, NEW h \in Handler, StartStoring(h) \/ StartRevoking(h)
  PROVE  SInv'
<1>1. /\ Op(h) \in {"storeKey", "revokeKey"} /\ pc[h] = "begin" /\ request[h].id \in KeyId
      /\ pc'[h] = "public" /\ \A g \in Handler \ {h} : pc'[g] = pc[g] /\ storing'[g] = storing[g]
      /\ UNCHANGED <<request, reply, public, private, dids, states, network, local, overlapped, since>>
  BY RequestType DEF StartStoring, StartRevoking, StoreKey, RevokeKey, StoreKeys, KeyOnly, Op,
     GoTo, history, SInv, ServiceTypeOK
<1>2. /\ Op(h) = "storeKey" => storing'[h] = <<Write(request[h].id, NewKey(h))>>
      /\ Op(h) = "revokeKey" => storing'[h] =
           <<Write(request[h].id, [private[request[h].id] EXCEPT !.revoked = TRUE])>>
  BY DEF StartStoring, StartRevoking, StoreKey, RevokeKey, StoreKeys, Op, SInv, ServiceTypeOK
<1>3. \A d \in DID : About(d)'
  <2> SUFFICES ASSUME NEW d \in DID PROVE About(d)'
    OBVIOUS
  <2>1. Writing(d)' \subseteq Writing(d)
    BY <1>1 DEF Writing, Target, Op, Creating
  <2>2. Still(d)
    BY <1>1, <2>1 DEF Still, Steady, Stored
  <2> QED BY <2>2, StillKeeps DEF SInv
<1>4. \A g \in Handler \ {h} : Waiting(g) /\ Harmless(g)
  BY <1>1, CalmHarmless DEF Calm, Waiting
<1>5. Op(h)' = Op(h) /\ request' = request /\ reply[h] = 0 /\ reply'[h] = 0
  BY <1>1 DEF Op, SInv, Phase
<1>6. storing'[h] # <<>>
  BY <1>1, <1>2
<1>7. Phase(h)'
  BY <1>1, <1>2, <1>5, <1>6 DEF Phase
<1>8. Creation(h)' /\ Batch(h)'
  BY <1>1, <1>5 DEF Creation, Batch, Creating
<1>9. Revocation(h)'
  <2>1. Op(h) = "revokeKey" => \E key \in PrivateKey :
          key.revoked /\ storing'[h] = <<Write(request[h].id, key)>>
    <3> DEFINE key == [private[request[h].id] EXCEPT !.revoked = TRUE]
    <3>1. key \in PrivateKey /\ key.revoked
      BY <1>1 DEF SInv, ServiceTypeOK, PrivateKey
    <3> QED BY <1>2, <3>1
  <2> QED BY <1>5, <2>1 DEF Revocation
<1> QED BY <1>3, <1>4, <1>7, <1>8, <1>9, StepKeeps DEF Acts

\* A batch makes its DIDs with their keys in one step.
LEMMA BatchKeeps ==
  ASSUME SInv, KeysApart, NEW h \in Handler, BatchCreateDIDs(h)
  PROVE  SInv'
<1>0. PICK new \in SUBSET DID : new = request[h].dids
  BY RequestType DEF SInv, ServiceTypeOK
<1>1. /\ Op(h) = "batch" /\ pc[h] = "begin" /\ request \in Workload
      /\ dids' = [d \in DID |-> IF d \in new THEN Doc(h) ELSE dids[d]]
      /\ public' = [id \in KeyId |-> IF id \in new \X {"doc"} THEN NewKey(h).secret ELSE public[id]]
      /\ private' = [id \in KeyId |-> IF id \in new \X {"doc"} THEN NewKey(h) ELSE private[id]]
      /\ UNCHANGED <<request, storing, states, network, local, overlapped, since>>
  BY <1>0 DEF BatchCreateDIDs, StoreInTransaction, Op, history, SInv, ServiceTypeOK
<1>2. /\ pc'[h] = "ended" /\ \A g \in Handler \ {h} : pc'[g] = pc[g] /\ reply'[g] = reply[g]
  <2>1. Respond(h, SuccessOf(Op(h))) /\ SuccessOf(Op(h)) \in Replies
    BY <1>1, Success DEF BatchCreateDIDs, Succeed, Op
  <2> QED BY <2>1, Answer DEF SInv, ServiceTypeOK
<1>3. \A d \in new : Method[d] = "key" /\ ~Has(d) /\ Touched(d) /\ Makes(request[h], d) /\ Records(d) = {}
  <2>1. \A d \in new : Method[d] = "key" /\ Touched(d) /\ Makes(request[h], d)
    BY <1>0, <1>1, RequestType, CreatorMakes
  <2>2. \A d \in new : ~Has(d)
    BY <1>0, <1>1 DEF SInv, Batch
  <2> QED BY <2>1, <2>2, CreatedAnew
<1>4. NewKey(h).secret = h /\ ~NewKey(h).revoked /\ h # None /\ ~Updating(h)
  BY <1>1, DIDAssumption DEF NewKey, Updating
<1>5. \A d \in DID : \A u \in Use : d \notin new \/ u # "doc" =>
        public'[<<d, u>>] = public[<<d, u>>] /\ private'[<<d, u>>] = private[<<d, u>>]
  <2> SUFFICES ASSUME NEW d \in DID, NEW u \in Use, d \notin new \/ u # "doc"
               PROVE  public'[<<d, u>>] = public[<<d, u>>] /\ private'[<<d, u>>] = private[<<d, u>>]
    OBVIOUS
  <2>1. <<d, u>> \in KeyId /\ <<d, u>> \notin new \X {"doc"}
    BY KeyIds
  <2> QED BY <1>1, <2>1
<1>6. \A d \in new : public'[<<d, "doc">>] = h /\ private'[<<d, "doc">>] = NewKey(h)
  <2> SUFFICES ASSUME NEW d \in new
               PROVE  public'[<<d, "doc">>] = h /\ private'[<<d, "doc">>] = NewKey(h)
    OBVIOUS
  <2>1. <<d, "doc">> \in KeyId /\ <<d, "doc">> \in new \X {"doc"}
    BY <1>0, KeyIds DEF Use
  <2> QED BY <1>1, <1>4, <2>1
<1>7. \A e \in DID : Writing(e)' \subseteq Writing(e)
  BY <1>1, <1>2 DEF Writing, Target
<1>8. \A d \in DID : About(d)'
  <2> SUFFICES ASSUME NEW d \in DID PROVE About(d)'
    OBVIOUS
  <2>0. "update" \in Use /\ "staging" \in Use /\ "update" # "doc" /\ "staging" # "doc"
    BY DEF Use
  <2>1. CASE d \notin new
    <3>a. \A u \in Use : private'[<<d, u>>] = private[<<d, u>>]
      BY <1>5, <2>1
    <3>b. dids'[d] = dids[d]
      BY <1>1, <2>1
    <3>1. Still(d)
      BY <1>1, <1>2, <1>7, <2>0, <3>a, <3>b DEF Still, Steady, Stored
    <3> QED BY <3>1, StillKeeps DEF SInv
  <2>2. CASE d \in new
    <3>1. About(d) /\ ServiceTypeOK /\ \A g \in Handler : Phase(g)
      BY DEF SInv
    <3>2. dids'[d].by = h /\ dids'[d].ops = {} /\ ~dids'[d].deleted
      BY <1>1, <2>2 DEF Doc
    <3>3. UpdateKey(d)' = UpdateKey(d) /\ (Stored(<<d, "update">>)' <=> Stored(<<d, "update">>))
      BY <1>5, <2>0 DEF UpdateKey, Stored
    <3>4. Keyed(d)'
      BY <1>3, <1>4, <2>2, <3>1, <3>2, <3>3 DEF About, Keyed, Has
    <3>5. d \notin overlapped' => \A g, k \in Writing(d)' : g = k
      BY <1>1, <1>7, <3>1 DEF About, Follows
    <3>6. UpdateKey(d)' = network'[d].next =>
            UpdateKey(d)' \in Taken(d) \/ ~Updating(UpdateKey(d)')
      BY <1>1, <1>3, <2>2, <3>1, <3>3 DEF About, Chain
    <3>7. Records(d) = {}
      BY <1>3, <2>2
    <3>8. ~Has(d)
      BY <1>3, <2>2
    <3> QED BY <1>1, <1>2, <1>4, <3>1, <3>2, <3>4, <3>5, <3>6, <3>7, <3>8, EmptyKeeps
  <2> QED BY <2>1, <2>2
<1>9. \A g \in Handler \ {h} : Waiting(g) /\ Harmless(g)
  <2> SUFFICES ASSUME NEW g \in Handler \ {h} PROVE Waiting(g) /\ Harmless(g)
    OBVIOUS
  <2>1. \A d \in DID \ new : Unharmed(d)
    <3> SUFFICES ASSUME NEW d \in DID \ new PROVE Unharmed(d)
      OBVIOUS
    <3>1. \A u \in UsesOf(d) :
            public'[<<d, u>>] = public[<<d, u>>] /\ private'[<<d, u>>] = private[<<d, u>>]
      BY <1>5, Uses
    <3>2. dids'[d] = dids[d] /\ network'[d] = network[d] /\ overlapped' = overlapped
      BY <1>1
    <3> QED BY <3>1, <3>2 DEF Unharmed, Stored, Whole
  <2>2. Target(g) \in DID /\ request[g].dids \subseteq DID /\ request[g].id \in KeyId
    BY <1>1, RequestType
  <2>3. Op(g) \in Creating => Target(g) \notin new
    <3>1. Op(g) \in Creating => Makes(request[g], Target(g))
      BY <1>1, CreatorMakes
    <3> QED BY <1>1, <1>3, <2>2, <3>1, MadeOnce
  <2>4. Op(g) = "batch" => request[g].dids \cap new = {}
    <3>1. Op(g) = "batch" => \A d \in request[g].dids : Makes(request[g], d)
      BY <1>1, CreatorMakes
    <3> QED BY <1>1, <1>3, <2>2, <3>1, MadeOnce
  <2> QED BY <1>1, <1>2, <2>1, <2>2, <2>3, <2>4 DEF Waiting, Harmless
<1>10. Phase(h)'
  BY <1>2 DEF Phase
<1>11. Creation(h)' /\ Revocation(h)'
  BY <1>1 DEF Creation, Revocation, Op, Creating
<1>12. Batch(h)'
  <2>1. \A d \in new : Has(d)' /\ Whole(d, "doc")'
    BY <1>1, <1>4, <1>6 DEF Has, Whole, Stored, Doc
  <2> QED BY <1>0, <1>1, <1>2, <2>1 DEF Batch
<1> QED BY <1>8, <1>9, <1>10, <1>11, <1>12, StepKeeps DEF Acts

\* What a deletion has read may be old when it is written,
LEMMA ReadToDeleteKeeps ==
  ASSUME SInv, NEW h \in Handler, ReadToDelete(h)
  PROVE  SInv'
<1>0. PICK d \in DID : d = Target(h)
  BY RequestType DEF SInv, ServiceTypeOK
<1>1. /\ Op(h) = "softDelete" /\ pc[h] = "begin" /\ Has(d)
      /\ pc'[h] = "document" /\ \A g \in Handler \ {h} : pc'[g] = pc[g]
      /\ local' = [local EXCEPT ![h] = <<dids[d]>>]
      /\ UNCHANGED <<request, reply, public, private, storing, dids, states, network, overlapped, since>>
  BY <1>0 DEF ReadToDelete, Op, GoTo, history, SInv, ServiceTypeOK
<1>2. local'[h] = <<dids[d]>> /\ \A g \in Handler \ {h} : local'[g] = local[g]
  BY <1>1 DEF SInv, ServiceTypeOK
<1>3. \A e \in DID : About(e)'
  <2> SUFFICES ASSUME NEW e \in DID PROVE About(e)'
    OBVIOUS
  <2>1. Writing(e)' \subseteq Writing(e)
    BY <1>1 DEF Writing, Target, Op, Creating
  <2>2. Still(e)
    BY <1>0, <1>1, <1>2, <2>1 DEF Still, Steady, Stored
  <2> QED BY <2>2, StillKeeps DEF SInv
<1>4. \A g \in Handler \ {h} : Waiting(g) /\ Harmless(g)
  BY <1>1, <1>2, CalmHarmless DEF Calm, Waiting
<1>5. Op(h)' = Op(h) /\ reply[h] = 0 /\ reply'[h] = 0
  BY <1>1 DEF Op, SInv, Phase
<1>6. local'[h] \in Seq(Document) /\ Len(local'[h]) = 1
  BY <1>2 DEF SInv, ServiceTypeOK
<1>7. Phase(h)'
  BY <1>1, <1>5, <1>6 DEF Phase
<1>8. Creation(h)' /\ Batch(h)' /\ Revocation(h)'
  BY <1>1, OtherRequests DEF Creating
<1> QED BY <1>3, <1>4, <1>7, <1>8, StepKeeps DEF Acts

\* and what it writes is an earlier document of the same creator, with the mark.
LEMMA WriteDeletedKeeps ==
  ASSUME SInv, NEW h \in Handler, WriteDeleted(h)
  PROVE  SInv'
<1>0. PICK d \in DID : d = Target(h)
  BY RequestType DEF SInv, ServiceTypeOK
<1>a. PICK was : was = local[h][1]
  OBVIOUS
<1>1. /\ Op(h) = "softDelete" /\ pc[h] = "document"
      /\ dids' = [dids EXCEPT ![d] = [was EXCEPT !.deleted = TRUE]]
      /\ since' = [since EXCEPT ![d] = {}]
      /\ UNCHANGED <<request, public, private, storing, states, network, local, overlapped>>
  BY <1>0, <1>a DEF WriteDeleted, Op
<1>2. was \in Document
  <2>1. local[h] \in Seq(Document) /\ Len(local[h]) = 1
    BY <1>1 DEF SInv, Phase
  <2> QED BY <1>a, <2>1, ElementOfSeq
<1>3. /\ dids'[d].by = was.by /\ dids'[d].ops = was.ops /\ dids'[d].deleted
      /\ since'[d] = {} /\ \A e \in DID \ {d} : dids'[e] = dids[e] /\ since'[e] = since[e]
  BY <1>1, <1>2 DEF SInv, ServiceTypeOK, Document
<1>4. pc'[h] = "ended" /\ \A g \in Handler \ {h} : pc'[g] = pc[g] /\ reply'[g] = reply[g]
  <2>1. Respond(h, SuccessOf(Op(h))) /\ SuccessOf(Op(h)) \in Replies
    BY Success DEF WriteDeleted, Succeed, Op, SInv, ServiceTypeOK
  <2> QED BY <2>1, Answer DEF SInv, ServiceTypeOK
<1>5. About(d) /\ ServiceTypeOK /\ \A g \in Handler : Phase(g)
  BY DEF SInv
<1>6. /\ Has(d) /\ was.by # None /\ ~Updating(was.by) /\ was.ops \subseteq Taken(d)
      /\ Clean(d) => was.by = dids[d].by
  BY <1>0, <1>1, <1>5, <1>a DEF About, Kept, Behind
<1>7. \A e \in DID : Writing(e)' \subseteq Writing(e)
  BY <1>1, <1>4 DEF Writing, Target
<1>8. \A e \in DID \ {d} : About(e)'
  <2> SUFFICES ASSUME NEW e \in DID \ {d} PROVE About(e)'
    OBVIOUS
  <2>1. Still(e)
    BY <1>0, <1>1, <1>3, <1>4, <1>7 DEF Still, Steady, Stored
  <2> QED BY <1>5, <2>1, StillKeeps DEF SInv
<1>9. About(d)'
  <2>1. Steady(d)
    BY <1>1, <1>4 DEF Steady
  <2>2. /\ Records(d)' \subseteq Records(d) /\ (Touched(d)' <=> Touched(d))
        /\ \A g \in Handler : Holds(g, d)' => Holds(g, d) /\ local'[g] = local[g] /\ pc'[g] = pc[g]
        /\ Status(d)' = Status(d) /\ (Touched(d) => UpdateKey(d)' = UpdateKey(d))
    BY <2>1, SteadyRecords
  <2>3. /\ \A s : Op(s)' = Op(s) /\ Target(s)' = Target(s) /\ (Updating(s)' <=> Updating(s))
        /\ Taken(d)' = Taken(d) /\ Has(d)'
    BY <1>1, <1>3, <1>6 DEF Op, Target, Updating, Taken, Has
  <2>4. \A g \in Handler : Op(g) = "softDelete" /\ Target(g) = d /\ pc'[g] = "document" =>
          pc[g] = "document" /\ local'[g] = local[g]
    BY <1>1, <1>4
  <2>5. Touched(d) => Chain(d)'
    BY <1>5, <2>1, SteadyChain DEF About
  <2>6. ~Touched(d) => Records(d)' = {}
    BY <1>5, <2>2 DEF About
  <2>7. Behind(d)'
    BY <1>3, <1>5, <1>6, <2>2, <2>3, <2>4 DEF About, Behind
  <2>8. Keyed(d)'
    BY <1>1, <1>5, <2>2, <2>3 DEF About, Keyed, Stored
  <2>9. Kept(d)'
    <3>1. Records(d) # {} => was.by = dids[d].by
      <4>1. Records(d) # {} => Touched(d) /\ Stored(<<d, "update">>)
        BY <1>5 DEF About, Chain
      <4>2. Records(d) # {} => Clean(d)
        BY <1>5, <4>1 DEF About, Keyed, Clean
      <4> QED BY <1>6, <4>2
    <3>2. \A x \in Records(d)' : x.doc.by = dids'[d].by
      BY <1>3, <1>5, <2>2, <3>1 DEF About, Kept
    <3>3. Clean(d)' => Clean(d) /\ dids'[d].by = dids[d].by
      BY <1>1, <1>3, <1>6 DEF Clean
    <3>4. \A g \in Handler : Op(g) = "softDelete" /\ Target(g) = d /\ pc'[g] = "document" =>
            /\ local'[g][1].by # None /\ ~Updating(local'[g][1].by)
            /\ Clean(d)' => local'[g][1].by = dids'[d].by
      BY <1>5, <2>4, <3>3 DEF About, Kept
    <3> QED BY <1>3, <1>6, <2>3, <3>2, <3>4 DEF Kept
  <2>10. Deleted(d)'
    BY <1>3, <2>3 DEF Deleted
  <2>11. Follows(d)'
    BY <1>1, <1>5, <1>7, <2>2 DEF About, Follows
  <2> QED BY <2>2, <2>5, <2>6, <2>7, <2>8, <2>9, <2>10, <2>11 DEF About
<1>10. \A g \in Handler \ {h} : Waiting(g) /\ Harmless(g)
  <2> SUFFICES ASSUME NEW g \in Handler \ {h} PROVE Waiting(g) /\ Harmless(g)
    OBVIOUS
  <2>1. \A e \in DID : (e = d => Clean(d)) => Unharmed(e)
    BY <1>1, <1>3, <1>6 DEF Unharmed, Stored, Whole
  <2>2. Target(g) \in DID /\ request[g].dids \subseteq DID
    BY RequestType, <1>5 DEF ServiceTypeOK
  <2>3. Op(g) = "batch" => \A e \in request[g].dids : Clean(e)
    BY RequestType, <1>5 DEF ServiceTypeOK, Clean
  <2> QED BY <1>1, <1>4, <2>1, <2>2, <2>3 DEF Waiting, Harmless
<1>11. Phase(h)'
  BY <1>4 DEF Phase
<1>12. Creation(h)' /\ Batch(h)' /\ Revocation(h)'
  BY <1>1, OtherRequests DEF Creating
<1> QED BY <1>8, <1>9, <1>10, <1>11, <1>12, StepKeeps DEF Acts

------------------------------------------------------------------------------
\* Updates: the list a handler holds is marked with what the network answered.
LEMMA Marking ==
  ASSUME ServiceTypeOK, \A g \in Handler : Phase(g), NEW h \in Handler, NEW d \in DID,
         d = Target(h), pc[h] = "anchor",
         NEW status \in {"Anchored", "AnchorError"}, Mark(h, status), GoTo(h, "record"),
         UNCHANGED <<request, reply, states>>
  PROVE  /\ Op(h) = "update" /\ Holds(h, d) /\ Last(local[h]) \in Records(d)
         /\ pc'[h] = "record" /\ \A g \in Handler \ {h} : pc'[g] = pc[g] /\ local'[g] = local[g]
         /\ Last(local'[h]).status = status /\ Last(local'[h]).op = Last(local[h]).op
         /\ Last(local'[h]).signed = Last(local[h]).signed /\ Last(local'[h]).doc = Last(local[h]).doc
         /\ \A g \in Handler \ {h} : (Holds(g, d)' <=> Holds(g, d)) /\ (InHand(g, d)' <=> InHand(g, d))
         /\ Holds(h, d)' /\ ~InHand(h, d) /\ (InHand(h, d)' <=> status = "Anchored")
         /\ \A y \in Records(d)' : \E x \in Records(d) :
              /\ y.op = x.op /\ y.signed = x.signed /\ y.doc = x.doc
              /\ y.status = x.status \/ (y.status = status /\ x = Last(local[h]))
         /\ Phase(h)'
<1>1. local[h] \in Seq(Recorded) /\ local[h] # <<>> /\ Op(h) = "update"
  BY DEF Phase
<1>2. /\ pc'[h] = "record" /\ \A g \in Handler \ {h} : pc'[g] = pc[g]
      /\ Op(h)' = Op(h) /\ Target(h)' = d
      /\ \A g \in Handler : Op(g)' = Op(g) /\ Target(g)' = Target(g)
  BY DEF GoTo, ServiceTypeOK, Op, Target
<1>3. /\ local'[h] = Marked(local[h], status)
      /\ \A g \in Handler \ {h} : local'[g] = local[g]
  BY DEF Mark, Marked, ServiceTypeOK
<1>4. PICK old : old = local[h]
  OBVIOUS
<1>5. PICK new : new = local'[h]
  OBVIOUS
<1>6. /\ new \in Seq(Recorded) /\ new # <<>> /\ DOMAIN new = DOMAIN old
      /\ Last(new).status = status /\ Last(new).op = Last(old).op
      /\ Last(new).signed = Last(old).signed /\ Last(new).doc = Last(old).doc
      /\ \A i \in DOMAIN old :
           new[i] = old[i] \/ (i = Len(old) /\ new[i] = [old[i] EXCEPT !.status = status])
  <2>1. new = Marked(old, status) /\ old \in Seq(Recorded) /\ old # <<>>
    BY <1>1, <1>3, <1>4, <1>5
  <2>2. status \in {"PreAnchor", "Anchored", "AnchorError", "Done"}
    OBVIOUS
  <2> QED BY <2>1, <2>2, MarkedType
<1>7. Holds(h, d) /\ Holds(h, d)' /\ ~InHand(h, d) /\ (InHand(h, d)' <=> status = "Anchored")
  BY <1>1, <1>2, <1>5, <1>6 DEF Holds, InHand
<1>8. \A g \in Handler \ {h} : (Holds(g, d)' <=> Holds(g, d)) /\ (InHand(g, d)' <=> InHand(g, d))
  BY <1>2, <1>3 DEF Holds, InHand
<1>9. Last(old) \in Records(d)
  BY <1>4, <1>7, RecordType
<1>10. ASSUME NEW y \in Records(d)'
       PROVE  \E x \in Records(d) :
                /\ y.op = x.op /\ y.signed = x.signed /\ y.doc = x.doc
                /\ y.status = x.status \/ (y.status = status /\ x = Last(old))
  <2>1. \/ \E i \in DOMAIN states[d] : y = states[d][i]
        \/ \E g \in Handler : Holds(g, d)' /\ \E i \in DOMAIN local'[g] : y = local'[g][i]
    BY <1>10 DEF Records
  <2>2. CASE y \in Records(d)
    BY <2>2
  <2>3. CASE \E i \in DOMAIN new : y = new[i]
    <3>1. PICK i \in DOMAIN old : y = new[i]
      BY <1>6, <2>3
    <3>2. old[i] \in Records(d) /\ old[i] \in Recorded
      BY <1>4, <1>7, RecordsOf, RecordType
    <3>3. CASE y = old[i]
      BY <3>2, <3>3
    <3>4. CASE i = Len(old) /\ y = [old[i] EXCEPT !.status = status]
      <4>1. old[i] = Last(old)
        BY <3>4 DEF Last
      <4>2. y.op = old[i].op /\ y.signed = old[i].signed /\ y.doc = old[i].doc /\ y.status = status
        BY <3>2, <3>4 DEF Recorded
      <4> QED BY <3>2, <4>1, <4>2
    <3> QED BY <1>6, <3>1, <3>3, <3>4
  <2>4. (\E i \in DOMAIN states[d] : y = states[d][i]) => y \in Records(d)
    BY RecordsOf
  <2>5. \A g \in Handler \ {h} :
          (Holds(g, d)' /\ \E i \in DOMAIN local'[g] : y = local'[g][i]) => y \in Records(d)
    BY <1>3, <1>8, RecordsOf
  <2> QED BY <1>5, <2>1, <2>2, <2>3, <2>4, <2>5
<1>11. Phase(h)'
  BY <1>1, <1>2, <1>5, <1>6 DEF Phase
<1> QED BY <1>1, <1>2, <1>3, <1>4, <1>5, <1>6, <1>7, <1>8, <1>9, <1>10, <1>11

\* The network takes an update: it was signed with the key kept, so nothing else is unapplied.
LEMMA AnchorTakenKeeps ==
  ASSUME SInv, NEW h \in Handler, AnchorTaken(h)
  PROVE  SInv'
<1>0. PICK d \in DID : d = Target(h)
  BY RequestType DEF SInv, ServiceTypeOK
<1>1. PICK x0 : x0 = Last(local[h])
  OBVIOUS
<1>2. /\ pc[h] = "anchor" /\ x0.signed = network[d].next
      /\ network' = [network EXCEPT ![d] = [ops |-> @.ops \cup {x0.op}, next |-> x0.op]]
      /\ GoTo(h, "record")
      /\ UNCHANGED <<request, reply, public, private, storing, dids, states, overlapped, since>>
  BY <1>0, <1>1 DEF AnchorTaken, history
<1>3. PICK status \in {"Anchored", "AnchorError"} : Mark(h, status)
  BY DEF AnchorTaken, ErrorStatus
<1>4. /\ Op(h) = "update" /\ Holds(h, d) /\ x0 \in Records(d)
      /\ pc'[h] = "record" /\ \A g \in Handler \ {h} : pc'[g] = pc[g] /\ local'[g] = local[g]
      /\ Last(local'[h]).status = status /\ Last(local'[h]).op = x0.op
      /\ Last(local'[h]).signed = x0.signed /\ Last(local'[h]).doc = x0.doc
      /\ \A g \in Handler \ {h} : (Holds(g, d)' <=> Holds(g, d)) /\ (InHand(g, d)' <=> InHand(g, d))
      /\ Holds(h, d)' /\ ~InHand(h, d) /\ (InHand(h, d)' <=> status = "Anchored")
      /\ \A y \in Records(d)' : \E x \in Records(d) :
           /\ y.op = x.op /\ y.signed = x.signed /\ y.doc = x.doc
           /\ y.status = x.status \/ (y.status = status /\ x = x0)
      /\ Phase(h)'
  BY <1>0, <1>1, <1>2, <1>3, Marking DEF SInv
<1>5. /\ request \in Workload /\ Touched(d) /\ About(d) /\ Chain(d) /\ ServiceTypeOK
      /\ \A g \in Handler : Phase(g)
  BY <1>0, <1>4, CreatorMakes DEF SInv, ServiceTypeOK, About
<1>6. /\ network'[d].ops = Taken(d) \cup {x0.op} /\ network'[d].next = x0.op
      /\ Taken(d)' = Taken(d) \cup {x0.op}
      /\ \A e \in DID \ {d} : network'[e] = network[e]
  BY <1>2, <1>5 DEF ServiceTypeOK, Taken
<1>7. \A x \in Records(d) : x \in Recorded /\ x.op \in Handler
  BY <1>5, RecordType DEF Recorded
<1>8. UpdateKey(d) = network[d].next /\ ~Unapplied(d)
  BY <1>2, <1>4, <1>5 DEF Chain
<1>9. x0.op \notin Taken(d) /\ Updating(x0.op)
  BY <1>2, <1>4, <1>5, <1>7 DEF Chain, Updating
<1>10. /\ UpdateKey(d) # x0.op /\ network[d].next # x0.op
       /\ \A x \in Records(d) : x.signed # x0.op
       /\ \A s \in {UpdateKey(d), network[d].next} \cup {x.signed : x \in Records(d)} :
            s \in Taken(d) \/ ~Updating(s)
  BY <1>5, <1>8, <1>9 DEF Chain
<1>11. \A g \in Handler : ~InHand(g, d) /\ ~InStore(d)
  BY <1>8 DEF Unapplied
<1>12. /\ \A s : Op(s)' = Op(s) /\ Target(s)' = Target(s) /\ (Updating(s)' <=> Updating(s))
       /\ (Touched(d)' <=> Touched(d)) /\ UpdateKey(d)' = UpdateKey(d) /\ Status(d)' = Status(d)
       /\ (InStore(d)' <=> InStore(d)) /\ (Has(d)' <=> Has(d)) /\ (Clean(d)' <=> Clean(d))
       /\ \A id : Stored(id)' <=> Stored(id)
  BY <1>2 DEF Op, Target, Updating, Touched, UpdateKey, Status, InStore, Has, Clean, Stored
<1>13. Chain(d)'
  <2>1. \A y \in Records(d)' :
           /\ y.signed # x0.op
           /\ Op(y.op)' = "update" /\ pc'[y.op] # "begin"
    BY <1>4, <1>5, <1>7, <1>10, <1>12 DEF Chain
  <2>2. Stored(<<d, "update">>)' /\ Stored(<<d, "staging">>)'
    BY <1>4, <1>5, <1>12 DEF Chain
  <2>3. ~InStore(d)' /\ \A g \in Handler : InHand(g, d)' => g = h /\ Last(local'[g]).op = x0.op
    BY <1>4, <1>11, <1>12
  <2>4. UpdateKey(d)' # network'[d].next
    BY <1>6, <1>10, <1>12
  <2>5. \A s \in ({UpdateKey(d), network[d].next} \cup {x.signed : x \in Records(d)})' :
          s \in Taken(d)' \/ ~Updating(s)'
    BY <1>4, <1>6, <1>10, <1>12
  <2>6. \A g \in Taken(d)' : pc'[g] # "begin"
    <3>1. \A g \in Taken(d) : pc[g] # "begin" /\ g \in Handler
      BY <1>5 DEF Chain, ServiceTypeOK, Taken
    <3>2. pc[x0.op] # "begin" /\ x0.op \in Handler
      BY <1>4, <1>5, <1>7 DEF Chain
    <3> QED BY <1>4, <1>6, <3>1, <3>2
  <2> QED BY <1>6, <2>1, <2>2, <2>3, <2>4, <2>5, <2>6 DEF Chain
<1>14. \A g \in Handler : Op(g) = "softDelete" => pc'[g] = pc[g] /\ local'[g] = local[g]
  BY <1>4
<1>15. Behind(d)'
  <2>1. \A y \in Records(d)' :
          /\ y.status \in {"Anchored", "Done"} => y.op \in Taken(d)'
          /\ y.doc.ops \subseteq Taken(d)' \cup {y.op}
    BY <1>4, <1>5, <1>6 DEF About, Behind
  <2> QED BY <1>2, <1>5, <1>6, <1>12, <1>14, <2>1 DEF About, Behind
<1>16. Keyed(d)'
  BY <1>5, <1>12 DEF About, Keyed
<1>17. Kept(d)'
  BY <1>2, <1>4, <1>5, <1>12, <1>14 DEF About, Kept
<1>18. Deleted(d)'
  <2>1. \A y \in Records(d)' :
          /\ y.doc.deleted => \A g \in since[d] : Op(g) = "update"
          /\ y.signed # network'[d].next
    BY <1>4, <1>5, <1>6, <1>10 DEF About, Deleted
  <2>2. dids[d].deleted /\ x0.op \in since[d] => x0.doc.deleted
    BY <1>2, <1>4, <1>5 DEF About, Deleted
  <2>3. \A g \in Handler : dids[d].deleted /\ InHand(g, d)' /\ Last(local'[g]).op \in since[d] =>
          Last(local'[g]).doc.deleted
    BY <1>4, <1>11, <2>2
  <2> QED BY <1>2, <1>5, <1>11, <1>12, <2>1, <2>3 DEF About, Deleted
<1>19. Follows(d)'
  <2> SUFFICES ASSUME d \notin overlapped PROVE Follows(d)'
    BY <1>2 DEF Follows
  <2>1. Follows(d)
    BY <1>5 DEF About
  <2>2. Writing(d)' \subseteq Writing(d)
    BY <1>2, <1>4, <1>0 DEF Writing, Target, Op
  <2>3. Status(d) = "PreAnchor" /\ x0.op = Last(states[d]).op
    BY <1>1, <1>4, <2>1 DEF Follows
  <2>4. \A g \in Handler : Holds(g, d)' => Last(local'[g]).op = Last(states[d]).op
    BY <1>4, <2>1, <2>3 DEF Follows
  <2> QED BY <1>2, <1>12, <2>1, <2>2, <2>3, <2>4 DEF Follows
<1>20. About(d)'
  BY <1>5, <1>12, <1>13, <1>15, <1>16, <1>17, <1>18, <1>19 DEF About
<1>21. \A e \in DID \ {d} : About(e)'
  <2> SUFFICES ASSUME NEW e \in DID \ {d} PROVE About(e)'
    OBVIOUS
  <2>1. Writing(e)' \subseteq Writing(e)
    BY <1>2, <1>4 DEF Writing, Target
  <2>2. Still(e)
    BY <1>0, <1>2, <1>4, <1>6, <1>12, <2>1 DEF Still, Steady
  <2> QED BY <1>5, <2>2, StillKeeps DEF SInv
<1>22. \A g \in Handler \ {h} : Waiting(g) /\ Harmless(g)
  <2> SUFFICES ASSUME NEW g \in Handler \ {h} PROVE Waiting(g) /\ Harmless(g)
    OBVIOUS
  <2>1. \A e \in DID : Unharmed(e)
    <3>1. Stored(<<d, "update">>)
      BY <1>4, <1>5 DEF Chain
    <3> QED BY <1>2, <1>6, <3>1 DEF Unharmed, Stored, Whole
  <2>2. Target(g) \in DID /\ request[g].dids \subseteq DID
    BY <1>5, RequestType
  <2> QED BY <1>2, <1>4, <2>1, <2>2 DEF Waiting, Harmless
<1>23. Creation(h)' /\ Batch(h)' /\ Revocation(h)'
  BY <1>2, <1>4, OtherRequests DEF Creating
<1> QED BY <1>4, <1>20, <1>21, <1>22, <1>23, StepKeeps DEF Acts

\* The network takes nothing, and the update is marked so.
LEMMA AnchorFailsKeeps ==
  ASSUME SInv, NEW h \in Handler, AnchorFails(h)
  PROVE  SInv'
<1>0. PICK d \in DID : d = Target(h)
  BY RequestType DEF SInv, ServiceTypeOK
<1>1. PICK x0 : x0 = Last(local[h])
  OBVIOUS
<1>2. /\ pc[h] = "anchor" /\ Mark(h, "AnchorError") /\ GoTo(h, "record")
      /\ UNCHANGED <<request, reply, public, private, storing, dids, states, network, overlapped, since>>
  BY DEF AnchorFails, ErrorStatus, history
<1>3. /\ Op(h) = "update" /\ Holds(h, d) /\ x0 \in Records(d)
      /\ pc'[h] = "record" /\ \A g \in Handler \ {h} : pc'[g] = pc[g] /\ local'[g] = local[g]
      /\ Last(local'[h]).op = x0.op
      /\ \A g \in Handler \ {h} : (Holds(g, d)' <=> Holds(g, d)) /\ (InHand(g, d)' <=> InHand(g, d))
      /\ ~InHand(h, d)'
      /\ \A y \in Records(d)' : \E x \in Records(d) :
           /\ y.op = x.op /\ y.signed = x.signed /\ y.doc = x.doc
           /\ y.status = x.status \/ (y.status = "AnchorError" /\ x = x0)
      /\ Phase(h)'
  BY <1>0, <1>1, <1>2, Marking DEF SInv
<1>4. /\ request \in Workload /\ Touched(d) /\ About(d) /\ Chain(d) /\ ServiceTypeOK
      /\ \A g \in Handler : Phase(g)
  BY <1>0, <1>3, CreatorMakes DEF SInv, ServiceTypeOK, About
<1>5. \A x \in Records(d) : x.op \in Handler
  BY <1>4, RecordType DEF Recorded
<1>6. /\ \A s : Op(s)' = Op(s) /\ Target(s)' = Target(s) /\ (Updating(s)' <=> Updating(s))
      /\ (Touched(d)' <=> Touched(d)) /\ UpdateKey(d)' = UpdateKey(d) /\ Status(d)' = Status(d)
      /\ (InStore(d)' <=> InStore(d)) /\ (Has(d)' <=> Has(d)) /\ (Clean(d)' <=> Clean(d))
      /\ Taken(d)' = Taken(d) /\ \A id : Stored(id)' <=> Stored(id)
  BY <1>2 DEF Op, Target, Updating, Touched, UpdateKey, Status, InStore, Has, Clean, Stored, Taken
<1>7. \A g \in Handler : InHand(g, d)' => InHand(g, d) /\ local'[g] = local[g]
  BY <1>3
<1>8. Chain(d)'
  <2>1. \A y \in Records(d)' :
           /\ y.signed = network[d].next => y.op \notin Taken(d)
           /\ Op(y.op)' = "update" /\ pc'[y.op] # "begin"
    BY <1>3, <1>4, <1>5, <1>6 DEF Chain
  <2>2. Stored(<<d, "update">>)' /\ Stored(<<d, "staging">>)'
    BY <1>3, <1>4, <1>6 DEF Chain
  <2>3. Unapplied(d)' => Unapplied(d)
    BY <1>6, <1>7 DEF Unapplied
  <2>4. /\ Unapplied(d)' => UpdateKey(d) # network[d].next
        /\ UpdateKey(d) # network[d].next => \A y \in Records(d)' : y.signed # network[d].next
    BY <1>3, <1>4, <2>3 DEF Chain
  <2>5. (UpdateKey(d) = network[d].next \/ Unapplied(d)') =>
         \A s \in ({UpdateKey(d), network[d].next} \cup {x.signed : x \in Records(d)})' :
            s \in Taken(d) \/ ~Updating(s)
    <3>1. \A s \in ({UpdateKey(d), network[d].next} \cup {x.signed : x \in Records(d)})' :
            s \in {UpdateKey(d), network[d].next} \cup {x.signed : x \in Records(d)}
      BY <1>2, <1>3, <1>6
    <3> QED BY <1>4, <2>3, <3>1 DEF Chain
  <2>6. \A g \in Taken(d)' : pc'[g] # "begin"
    <3>1. \A g \in Taken(d) : pc[g] # "begin" /\ g \in Handler
      BY <1>4 DEF Chain, ServiceTypeOK, Taken
    <3> QED BY <1>3, <1>6, <3>1
  <2>7. /\ InStore(d)' => Last(states[d])'.op = network'[d].next /\ \A g \in Handler : ~InHand(g, d)'
        /\ \A g \in Handler : InHand(g, d)' =>
             Last(local[g])'.op = network'[d].next /\ \A k \in Handler : InHand(k, d)' => k = g
    BY <1>2, <1>4, <1>6, <1>7 DEF Chain
  <2> QED BY <1>2, <1>6, <2>1, <2>2, <2>4, <2>5, <2>6, <2>7 DEF Chain
<1>9. \A g \in Handler : Op(g) = "softDelete" => pc'[g] = pc[g] /\ local'[g] = local[g]
  BY <1>3
<1>10. Behind(d)'
  <2>1. \A y \in Records(d)' :
          /\ y.status \in {"Anchored", "Done"} => y.op \in Taken(d)'
          /\ y.doc.ops \subseteq Taken(d)' \cup {y.op}
    BY <1>3, <1>4, <1>6 DEF About, Behind
  <2> QED BY <1>2, <1>4, <1>6, <1>9, <2>1 DEF About, Behind
<1>11. Keyed(d)'
  BY <1>4, <1>6 DEF About, Keyed
<1>12. Kept(d)'
  BY <1>2, <1>3, <1>4, <1>6, <1>9 DEF About, Kept
<1>13. Deleted(d)'
  <2>1. \A y \in Records(d)' :
          /\ y.doc.deleted => \A g \in since[d] : Op(g) = "update"
          /\ dids[d].deleted /\ y.op \in since[d] /\ y.signed = network[d].next => y.doc.deleted
    BY <1>3, <1>4 DEF About, Deleted
  <2>2. \A g \in Handler : dids[d].deleted /\ InHand(g, d)' /\ Last(local'[g]).op \in since[d] =>
          Last(local'[g]).doc.deleted
    BY <1>4, <1>7 DEF About, Deleted
  <2> QED BY <1>2, <1>4, <1>6, <2>1, <2>2 DEF About, Deleted
<1>14. Follows(d)'
  <2> SUFFICES ASSUME d \notin overlapped PROVE Follows(d)'
    BY <1>2 DEF Follows
  <2>1. Follows(d)
    BY <1>4 DEF About
  <2>2. Writing(d)' \subseteq Writing(d)
    BY <1>2, <1>3, <1>0 DEF Writing, Target, Op
  <2>3. Status(d) = "PreAnchor" /\ x0.op = Last(states[d]).op
    BY <1>1, <1>3, <2>1 DEF Follows
  <2>4. \A g \in Handler : Holds(g, d)' => Last(local'[g]).op = Last(states[d]).op
    BY <1>3, <2>1, <2>3 DEF Follows
  <2> QED BY <1>2, <1>6, <2>1, <2>2, <2>3, <2>4 DEF Follows
<1>15. About(d)'
  BY <1>4, <1>6, <1>8, <1>10, <1>11, <1>12, <1>13, <1>14 DEF About
<1>16. \A e \in DID \ {d} : About(e)'
  <2> SUFFICES ASSUME NEW e \in DID \ {d} PROVE About(e)'
    OBVIOUS
  <2>1. Writing(e)' \subseteq Writing(e)
    BY <1>2, <1>3 DEF Writing, Target
  <2>2. Still(e)
    BY <1>0, <1>2, <1>3, <1>6, <2>1 DEF Still, Steady
  <2> QED BY <1>4, <2>2, StillKeeps DEF SInv
<1>17. \A g \in Handler \ {h} : Waiting(g) /\ Harmless(g)
  BY <1>2, <1>3, CalmHarmless DEF Calm, Waiting
<1>18. Creation(h)' /\ Batch(h)' /\ Revocation(h)'
  BY <1>2, <1>3, OtherRequests DEF Creating
<1> QED BY <1>3, <1>15, <1>16, <1>17, <1>18, StepKeeps DEF Acts

\* The list is written back: who overlapped with it held nothing the network had taken.
LEMMA RecordAnchorKeeps ==
  ASSUME SInv, NEW h \in Handler, RecordAnchor(h)
  PROVE  SInv'
<1>0. PICK d \in DID : d = Target(h)
  BY RequestType DEF SInv, ServiceTypeOK
<1>1. /\ pc[h] = "record" /\ states' = [states EXCEPT ![d] = local[h]]
      /\ UNCHANGED <<request, public, private, storing, dids, network, local, overlapped, since>>
  BY <1>0 DEF RecordAnchor, history
<1>2. /\ Op(h) = "update" /\ Holds(h, d) /\ local[h] \in Seq(Recorded) /\ local[h] # <<>>
      /\ Last(local[h]).status \in {"Anchored", "AnchorError"}
  BY <1>0, <1>1 DEF SInv, Phase, Holds
<1>3. /\ pc'[h] \in {"ended", "apply"} /\ \A g \in Handler \ {h} : pc'[g] = pc[g] /\ reply'[g] = reply[g]
  <2>1. Respond(h, 500) \/ (GoTo(h, "apply") /\ UNCHANGED reply)
    BY DEF RecordAnchor
  <2> QED BY <2>1, Answer DEF GoTo, SInv, ServiceTypeOK, Replies, Steps
<1>4. /\ request \in Workload /\ Touched(d) /\ About(d) /\ Chain(d) /\ ServiceTypeOK
      /\ \A g \in Handler : Phase(g)
  BY <1>0, <1>2, CreatorMakes DEF SInv, ServiceTypeOK, About
<1>5. states'[d] = local[h] /\ \A e \in DID \ {d} : states'[e] = states[e]
  BY <1>1, <1>4 DEF ServiceTypeOK
<1>6. /\ \A s : Op(s)' = Op(s) /\ Target(s)' = Target(s) /\ (Updating(s)' <=> Updating(s))
      /\ (Touched(d)' <=> Touched(d)) /\ UpdateKey(d)' = UpdateKey(d)
      /\ (Has(d)' <=> Has(d)) /\ (Clean(d)' <=> Clean(d))
      /\ Taken(d)' = Taken(d) /\ \A id : Stored(id)' <=> Stored(id)
  BY <1>1 DEF Op, Target, Updating, Touched, UpdateKey, Has, Clean, Stored, Taken
<1>7. /\ ~Holds(h, d)'
      /\ \A g \in Handler \ {h} : (Holds(g, d)' <=> Holds(g, d)) /\ (InHand(g, d)' <=> InHand(g, d))
  BY <1>1, <1>3, <1>6 DEF Holds, InHand
<1>8. Records(d)' \subseteq Records(d)
  <2> SUFFICES ASSUME NEW y \in Records(d)' PROVE y \in Records(d)
    OBVIOUS
  <2>1. \/ \E i \in DOMAIN local[h] : y = local[h][i]
        \/ \E g \in Handler : Holds(g, d)' /\ \E i \in DOMAIN local[g] : y = local[g][i]
    BY <1>1, <1>5 DEF Records
  <2> QED BY <1>2, <1>7, <2>1, RecordsOf
<1>9. Status(d)' = Last(local[h]).status /\ (InStore(d)' <=> InHand(h, d)) /\ ~InHand(h, d)'
  BY <1>1, <1>2, <1>5, <1>7 DEF Status, InStore, InHand
<1>10. Unapplied(d)' => Unapplied(d)
  BY <1>7, <1>9 DEF Unapplied
<1>11. \A x \in Records(d) : x.op \in Handler
  BY <1>4, RecordType DEF Recorded
<1>12. Chain(d)'
  <2>1. \A y \in Records(d)' :
           /\ y.signed = network[d].next => y.op \notin Taken(d)
           /\ Op(y.op)' = "update" /\ pc'[y.op] # "begin"
    <3>1. \A g \in Handler : pc'[g] = "begin" => pc[g] = "begin"
      BY <1>1, <1>3
    <3> QED BY <1>4, <1>6, <1>8, <1>11, <3>1 DEF Chain
  <2>2. Records(d)' # {} => Stored(<<d, "update">>)' /\ Stored(<<d, "staging">>)'
    BY <1>4, <1>6, <1>8 DEF Chain
  <2>3. /\ Unapplied(d)' => UpdateKey(d) # network[d].next
        /\ UpdateKey(d) # network[d].next => \A y \in Records(d)' : y.signed # network[d].next
    BY <1>4, <1>8, <1>10 DEF Chain
  <2>4. (UpdateKey(d) = network[d].next \/ Unapplied(d)') =>
         \A s \in ({UpdateKey(d), network[d].next} \cup {x.signed : x \in Records(d)})' :
            s \in Taken(d) \/ ~Updating(s)
    <3>1. \A s \in ({UpdateKey(d), network[d].next} \cup {x.signed : x \in Records(d)})' :
            s \in {UpdateKey(d), network[d].next} \cup {x.signed : x \in Records(d)}
      BY <1>1, <1>6, <1>8
    <3> QED BY <1>4, <1>10, <3>1 DEF Chain
  <2>5. \A g \in Taken(d)' : pc'[g] # "begin"
    <3>1. \A g \in Taken(d) : pc[g] # "begin" /\ g \in Handler
      BY <1>4 DEF Chain, ServiceTypeOK, Taken
    <3> QED BY <1>3, <1>6, <3>1
  <2>6. /\ InStore(d)' => Last(states[d])'.op = network'[d].next /\ \A g \in Handler : ~InHand(g, d)'
        /\ \A g \in Handler : InHand(g, d)' =>
             Last(local[g])'.op = network'[d].next /\ \A k \in Handler : InHand(k, d)' => k = g
    BY <1>1, <1>4, <1>5, <1>7, <1>9 DEF Chain
  <2> QED BY <1>1, <1>6, <2>1, <2>2, <2>3, <2>4, <2>5, <2>6 DEF Chain
<1>13. \A g \in Handler : Op(g) = "softDelete" => pc'[g] = pc[g] /\ local'[g] = local[g]
  BY <1>1, <1>2, <1>3
<1>14. Behind(d)'
  BY <1>1, <1>4, <1>6, <1>8, <1>13 DEF About, Behind
<1>15. Keyed(d)'
  BY <1>4, <1>6 DEF About, Keyed
<1>16. Kept(d)'
  BY <1>1, <1>4, <1>6, <1>8, <1>13 DEF About, Kept
<1>17. Deleted(d)'
  <2>1. InStore(d)' /\ dids[d].deleted /\ Last(states'[d]).op \in since[d] => Last(states'[d]).doc.deleted
    BY <1>2, <1>4, <1>5, <1>9 DEF About, Deleted
  <2>2. \A g \in Handler : dids[d].deleted /\ InHand(g, d)' /\ Last(local[g]).op \in since[d] =>
          Last(local[g]).doc.deleted
    BY <1>4, <1>7, <1>9 DEF About, Deleted
  <2> QED BY <1>1, <1>4, <1>6, <1>8, <2>1, <2>2 DEF About, Deleted
<1>18. Follows(d)'
  <2> SUFFICES ASSUME d \notin overlapped PROVE Follows(d)'
    BY <1>1 DEF Follows
  <2>1. Follows(d)
    BY <1>4 DEF About
  <2>2. Writing(d)' \subseteq Writing(d)
    BY <1>1, <1>3, <1>6 DEF Writing, Target
  <2>3. Status(d) = "PreAnchor" /\ Last(local[h]).op = Last(states[d]).op
    BY <1>2, <2>1 DEF Follows
  <2>4. \A g \in Handler : ~Holds(g, d)'
    <3>1. \A g \in Handler : Holds(g, d) => g \in Writing(d)
      BY DEF Holds, Writing, Op
    <3> QED BY <1>2, <1>7, <2>1, <3>1 DEF Follows
  <2>5. states[d] # <<>>
    BY <2>3 DEF Status
  <2> QED BY <1>1, <1>2, <1>4, <1>5, <1>9, <2>1, <2>2, <2>3, <2>4, <2>5 DEF Follows
<1>19. About(d)'
  BY <1>4, <1>6, <1>12, <1>14, <1>15, <1>16, <1>17, <1>18 DEF About
<1>20. \A e \in DID \ {d} : About(e)'
  <2> SUFFICES ASSUME NEW e \in DID \ {d} PROVE About(e)'
    OBVIOUS
  <2>1. Writing(e)' \subseteq Writing(e)
    BY <1>1, <1>3 DEF Writing, Target
  <2>2. Still(e)
    BY <1>0, <1>1, <1>3, <1>5, <1>6, <2>1 DEF Still, Steady
  <2> QED BY <1>4, <2>2, StillKeeps DEF SInv
<1>21. \A g \in Handler \ {h} : Waiting(g) /\ Harmless(g)
  BY <1>1, <1>3, CalmHarmless DEF Calm, Waiting
<1>22. Phase(h)'
  BY <1>1, <1>2, <1>3, <1>6 DEF Phase
<1>23. Creation(h)' /\ Batch(h)' /\ Revocation(h)'
  BY <1>1, <1>2, OtherRequests DEF Creating
<1> QED BY <1>19, <1>20, <1>21, <1>22, <1>23, StepKeeps DEF Acts

\* The update that is applied is the one the network took last.
LEMMA FinishesKeeps ==
  ASSUME SInv, KeysApart, NEW h \in Handler, Finishes(h)
  PROVE  SInv'
<1>0. PICK d \in DID : d = Target(h)
  BY RequestType DEF SInv, ServiceTypeOK
<1>a. PICK x0 : x0 = Last(states[d])
  OBVIOUS
<1>b. PICK key : key = private[<<d, "staging">>].secret
  OBVIOUS
<1>1. /\ pc[h] = "apply" /\ InStore(d) /\ Op(h) = "update"
      /\ StoreInTransaction({<<d, "update">>}, NewKey(key))
      /\ dids' = [dids EXCEPT ![d] = x0.doc]
      /\ states' = [states EXCEPT ![d] = Marked(states[d], "Done")]
      /\ UNCHANGED <<request, storing, network, local, overlapped, since>>
  BY <1>0, <1>a, <1>b
     DEF Finishes, ApplyUpdate, Finish, Marked, InStore, history, SInv, Phase
<1>2. pc'[h] = "ended" /\ \A g \in Handler \ {h} : pc'[g] = pc[g] /\ reply'[g] = reply[g]
  <2>1. Respond(h, SuccessOf(Op(h))) /\ SuccessOf(Op(h)) \in Replies
    BY Success DEF Finishes, ApplyUpdate, Succeed, Op, SInv, ServiceTypeOK
  <2> QED BY <2>1, Answer DEF SInv, ServiceTypeOK
<1>3. /\ request \in Workload /\ Touched(d) /\ About(d) /\ Chain(d) /\ ServiceTypeOK
      /\ \A g \in Handler : Phase(g)
  BY <1>0, <1>1, CreatorMakes DEF SInv, ServiceTypeOK, About
<1>4. states[d] \in Seq(Recorded) /\ states[d] # <<>> /\ x0 \in Records(d) /\ x0 \in Recorded
  <2>1. states[d] \in Seq(Recorded) /\ states[d] # <<>>
    BY <1>1, <1>3 DEF InStore, Status, ServiceTypeOK
  <2> QED BY <1>3, <1>a, <2>1, RecordType
<1>c. PICK new : new = Marked(states[d], "Done")
  OBVIOUS
<1>5. /\ new # <<>> /\ DOMAIN new = DOMAIN states[d]
      /\ Last(new).status = "Done" /\ Last(new).op = x0.op
      /\ \A i \in DOMAIN new :
           new[i] = states[d][i] \/ (states[d][i] = x0 /\ new[i] = [x0 EXCEPT !.status = "Done"])
  <2>1. \A i \in DOMAIN states[d] : i = Len(states[d]) => states[d][i] = x0
    BY <1>a DEF Last
  <2>2. new # <<>> /\ DOMAIN new = DOMAIN states[d]
    BY <1>4, <1>c, MarkedType
  <2>3. Last(new).status = "Done" /\ Last(new).op = Last(states[d]).op
    BY <1>4, <1>c, MarkedType
  <2>4. \A i \in DOMAIN states[d] :
          \/ new[i] = states[d][i]
          \/ i = Len(states[d]) /\ new[i] = [states[d][i] EXCEPT !.status = "Done"]
    BY <1>4, <1>c, MarkedType
  <2> QED BY <1>a, <2>1, <2>2, <2>3, <2>4
<1>6. states'[d] = new /\ \A e \in DID \ {d} : states'[e] = states[e]
  BY <1>1, <1>3, <1>c DEF ServiceTypeOK
<1>7. dids'[d] = x0.doc /\ \A e \in DID \ {d} : dids'[e] = dids[e]
  BY <1>1, <1>3 DEF ServiceTypeOK
<1>8. /\ NewKey(key).secret = key /\ ~NewKey(key).revoked
      /\ \A e \in DID : \A u \in Use : e # d \/ u # "update" =>
           public'[<<e, u>>] = public[<<e, u>>] /\ private'[<<e, u>>] = private[<<e, u>>]
      /\ public'[<<d, "update">>] = key /\ private'[<<d, "update">>] = NewKey(key)
  <2>1. NewKey(key).secret = key /\ ~NewKey(key).revoked
    BY DEF NewKey
  <2>2. \A e \in DID : \A u \in Use : <<e, u>> \in KeyId
    BY KeyIds
  <2>3. "update" \in Use
    BY DEF Use
  <2> QED BY <1>1, <2>1, <2>2, <2>3 DEF StoreInTransaction
<1>9. Stored(<<d, "update">>) /\ Stored(<<d, "staging">>) /\ key # None
  BY <1>3, <1>4, <1>b DEF Chain, Stored
<1>10. /\ x0.op = network[d].next /\ UpdateKey(d) # network[d].next
       /\ \A x \in Records(d) : x.signed # network[d].next
       /\ \A g \in Handler : ~InHand(g, d)
       /\ \A s \in {UpdateKey(d), network[d].next} \cup {x.signed : x \in Records(d)} :
            s \in Taken(d) \/ ~Updating(s)
       /\ x0.op \in Taken(d)
  <2>1. Unapplied(d) /\ x0.status = "Anchored"
    BY <1>1, <1>4, <1>a DEF Unapplied, InStore, Status
  <2> QED BY <1>1, <1>3, <1>4, <1>a, <2>1 DEF Chain, About, Behind
<1>11. /\ \A s : Op(s)' = Op(s) /\ Target(s)' = Target(s) /\ (Updating(s)' <=> Updating(s))
       /\ (Touched(d)' <=> Touched(d)) /\ (Clean(d)' <=> Clean(d)) /\ Taken(d)' = Taken(d)
       /\ UpdateKey(d)' = key
  BY <1>1, <1>8 DEF Op, Target, Updating, Touched, UpdateKey, Clean, Taken
<1>12. \A g \in Handler : (Holds(g, d)' => Holds(g, d)) /\ ~InHand(g, d)'
  BY <1>1, <1>2, <1>10, <1>11 DEF Holds, InHand
<1>13. \A y \in Records(d)' : \E x \in Records(d) :
         /\ y.op = x.op /\ y.signed = x.signed /\ y.doc = x.doc
         /\ y.status = x.status \/ y.op = x0.op
  <2> SUFFICES ASSUME NEW y \in Records(d)'
               PROVE \E x \in Records(d) :
                       /\ y.op = x.op /\ y.signed = x.signed /\ y.doc = x.doc
                       /\ y.status = x.status \/ y.op = x0.op
    OBVIOUS
  <2>1. \/ \E i \in DOMAIN new : y = new[i]
        \/ \E g \in Handler : Holds(g, d)' /\ \E i \in DOMAIN local[g] : y = local[g][i]
    BY <1>1, <1>6 DEF Records
  <2>2. CASE y \in Records(d)
    BY <2>2
  <2>3. (\E g \in Handler : Holds(g, d)' /\ \E i \in DOMAIN local[g] : y = local[g][i])
        => y \in Records(d)
    BY <1>12, RecordsOf
  <2>4. ASSUME NEW i \in DOMAIN new, y = new[i]
        PROVE  y \in Records(d) \/ y = [x0 EXCEPT !.status = "Done"]
    BY <1>5, <2>4, RecordsOf
  <2>5. CASE y = [x0 EXCEPT !.status = "Done"]
    <3>1. y.op = x0.op /\ y.signed = x0.signed /\ y.doc = x0.doc
      BY <1>4, <2>5 DEF Recorded
    <3> QED BY <1>4, <3>1
  <2> QED BY <2>1, <2>2, <2>3, <2>4, <2>5
<1>14. Status(d)' = "Done" /\ ~InStore(d)' /\ ~Unapplied(d)' /\ Last(states'[d]).op = x0.op
  <2>1. Status(d)' = "Done"
    BY <1>5, <1>6 DEF Status
  <2> QED BY <1>5, <1>6, <1>12, <2>1 DEF InStore, Unapplied
<1>15. Stored(<<d, "update">>)' /\ (Stored(<<d, "staging">>)' <=> Stored(<<d, "staging">>))
  BY <1>8, <1>9 DEF Stored, Use
<1>16. \A x \in Records(d) : x.op \in Handler
  BY <1>3, RecordType DEF Recorded
<1>17. Chain(d)'
  <2>1. \A y \in Records(d)' : y.signed # network[d].next /\ Op(y.op)' = "update" /\ pc'[y.op] # "begin"
    <3>1. \A g \in Handler : pc'[g] = "begin" => pc[g] = "begin"
      BY <1>1, <1>2
    <3> QED BY <1>3, <1>10, <1>11, <1>13, <1>16, <3>1 DEF Chain
  <2>2. Stored(<<d, "update">>)' /\ Stored(<<d, "staging">>)'
    BY <1>9, <1>15
  <2>3. UpdateKey(d)' = network[d].next =>
         \A s \in ({UpdateKey(d), network[d].next} \cup {x.signed : x \in Records(d)})' :
            s \in Taken(d) \/ ~Updating(s)
    <3>1. UpdateKey(d)' = network[d].next =>
            \A s \in ({UpdateKey(d), network[d].next} \cup {x.signed : x \in Records(d)})' :
              s \in {UpdateKey(d), network[d].next} \cup {x.signed : x \in Records(d)}
      BY <1>1, <1>13
    <3> QED BY <1>10, <3>1
  <2>4. \A g \in Taken(d)' : pc'[g] # "begin"
    <3>1. \A g \in Taken(d) : pc[g] # "begin" /\ g \in Handler
      BY <1>3 DEF Chain, ServiceTypeOK, Taken
    <3> QED BY <1>2, <1>11, <3>1
  <2> QED BY <1>1, <1>11, <1>12, <1>14, <2>1, <2>2, <2>3, <2>4 DEF Chain
<1>18. \A g \in Handler : Op(g) = "softDelete" => pc'[g] = pc[g] /\ local'[g] = local[g]
  BY <1>1, <1>2
<1>19. Behind(d)'
  <2>1. \A y \in Records(d)' :
          /\ y.status \in {"Anchored", "Done"} => y.op \in Taken(d)'
          /\ y.doc.ops \subseteq Taken(d)' \cup {y.op}
    BY <1>3, <1>10, <1>11, <1>13 DEF About, Behind
  <2>2. dids'[d].ops \subseteq Taken(d)'
    BY <1>3, <1>4, <1>7, <1>10, <1>11 DEF About, Behind
  <2> QED BY <1>3, <1>11, <1>18, <2>1, <2>2 DEF About, Behind
<1>20. dids'[d].by = dids[d].by /\ Has(d) /\ Has(d)'
  BY <1>3, <1>4, <1>7 DEF About, Kept, Has
<1>21. Keyed(d)'
  <2>1. Method[d] = "ion"
    BY <1>3, <1>9 DEF About, Keyed
  <2> QED BY <1>20, <2>1 DEF Keyed
<1>22. Kept(d)'
  <2>1. \A y \in Records(d)' : y.doc.by = dids'[d].by
    BY <1>3, <1>13, <1>20 DEF About, Kept
  <2> QED BY <1>3, <1>11, <1>18, <1>20, <2>1 DEF About, Kept
<1>23. Deleted(d)'
  <2>1. \A y \in Records(d)' :
          /\ y.doc.deleted => \A g \in since[d] : Op(g) = "update"
          /\ y.signed # network[d].next
    BY <1>3, <1>10, <1>13 DEF About, Deleted
  <2>2. dids'[d].deleted => \A g \in since[d] : Op(g) = "update"
    BY <1>3, <1>4, <1>7 DEF About, Deleted
  <2> QED BY <1>1, <1>11, <1>12, <1>14, <1>20, <2>1, <2>2 DEF Deleted
<1>24. Follows(d)'
  <2> SUFFICES ASSUME d \notin overlapped PROVE Follows(d)'
    BY <1>1 DEF Follows
  <2>1. Follows(d)
    BY <1>3 DEF About
  <2>2. Writing(d)' \subseteq Writing(d)
    BY <1>1, <1>2 DEF Writing, Target
  <2>3. \A g \in Handler : ~Holds(g, d)
    BY <1>1, <2>1 DEF Follows, InStore
  <2>4. key = x0.op /\ private'[<<d, "staging">>].secret = key
    <3>1. key = x0.op
      BY <1>3, <1>4, <1>a, <1>b, <2>1 DEF Follows
    <3>2. private'[<<d, "staging">>] = private[<<d, "staging">>]
      BY <1>8 DEF Use
    <3> QED BY <1>b, <3>1, <3>2
  <2> QED BY <1>1, <1>10, <1>11, <1>12, <1>14, <2>1, <2>2, <2>3, <2>4 DEF Follows
<1>25. About(d)'
  BY <1>3, <1>11, <1>17, <1>19, <1>21, <1>22, <1>23, <1>24 DEF About
<1>26. \A e \in DID \ {d} : About(e)'
  <2> SUFFICES ASSUME NEW e \in DID \ {d} PROVE About(e)'
    OBVIOUS
  <2>1. Writing(e)' \subseteq Writing(e)
    BY <1>1, <1>2 DEF Writing, Target
  <2>2. \A u \in Use : private'[<<e, u>>] = private[<<e, u>>]
    BY <1>8
  <2>3. Still(e)
    BY <1>0, <1>1, <1>2, <1>6, <1>7, <2>1, <2>2 DEF Still, Steady, Stored, Use
  <2> QED BY <1>3, <2>3, StillKeeps DEF SInv
<1>27. \A g \in Handler \ {h} : Waiting(g) /\ Harmless(g)
  <2> SUFFICES ASSUME NEW g \in Handler \ {h} PROVE Waiting(g) /\ Harmless(g)
    OBVIOUS
  <2>1. \A e \in DID : Unharmed(e)
    <3> SUFFICES ASSUME NEW e \in DID PROVE Unharmed(e)
      OBVIOUS
    <3>1. dids'[e].by = dids[e].by
      BY <1>7, <1>20
    <3>2. \A u \in UsesOf(e) : e # d \/ u # "update" =>
            public'[<<e, u>>] = public[<<e, u>>] /\ private'[<<e, u>>] = private[<<e, u>>]
      BY <1>8, Uses
    <3>3. CASE e # d
      BY <1>1, <3>1, <3>2, <3>3 DEF Unharmed, Stored, Whole
    <3>4. CASE e = d
      <4>1. \A u \in UsesOf(d) : u # "update" =>
              /\ Stored(<<d, u>>)' <=> Stored(<<d, u>>)
              /\ Whole(d, u) => Whole(d, u)'
              /\ public'[<<d, u>>] = public[<<d, u>>]
        BY <3>1, <3>2, <3>4 DEF Stored, Whole
      <4>2. Whole(d, "update")'
        BY <1>8, <1>15 DEF Whole
      <4> QED BY <1>1, <1>9, <1>15, <3>1, <3>4, <4>1, <4>2 DEF Unharmed
    <3> QED BY <3>3, <3>4
  <2>2. Target(g) \in DID /\ request[g].dids \subseteq DID
    BY <1>3, RequestType
  <2> QED BY <1>1, <1>2, <2>1, <2>2 DEF Waiting, Harmless
<1>28. Phase(h)'
  BY <1>2 DEF Phase
<1>29. Creation(h)' /\ Batch(h)' /\ Revocation(h)'
  BY <1>1, OtherRequests DEF Creating
<1> QED BY <1>25, <1>26, <1>27, <1>28, <1>29, StepKeeps DEF Acts

\* A list and one more update.
LEMMA Appended ==
  ASSUME NEW s \in Seq(Recorded), NEW x \in Recorded
  PROVE  /\ Append(s, x) \in Seq(Recorded) /\ Append(s, x) # <<>> /\ Last(Append(s, x)) = x
         /\ \A i \in DOMAIN Append(s, x) :
              Append(s, x)[i] = x \/ (i \in DOMAIN s /\ Append(s, x)[i] = s[i])
<1>1. Append(s, x) \in Seq(Recorded) /\ Append(s, x) # <<>> /\ Len(Append(s, x)) = Len(s) + 1
  BY AppendProperties
<1>2. Append(s, x)[Len(s) + 1] = x /\ \A i \in 1..Len(s) : Append(s, x)[i] = s[i]
  BY AppendProperties
<1>3. DOMAIN Append(s, x) = 1..(Len(s) + 1) /\ DOMAIN s = 1..Len(s) /\ Len(s) \in Nat
  BY <1>1, LenProperties
<1>4. \A i \in 1..(Len(s) + 1) : i = Len(s) + 1 \/ i \in 1..Len(s)
  BY <1>3
<1>5. Last(Append(s, x)) = x
  BY <1>1, <1>2 DEF Last
<1> QED BY <1>1, <1>2, <1>3, <1>4, <1>5

\* A new update is signed with the key kept, so the network takes it only if it has
\* taken nothing that is not applied; one that is taken up is in the store already.
LEMMA PrepareUpdateKeeps ==
  ASSUME SInv, KeysApart, NEW h \in Handler, PrepareUpdate(h)
  PROVE  SInv'
<1>0. PICK d \in DID : d = Target(h)
  BY RequestType DEF SInv, ServiceTypeOK
<1>a. PICK U : U = Update(h, d)
  OBVIOUS
<1>b. PICK list : list = IF Settled(d) THEN Append(states[d], U) ELSE states[d]
  OBVIOUS
<1>1. /\ pc[h] = "begin" /\ Op(h) = "update" /\ Stored(<<d, "update">>)
      /\ Settled(d) => Has(d)
      /\ local' = [local EXCEPT ![h] = list]
      /\ states' = [states EXCEPT ![d] = list]
      /\ PutAside(h, d)
      /\ GoTo(h, IF Last(list).status = "PreAnchor" THEN "anchor" ELSE "apply")
      /\ AnswerMethod(h)
      /\ overlapped' = IF Writing(d) = {} THEN overlapped ELSE overlapped \cup {d}
      /\ since' = [since EXCEPT ![d] = @ \cup {h}]
      /\ UNCHANGED <<request, storing, dids, network>>
  BY <1>0, <1>a, <1>b DEF PrepareUpdate, Begin, Op
<1>2. /\ request \in Workload /\ Touched(d) /\ About(d) /\ Chain(d) /\ ServiceTypeOK
      /\ \A g \in Handler : Phase(g)
  BY <1>0, <1>1, CreatorMakes DEF SInv, ServiceTypeOK, About
<1>3. /\ pc'[h] = (IF Last(list).status = "PreAnchor" THEN "anchor" ELSE "apply")
      /\ pc'[h] \in {"anchor", "apply"}
      /\ \A g \in Handler \ {h} : pc'[g] = pc[g] /\ reply'[g] = reply[g] /\ local'[g] = local[g]
      /\ local'[h] = list
  BY <1>1, <1>2 DEF GoTo, AnswerMethod, ServiceTypeOK
<1>4. /\ U \in Recorded /\ U.status = "PreAnchor" /\ U.op = h /\ U.signed = UpdateKey(d)
      /\ U.doc.by = dids[d].by /\ U.doc.deleted = dids[d].deleted
      /\ U.doc.ops = dids[d].ops \cup {h}
  <2>1. <<d, "update">> \in KeyId
    BY KeyIds DEF Use
  <2>2. dids[d] \in Document /\ private[<<d, "update">>] \in PrivateKey
    BY <1>2, <2>1 DEF ServiceTypeOK
  <2> QED BY <1>a, <2>2 DEF Update, UpdateKey, Recorded, Document, PrivateKey
<1>5. /\ list \in Seq(Recorded) /\ list # <<>>
      /\ Settled(d) => Last(list) = U
      /\ ~Settled(d) => list = states[d] /\ Status(d) = Last(states[d]).status
      /\ \A i \in DOMAIN list : list[i] \in Records(d) \/ (Settled(d) /\ list[i] = U)
  <2>1. states[d] \in Seq(Recorded)
    BY <1>2 DEF ServiceTypeOK
  <2>2. CASE Settled(d)
    BY <1>4, <1>b, <2>1, <2>2, Appended, RecordsOf
  <2>3. CASE ~Settled(d)
    <3>1. states[d] # <<>>
      BY <2>3 DEF Settled, Status
    <3> QED BY <1>b, <2>1, <2>3, <3>1, RecordsOf DEF Status
  <2> QED BY <2>2, <2>3
<1>6. /\ states'[d] = list /\ \A e \in DID \ {d} : states'[e] = states[e]
      /\ since'[d] = since[d] \cup {h} /\ \A e \in DID \ {d} : since'[e] = since[e]
      /\ \A e \in DID : e \in overlapped => e \in overlapped'
  BY <1>1, <1>2 DEF ServiceTypeOK
<1>7. Status(d)' = (IF Settled(d) THEN "PreAnchor" ELSE Status(d))
  BY <1>4, <1>5, <1>6 DEF Status
<1>8. ~Settled(d) => Status(d) \in {"PreAnchor", "Anchored"} /\ Last(states[d]) \in Recorded
  <2>1. states[d] # <<>> => Last(states[d]) \in Recorded
    BY <1>2, RecordType
  <2> QED BY <2>1 DEF Settled, Status, Recorded
<1>9. /\ \A e \in DID : \A u \in Use : e # d \/ u # "staging" =>
           public'[<<e, u>>] = public[<<e, u>>] /\ private'[<<e, u>>] = private[<<e, u>>]
      /\ Settled(d) => private'[<<d, "staging">>] = NewKey(h)
      /\ ~Settled(d) => private' = private
  <2>1. \A e \in DID : \A u \in Use : <<e, u>> \in KeyId
    BY KeyIds
  <2>2. "staging" \in Use
    BY DEF Use
  <2> QED BY <1>1, <2>1, <2>2 DEF PutAside, StoreInTransaction, keyVars
<1>10. /\ \A s : Op(s)' = Op(s) /\ Target(s)' = Target(s) /\ (Updating(s)' <=> Updating(s))
       /\ (Touched(d)' <=> Touched(d)) /\ Taken(d)' = Taken(d)
       /\ UpdateKey(d)' = UpdateKey(d)
       /\ Stored(<<d, "update">>)'
  BY <1>1, <1>9 DEF Op, Target, Updating, Touched, UpdateKey, Taken, Stored, Use
<1>11. Method[d] = "ion" /\ Has(d) /\ Has(d)'
  <2>1. Keyed(d) /\ "update" \in Use
    BY <1>2 DEF About, Use
  <2>2. Method[d] = "ion"
    BY <1>1, <1>2, <2>1 DEF Keyed
  <2>3. Has(d)
    BY <1>1, <1>2, <2>1, <2>2 DEF Keyed, Clean
  <2> QED BY <1>1, <2>2, <2>3 DEF Has
<1>12. /\ InStore(d)' <=> InStore(d)
       /\ InStore(d) => Last(states'[d]) = Last(states[d]) /\ Last(states[d]) \in Records(d)
       /\ \A g \in Handler : (InHand(g, d)' <=> InHand(g, d))
                             /\ (InHand(g, d) => g # h /\ Last(local'[g]) = Last(local[g]))
       /\ \A g \in Handler \ {h} : Holds(g, d)' => Holds(g, d)
       /\ Unapplied(d)' <=> Unapplied(d)
  <2>1. InStore(d)' <=> InStore(d)
    BY <1>7 DEF InStore, Settled
  <2>2. InStore(d) => Last(states'[d]) = Last(states[d]) /\ Last(states[d]) \in Records(d)
    <3>1. InStore(d) => ~Settled(d) /\ states[d] # <<>>
      BY DEF InStore, Settled, Status
    <3> QED BY <1>2, <1>5, <1>6, <3>1, RecordType
  <2>3. \A g \in Handler : (InHand(g, d)' <=> InHand(g, d))
                           /\ (InHand(g, d) => g # h /\ Last(local'[g]) = Last(local[g]))
    BY <1>1, <1>3, <1>10 DEF InHand, Holds
  <2>4. \A g \in Handler \ {h} : Holds(g, d)' => Holds(g, d)
    BY <1>3, <1>10 DEF Holds
  <2> QED BY <2>1, <2>2, <2>3, <2>4 DEF Unapplied
<1>13. \A x \in Records(d)' : x \in Records(d) \/ (Settled(d) /\ x = U)
  <2> SUFFICES ASSUME NEW x \in Records(d)' PROVE x \in Records(d) \/ (Settled(d) /\ x = U)
    OBVIOUS
  <2>1. \/ \E i \in DOMAIN list : x = list[i]
        \/ \E g \in Handler \ {h} : Holds(g, d)' /\ \E i \in DOMAIN local[g] : x = local[g][i]
    BY <1>3, <1>6 DEF Records
  <2> QED BY <1>5, <1>12, <2>1, RecordsOf
<1>14. \A x \in Records(d) : x.op \in Handler /\ x.op # h
  BY <1>1, <1>2, RecordType DEF Recorded, Chain
<1>15. Chain(d)'
  <2>1. Stored(<<d, "update">>)' /\ Stored(<<d, "staging">>)'
    <3>1. CASE Settled(d)
      BY <1>9, <1>10, <3>1, DIDAssumption DEF Stored, NewKey
    <3>2. CASE ~Settled(d)
      <4>1. Last(states[d]) \in Records(d)
        BY <1>2, <1>5, <3>2, RecordType
      <4> QED BY <1>2, <1>9, <1>10, <3>2, <4>1 DEF Stored, Chain
    <3> QED BY <3>1, <3>2
  <2>2. /\ InStore(d)' => Last(states'[d]).op = network[d].next /\ \A g \in Handler : ~InHand(g, d)'
        /\ \A f \in Handler : InHand(f, d)' =>
             Last(local'[f]).op = network[d].next /\ \A g \in Handler : InHand(g, d)' => g = f
    BY <1>2, <1>12 DEF Chain
  <2>3. Unapplied(d)' => UpdateKey(d)' # network[d].next
    BY <1>2, <1>10, <1>12 DEF Chain
  <2>4. UpdateKey(d)' # network[d].next => \A x \in Records(d)' : x.signed # network[d].next
    BY <1>2, <1>4, <1>10, <1>13 DEF Chain
  <2>5. (UpdateKey(d)' = network[d].next \/ Unapplied(d)') =>
         \A s \in ({UpdateKey(d), network[d].next} \cup {x.signed : x \in Records(d)})' :
            s \in Taken(d) \/ ~Updating(s)
    <3>1. \A s \in ({UpdateKey(d), network[d].next} \cup {x.signed : x \in Records(d)})' :
            s \in {UpdateKey(d), network[d].next} \cup {x.signed : x \in Records(d)}
      BY <1>1, <1>4, <1>10, <1>13
    <3> QED BY <1>2, <1>10, <1>12, <3>1 DEF Chain
  <2>6. \A g \in Taken(d) : pc[g] # "begin" /\ g \in Handler /\ pc'[g] # "begin"
    BY <1>2, <1>3 DEF Chain, ServiceTypeOK, Taken
  <2>7. \A x \in Records(d)' :
          /\ x.signed = network[d].next => x.op \notin Taken(d)
          /\ Op(x.op)' = "update" /\ pc'[x.op] # "begin"
    BY <1>1, <1>2, <1>3, <1>4, <1>10, <1>13, <1>14, <2>6 DEF Chain
  <2> QED BY <1>1, <1>10, <2>1, <2>2, <2>3, <2>4, <2>5, <2>6, <2>7 DEF Chain
<1>16. \A g \in Handler : Op(g) = "softDelete" => pc'[g] = pc[g] /\ local'[g] = local[g]
  BY <1>1, <1>3
<1>17. Behind(d)'
  <2>1. \A x \in Records(d)' :
          /\ x.status \in {"Anchored", "Done"} => x.op \in Taken(d)
          /\ x.doc.ops \subseteq Taken(d) \cup {x.op}
    BY <1>2, <1>4, <1>13 DEF About, Behind
  <2> QED BY <1>1, <1>2, <1>10, <1>16, <2>1 DEF About, Behind
<1>18. Keyed(d)' /\ (Clean(d)' => Clean(d))
  BY <1>11 DEF Keyed, Clean
<1>19. Kept(d)'
  <2>1. \A x \in Records(d)' : x.doc.by = dids[d].by
    BY <1>2, <1>4, <1>13 DEF About, Kept
  <2> QED BY <1>1, <1>2, <1>10, <1>11, <1>16, <1>18, <2>1 DEF About, Kept
<1>20. Deleted(d)'
  <2>1. \A x \in Records(d)' : x.doc.deleted => \A g \in since'[d] : Op(g) = "update"
    BY <1>1, <1>2, <1>4, <1>6, <1>13 DEF About, Deleted
  <2>2. dids[d].deleted => \A g \in since'[d] : Op(g) = "update"
    BY <1>1, <1>2, <1>6 DEF About, Deleted
  <2>3. dids[d].deleted => \A x \in Records(d)' :
          x.op \in since'[d] /\ x.signed = network[d].next => x.doc.deleted
    BY <1>2, <1>4, <1>6, <1>13, <1>14 DEF About, Deleted
  <2>4. dids[d].deleted /\ InStore(d)' /\ Last(states'[d]).op \in since'[d] =>
          Last(states'[d]).doc.deleted
    BY <1>2, <1>6, <1>12, <1>14 DEF About, Deleted
  <2>5. \A g \in Handler : dids[d].deleted /\ InHand(g, d)' /\ Last(local'[g]).op \in since'[d] =>
          Last(local'[g]).doc.deleted
    <3>1. \A g \in Handler : InHand(g, d) => Last(local[g]) \in Records(d)
      BY <1>2, RecordType DEF InHand
    <3> QED BY <1>2, <1>6, <1>12, <1>14, <3>1 DEF About, Deleted
  <2> QED BY <1>1, <1>10, <1>11, <2>1, <2>2, <2>3, <2>4, <2>5 DEF Deleted
<1>21. Follows(d)'
  <2> SUFFICES ASSUME d \notin overlapped' PROVE Follows(d)'
    BY DEF Follows
  <2>1. Writing(d) = {} /\ d \notin overlapped /\ Follows(d)
    BY <1>1, <1>2, <1>6 DEF About
  <2>2. \A g \in Writing(d)' : g = h
    BY <1>3, <1>10, <2>1 DEF Writing, Op
  <2>3. \A g \in Handler : Holds(g, d)' => g = h /\ Last(list).status = "PreAnchor"
    <3>1. \A g \in Handler : Holds(g, d)' => g \in Writing(d)'
      BY DEF Holds, Writing, Op
    <3> QED BY <1>3, <2>2, <3>1 DEF Holds
  <2>4. private'[<<d, "staging">>].secret = Last(list).op
    BY <1>2, <1>4, <1>5, <1>9, <2>1 DEF NewKey, Follows
  <2>5. Status(d)' # "Done" /\ Status(d)' = Last(list).status
    BY <1>4, <1>5, <1>7, <1>8
  <2> QED BY <1>3, <1>6, <2>2, <2>3, <2>4, <2>5 DEF Follows
<1>22. About(d)'
  BY <1>2, <1>10, <1>15, <1>17, <1>18, <1>19, <1>20, <1>21 DEF About
<1>23. \A e \in DID \ {d} : About(e)'
  <2> SUFFICES ASSUME NEW e \in DID \ {d} PROVE About(e)'
    OBVIOUS
  <2>1. Writing(e)' \subseteq Writing(e)
    BY <1>0, <1>1, <1>3 DEF Writing, Target
  <2>2. \A u \in Use : private'[<<e, u>>] = private[<<e, u>>]
    BY <1>9
  <2>3. Still(e)
    BY <1>0, <1>1, <1>3, <1>6, <2>1, <2>2 DEF Still, Steady, Stored, Use
  <2> QED BY <1>2, <2>3, StillKeeps DEF SInv
<1>24. \A g \in Handler \ {h} : Waiting(g) /\ Harmless(g)
  <2> SUFFICES ASSUME NEW g \in Handler \ {h} PROVE Waiting(g) /\ Harmless(g)
    OBVIOUS
  <2>1. \A e \in DID : Unharmed(e)
    <3> SUFFICES ASSUME NEW e \in DID PROVE Unharmed(e)
      OBVIOUS
    <3>1. \A u \in UsesOf(e) : u \in Use /\ u # "staging"
      BY DEF UsesOf, Use
    <3>2. \A u \in UsesOf(e) :
            public'[<<e, u>>] = public[<<e, u>>] /\ private'[<<e, u>>] = private[<<e, u>>]
      BY <1>9, <3>1
    <3> QED BY <1>1, <1>6, <3>2 DEF Unharmed, Stored, Whole
  <2>2. Target(g) \in DID /\ request[g].dids \subseteq DID
    BY <1>2, RequestType
  <2> QED BY <1>1, <1>3, <1>6, <2>1, <2>2 DEF Waiting, Harmless
<1>25. Phase(h)'
  BY <1>1, <1>3, <1>5, <1>10 DEF Phase
<1>26. Creation(h)' /\ Batch(h)' /\ Revocation(h)'
  BY <1>1, OtherRequests DEF Creating
<1> QED BY <1>22, <1>23, <1>24, <1>25, <1>26, StepKeeps DEF Acts

------------------------------------------------------------------------------
\* Stores that are empty or hold DIDs with all their keys.
LEMMA InitSInv ==
  ASSUME Init
  PROVE  SInv
<1> DEFINE Known(id, S) == id[1] \in S /\ id[2] \in UsesOf(id[1])
<1>1. PICK here \in {{}, Existing} :
        /\ \A h \in Handler : Op(h) = "createIon" => Target(h) \notin here
        /\ dids = [d \in DID |-> IF d \in here THEN Doc(Old) ELSE NoDoc]
        /\ public = [id \in KeyId |-> IF Known(id, here) THEN Old ELSE None]
        /\ private = [id \in KeyId |-> IF Known(id, here) THEN NewKey(Old) ELSE NoKey]
        /\ network = [d \in DID |->
             [ops |-> {}, next |-> IF d \in here /\ Method[d] = "ion" THEN Old ELSE None]]
  BY DEF Init, Op
<1>2. /\ request \in Workload
      /\ \A h \in Handler : pc[h] = "begin" /\ reply[h] = 0 /\ storing[h] = <<>> /\ local[h] = <<>>
      /\ \A d \in DID : states[d] = <<>> /\ since[d] = {}
      /\ overlapped = {}
  BY DEF Init
<1>3. \A d \in DID :
        /\ d \in here => dids[d] = Doc(Old) /\ Has(d)
        /\ d \notin here => dids[d] = NoDoc /\ ~Has(d)
        /\ ~Updating(dids[d].by) /\ dids[d].ops = {} /\ ~dids[d].deleted
  BY <1>1, DIDAssumption DEF Doc, NoDoc, Has, Updating
<1>4. \A d \in DID : \A u \in Use :
        /\ Stored(<<d, u>>) <=> d \in here /\ u \in UsesOf(d)
        /\ private[<<d, u>>] = IF d \in here /\ u \in UsesOf(d) THEN NewKey(Old) ELSE NoKey
  <2>1. \A d \in DID : \A u \in Use :
          private[<<d, u>>] = IF d \in here /\ u \in UsesOf(d) THEN NewKey(Old) ELSE NoKey
    BY <1>1, KeyIds
  <2>2. NewKey(Old).secret = Old /\ NoKey.secret = None /\ Old # None
    BY DIDAssumption DEF NewKey, NoKey
  <2> QED BY <2>1, <2>2 DEF Stored
<1>5. ServiceTypeOK
  <2>1. pc \in [Handler -> Steps] /\ reply \in [Handler -> Replies]
    BY DEF Init, Steps, Replies
  <2>2. storing \in [Handler -> Seq([id : KeyId, key : PrivateKey])]
        /\ local \in [Handler -> Seq(Recorded) \cup Seq(Document)]
        /\ states \in [DID -> Seq(Recorded)]
    <3>1. /\ <<>> \in Seq([id : KeyId, key : PrivateKey])
          /\ <<>> \in Seq(Recorded)
      BY EmptySeq
    <3> QED BY <3>1 DEF Init
  <2>3. public \in [KeyId -> Secret] /\ private \in [KeyId -> PrivateKey]
    BY <1>1 DEF Secret, PrivateKey, NewKey, NoKey
  <2>4. dids \in [DID -> Document] /\ network \in [DID -> [ops : SUBSET Handler, next : Secret]]
    BY <1>1 DEF Document, Doc, NoDoc, Secret
  <2>5. overlapped \in SUBSET DID /\ since \in [DID -> SUBSET Handler]
    BY DEF Init
  <2> QED BY <1>2, <2>1, <2>2, <2>3, <2>4, <2>5 DEF ServiceTypeOK
<1>6. \A h \in Handler : Phase(h)
  BY <1>2 DEF Phase
<1>7. \A h \in Handler : Op(h) \in Creating \cup {"batch"} =>
        /\ Op(h) \in Creating /\ Method[Target(h)] # "web" => ~Has(Target(h))
        /\ Op(h) = "batch" => \A d \in request[h].dids : ~Has(d)
  <2> SUFFICES ASSUME NEW h \in Handler, Op(h) \in Creating \cup {"batch"}
               PROVE  /\ Op(h) \in Creating /\ Method[Target(h)] # "web" => ~Has(Target(h))
                      /\ Op(h) = "batch" => \A d \in request[h].dids : ~Has(d)
    OBVIOUS
  <2>1. here \subseteq Existing /\ Target(h) \in DID /\ request[h].dids \subseteq DID
    BY <1>1, <1>2, RequestType
  <2>2. \A d \in DID : Makes(request[h], d) /\ Op(h) \in {"createKey", "batch"} => d \notin here
    BY <1>2, <2>1, WorkloadAssumption DEF Op
  <2>3. Op(h) = "batch" => \A d \in request[h].dids : ~Has(d)
    BY <1>2, <1>3, <2>1, <2>2, CreatorMakes
  <2>4. Op(h) = "createKey" => ~Has(Target(h))
    BY <1>2, <1>3, <2>1, <2>2, CreatorMakes DEF Creating
  <2>5. Op(h) = "createIon" => ~Has(Target(h))
    BY <1>1, <1>3, <2>1
  <2>6. Op(h) = "createWeb" => Method[Target(h)] = "web"
    BY <1>2, RequestType
  <2> QED BY <2>3, <2>4, <2>5, <2>6 DEF Creating
<1>8. \A h \in Handler : Creation(h) /\ Batch(h) /\ Revocation(h)
  <2> SUFFICES ASSUME NEW h \in Handler PROVE Creation(h) /\ Batch(h) /\ Revocation(h)
    OBVIOUS
  <2>1. pc[h] = "begin" /\ reply[h] = 0 /\ ~Keeping(h) /\ \A u : ~Pending(h, u)
    BY <1>2 DEF Keeping, Pending
  <2>2. Creation(h)
    BY <1>7, <2>1 DEF Creation
  <2>3. Batch(h) /\ Revocation(h)
    BY <1>7, <2>1 DEF Batch, Revocation
  <2> QED BY <2>2, <2>3
<1>9. \A d \in DID : About(d)
  <2> SUFFICES ASSUME NEW d \in DID PROVE About(d)
    OBVIOUS
  <2>1. Records(d) = {} /\ Status(d) = "none" /\ ~Unapplied(d) /\ \A h \in Handler : ~Holds(h, d)
    BY <1>2 DEF Records, Holds, Status, Unapplied, InStore, InHand
  <2>2. UpdateKey(d) = network[d].next /\ ~Updating(network[d].next) /\ Taken(d) = {}
    <3>1. "update" \in Use /\ ("update" \in UsesOf(d) <=> Method[d] = "ion")
      BY DEF Use, UsesOf
    <3>2. network[d].next = (IF d \in here /\ Method[d] = "ion" THEN Old ELSE None) /\ Taken(d) = {}
      BY <1>1 DEF Taken
    <3> QED BY <1>4, <3>1, <3>2, DIDAssumption DEF UpdateKey, NewKey, NoKey, Updating
  <2>3. Chain(d)
    BY <2>1, <2>2 DEF Chain, Unapplied, InHand
  <2>4. Behind(d) /\ Kept(d)
    BY <1>2, <1>3, <2>1 DEF Behind, Kept
  <2>5. Keyed(d)
    BY <1>3, <1>4 DEF Keyed, UsesOf, Use
  <2>6. Deleted(d)
    BY <1>3, <2>1 DEF Deleted
  <2>7. Follows(d)
    BY <1>2, <2>1 DEF Follows, Writing
  <2> QED BY <2>1, <2>3, <2>4, <2>5, <2>6, <2>7 DEF About
<1> QED BY <1>5, <1>6, <1>8, <1>9 DEF SInv

\* Nothing happens.
LEMMA StutterKeeps ==
  ASSUME SInv, UNCHANGED vars
  PROVE  SInv'
<1>1. /\ UNCHANGED <<request, pc, reply, public, private, storing, dids, states, network, local>>
      /\ UNCHANGED <<overlapped, since>>
  BY DEF vars, history
<1>2. ServiceTypeOK'
  BY <1>1 DEF SInv, ServiceTypeOK
<1>3. \A d \in DID : About(d)'
  <2> SUFFICES ASSUME NEW d \in DID PROVE About(d)'
    OBVIOUS
  <2>1. Writing(d)' \subseteq Writing(d)
    BY <1>1 DEF Writing, Target
  <2>2. Still(d)
    BY <1>1, <2>1 DEF Still, Steady, Stored
  <2> QED BY <2>2, StillKeeps DEF SInv
<1>4. \A g \in Handler : Phase(g)' /\ Creation(g)' /\ Batch(g)' /\ Revocation(g)'
  <2> SUFFICES ASSUME NEW g \in Handler PROVE Phase(g)' /\ Creation(g)' /\ Batch(g)' /\ Revocation(g)'
    OBVIOUS
  <2>1. Waiting(g) /\ Harmless(g)
    BY <1>1, CalmHarmless DEF Calm, Waiting
  <2>2. Keyed(Target(g))
    BY RequestType DEF SInv, ServiceTypeOK, About
  <2> QED BY <1>1, <2>1, <2>2, WaitingKeeps DEF SInv
<1> QED BY <1>2, <1>3, <1>4 DEF SInv

\* Every step keeps the invariant.
LEMMA NextKeeps ==
  ASSUME SInv, KeysApart, [Next]_vars
  PROVE  SInv'
<1>1. CASE UNCHANGED vars
  BY <1>1, StutterKeeps
<1>2. CASE Next
  <2>1. CASE Done
    BY <2>1, StutterKeeps DEF Done
  <2>2. ASSUME NEW h \in Handler, Step(h) \/ Stop(h) PROVE SInv'
    <3>1. Acts(h)
      BY <2>2, StepActs DEF SInv
    <3>2. CASE End(h)
      BY <3>2, EndKeeps
    <3>3. CASE AnchoredInVain(h) \/ CreateKey(h) \/ StartWeb(h) \/ CreateIon(h)
      BY <3>3, AnchoredInVainKeeps, StartKeeps
    <3>4. CASE StoreDID(h) \/ BatchCreateDIDs(h)
      BY <3>4, StoreDIDKeeps, BatchKeeps
    <3>5. CASE PrepareUpdate(h) \/ AnchorTaken(h) \/ AnchorFails(h) \/ RecordAnchor(h) \/ Finishes(h)
      BY <3>5, PrepareUpdateKeeps, AnchorTakenKeeps, AnchorFailsKeeps, RecordAnchorKeeps, FinishesKeeps
    <3>6. CASE ReadToDelete(h) \/ WriteDeleted(h)
      BY <3>6, ReadToDeleteKeeps, WriteDeletedKeeps
    <3>7. CASE StartStoring(h) \/ StartRevoking(h) \/ Publishing(h) \/ Keeps(h)
      BY <3>7, StartKeyKeeps, PublishingKeeps, KeepsKeeps
    <3> QED BY <3>1, <3>2, <3>3, <3>4, <3>5, <3>6, <3>7 DEF Acts
  <2> QED BY <1>2, <2>1, <2>2 DEF Next
<1> QED BY <1>1, <1>2

------------------------------------------------------------------------------
\* Who answers 201: the requests that make something.
Answered == \A h \in Handler : reply[h] = 201 => Op(h) \in Creating \cup {"batch", "storeKey"}

\* A handler answers for itself, and 201 only for what makes something.
LEMMA OwnAnswer ==
  ASSUME SInv, NEW h \in Handler, Acts(h)
  PROVE  /\ request' = request
         /\ \A g \in Handler \ {h} : reply'[g] = reply[g]
         /\ reply'[h] = 201 /\ reply[h] # 201 => Op(h) \in Creating \cup {"batch", "storeKey"}
<1>1. /\ request' = request /\ request \in Workload
      /\ reply \in [Handler -> Replies] /\ pc \in [Handler -> Steps]
      /\ \A g \in Handler : Phase(g) /\ Creation(g)
  BY TypeKept DEF SInv, ServiceTypeOK
<1>2. ASSUME Succeed(h), Op(h) \in Creating \cup {"batch", "storeKey", "update", "revokeKey", "softDelete"}
      PROVE  /\ \A g \in Handler \ {h} : reply'[g] = reply[g]
             /\ reply'[h] = 201 /\ reply[h] # 201 => Op(h) \in Creating \cup {"batch", "storeKey"}
  BY <1>1, <1>2, Success, Answer DEF Succeed, Op
<1>3. ASSUME NEW status \in {200, 204, 400, 500}, Respond(h, status)
      PROVE  /\ \A g \in Handler \ {h} : reply'[g] = reply[g]
             /\ reply'[h] = 201 => reply[h] = 201
  <2>1. status \in Replies
    BY DEF Replies
  <2> QED BY <1>1, <1>3, <2>1, Answer
<1>4. CASE End(h)
  BY <1>1, <1>3, <1>4 DEF End
<1>5. CASE AnchoredInVain(h)
  BY <1>1, <1>3, <1>5 DEF AnchoredInVain, AnchoringFails
<1>6. CASE CreateKey(h) \/ StartWeb(h) \/ CreateIon(h)
  BY <1>1, <1>6 DEF CreateKey, StartWeb, CreateIon, ToStoring
<1>7. CASE StoreDID(h) \/ StartStoring(h) \/ StartRevoking(h) \/ Publishing(h)
  BY <1>1, <1>7 DEF StoreDID, StartStoring, StartRevoking, Publishing, StoreKey, RevokeKey, WritePublic
<1>8. CASE BatchCreateDIDs(h)
  BY <1>1, <1>2, <1>8 DEF BatchCreateDIDs, Op
<1>9. CASE PrepareUpdate(h)
  <2>1. reply' = [reply EXCEPT ![h] = IF request[h].method = "ion" THEN @ ELSE 400]
    BY <1>9 DEF PrepareUpdate, AnswerMethod
  <2> QED BY <1>1, <2>1
<1>10. CASE AnchorTaken(h) \/ AnchorFails(h)
  BY <1>1, <1>10 DEF AnchorTaken, AnchorFails
<1>11. CASE RecordAnchor(h)
  BY <1>1, <1>3, <1>11 DEF RecordAnchor
<1>12. CASE Finishes(h)
  <2>1. Succeed(h) /\ Op(h) = "update"
    BY <1>1, <1>12 DEF Finishes, ApplyUpdate, Phase
  <2> QED BY <1>1, <1>2, <2>1
<1>13. CASE ReadToDelete(h)
  BY <1>1, <1>13 DEF ReadToDelete
<1>14. CASE WriteDeleted(h)
  BY <1>1, <1>2, <1>14 DEF WriteDeleted, Op
<1>15. CASE Keeps(h)
  <2>1. Op(h) \in Creating \cup {"storeKey", "revokeKey"}
    BY <1>1, <1>15 DEF Keeps, WritePrivate, Phase
  <2>2. Succeed(h) \/ reply' = reply
    BY <1>15 DEF Keeps, WritePrivate
  <2> QED BY <1>1, <1>2, <2>1, <2>2
<1> QED BY <1>4, <1>5, <1>6, <1>7, <1>8, <1>9, <1>10, <1>11, <1>12, <1>13, <1>14, <1>15 DEF Acts

\* The same, of the steps of the specification.
LEMMA StepAnswers ==
  ASSUME SInv, NEW h \in Handler, Step(h) \/ Stop(h)
  PROVE  /\ request' = request
         /\ \A g \in Handler \ {h} : reply'[g] = reply[g]
         /\ reply'[h] = 201 /\ reply[h] # 201 => Op(h) \in Creating \cup {"batch", "storeKey"}
BY StepActs, OwnAnswer DEF SInv

\* So who has answered 201 stays right.
LEMMA NextAnswers ==
  ASSUME SInv, Answered, [Next]_vars
  PROVE  Answered'
<1>1. CASE UNCHANGED vars \/ Done
  BY <1>1 DEF vars, Done, Answered, Op
<1>2. ASSUME NEW h \in Handler, Step(h) \/ Stop(h) PROVE Answered'
  BY <1>2, StepAnswers DEF Answered, Op
<1> QED BY <1>1, <1>2 DEF Next

\* A signature is given only with a key that is not revoked (Sign).
LEMMA RefusedSignature ==
  ASSUME SInv, NEW h \in Handler, Op(h) = "sign", Step(h) \/ Stop(h),
         reply[h] = 0, reply'[h] = 200
  PROVE  ~private[request[h].id].revoked
<1>1. reply \in [Handler -> Replies] /\ pc \in [Handler -> Steps] /\ Phase(h)
  BY DEF SInv, ServiceTypeOK
<1>2. ASSUME NEW status \in {400, 500}, Respond(h, status) PROVE FALSE
  <2>1. status \in Replies
    BY DEF Replies
  <2> QED BY <1>1, <1>2, <2>1, Answer
<1>3. ASSUME NEW ops, BadRequest(h, ops) PROVE FALSE
  BY <1>2, <1>3 DEF BadRequest
<1>4. ~Stop(h)
  BY <1>2 DEF Stop, Fail
<1>5. ~CreateDIDByMethod(h)
  BY <1>1, <1>3 DEF CreateDIDByMethod, Refused, CreateKey, CreateWeb, CreateIon, AnchoringFails,
     StoreDID, Creates, Creating, Op
<1>6. ~BatchCreate(h)
  BY <1>3 DEF BatchCreate, Refused, BatchCreateDIDs, Op
<1>7. ~UpdateDIDByMethod(h)
  BY <1>1, <1>3 DEF UpdateDIDByMethod, Refused, PrepareUpdate, UpdateImpossible, AnchorTaken,
     AnchorFails, RecordAnchor, ApplyUpdate, Phase, Op
<1>8. ~SoftDeleteDIDByMethod(h)
  BY <1>3 DEF SoftDeleteDIDByMethod, Refused, ReadToDelete, WriteDeleted, Op
<1>9. ~GetDIDByMethod(h) /\ ~ResolveDID(h) /\ ~ListDIDsByMethod(h)
  BY DEF GetDIDByMethod, ResolveDID, ListDIDsByMethod, Read, Op
<1>10. KeyStep(h)
  BY <1>4, <1>5, <1>6, <1>7, <1>8, <1>9 DEF Step, KeyRoutes
<1>11. Sign(h)
  <2>1. ~WritePublic(h) /\ ~WritePrivate(h)
    BY <1>1 DEF WritePublic, WritePrivate, Phase, Creating
  <2>2. ~StoreKey(h) /\ ~GetKeyDetails(h) /\ ~RevokeKey(h)
    BY DEF StoreKey, GetKeyDetails, RevokeKey, Op
  <2> QED BY <1>3, <1>10, <2>1, <2>2 DEF KeyStep, PutKey, GetKey, DeleteKey
<1> QED BY <1>2, <1>11 DEF Sign, Usable

------------------------------------------------------------------------------
\* What the invariant says of documents, keys and updates holds in every reachable
\* state: however the steps of the requests interleave, wherever handlers stop.
THEOREM ServiceInvariant ==
  ASSUME KeysApart
  PROVE  Spec => [](SInv /\ Answered)
<1>1. Init => SInv /\ Answered
  <2>1. Init => \A h \in Handler : reply[h] = 0
    BY DEF Init
  <2> QED BY <2>1, InitSInv DEF Answered
<1>2. SInv /\ Answered /\ [Next]_vars => (SInv /\ Answered)'
  BY NextKeeps, NextAnswers
<1> QED BY <1>1, <1>2, PTL DEF Spec

------------------------------------------------------------------------------
\* NeverAhead needs nothing of keys, and so no hypothesis on the requests.  Its
\* invariant is the part of SInv about documents and recorded updates.
NInv ==
  /\ ServiceTypeOK
  /\ \A h \in Handler : Phase(h)
  /\ \A d \in DID : Behind(d)

\* A handler that ended has nothing to say; the others wait for the one that acts.
LEMMA EndedPhase == ASSUME NEW h, pc'[h] = "ended" PROVE Phase(h)'
BY DEF Phase

LEMMA OthersWait ==
  ASSUME ServiceTypeOK, NEW h \in Handler, Acts(h), NEW g \in Handler \ {h}
  PROVE  Waiting(g)
<1>1. \A status, step : (Respond(h, status) \/ GoTo(h, step) \/ Succeed(h)) => pc'[g] = pc[g]
  BY DEF Respond, Succeed, GoTo, ServiceTypeOK
<1>2. \A status : (Respond(h, status) \/ Succeed(h) \/ AnswerMethod(h)) => reply'[g] = reply[g]
  BY DEF Respond, Succeed, AnswerMethod, ServiceTypeOK
<1>3. \A s : StoreKeys(h, s) => storing'[g] = storing[g] /\ pc'[g] = pc[g]
  BY <1>1 DEF StoreKeys, ServiceTypeOK
<1>4. \A status : Mark(h, status) => local'[g] = local[g]
  BY DEF Mark, ServiceTypeOK
<1>5. CASE End(h)
  BY <1>1, <1>2, <1>5 DEF End, Waiting
<1>6. CASE AnchoredInVain(h)
  BY <1>1, <1>2, <1>6 DEF AnchoredInVain, AnchoringFails, Waiting
<1>7. CASE CreateKey(h) \/ StartWeb(h) \/ CreateIon(h)
  BY <1>1, <1>7 DEF CreateKey, StartWeb, CreateIon, ToStoring, Waiting
<1>8. CASE StoreDID(h)
  BY <1>3, <1>8 DEF StoreDID, Waiting
<1>9. CASE BatchCreateDIDs(h)
  BY <1>1, <1>2, <1>9 DEF BatchCreateDIDs, Waiting
<1>10. CASE PrepareUpdate(h)
  <2>1. local'[g] = local[g]
    BY <1>10 DEF PrepareUpdate, ServiceTypeOK
  <2> QED BY <1>1, <1>2, <1>10, <2>1 DEF PrepareUpdate, Waiting
<1>11. CASE AnchorTaken(h) \/ AnchorFails(h)
  BY <1>1, <1>4, <1>11 DEF AnchorTaken, AnchorFails, Waiting
<1>12. CASE RecordAnchor(h)
  BY <1>1, <1>2, <1>12 DEF RecordAnchor, Waiting
<1>13. CASE Finishes(h)
  BY <1>1, <1>2, <1>13 DEF Finishes, ApplyUpdate, Waiting
<1>14. CASE ReadToDelete(h)
  <2>1. local'[g] = local[g]
    BY <1>14 DEF ReadToDelete, ServiceTypeOK
  <2> QED BY <1>1, <1>14, <2>1 DEF ReadToDelete, Waiting
<1>15. CASE WriteDeleted(h)
  BY <1>1, <1>2, <1>15 DEF WriteDeleted, Waiting
<1>16. CASE StartStoring(h)
  BY <1>3, <1>16 DEF StartStoring, StoreKey, KeyOnly, Waiting
<1>17. CASE StartRevoking(h)
  BY <1>3, <1>17 DEF StartRevoking, RevokeKey, KeyOnly, Waiting
<1>18. CASE Publishing(h)
  BY <1>1, <1>18 DEF Publishing, WritePublic, KeyOnly, Waiting
<1>19. CASE Keeps(h)
  <2>1. storing'[g] = storing[g]
    BY <1>19 DEF Keeps, WritePrivate, ServiceTypeOK
  <2> QED BY <1>1, <1>2, <1>19, <2>1 DEF Keeps, WritePrivate, KeyOnly, Waiting
<1> QED BY <1>5, <1>6, <1>7, <1>8, <1>9, <1>10, <1>11, <1>12, <1>13, <1>14, <1>15,
           <1>16, <1>17, <1>18, <1>19 DEF Acts

\* Every action leaves its handler where its request belongs.
LEMMA PhaseKept ==
  ASSUME ServiceTypeOK, \A g \in Handler : Phase(g), NEW h \in Handler, Acts(h)
  PROVE  \A g \in Handler : Phase(g)'
<1>1. ASSUME NEW g \in Handler \ {h} PROVE Phase(g)'
  <2>1. Waiting(g) /\ request' = request
    BY OthersWait, TypeKept
  <2> QED BY <2>1 DEF Phase, Waiting, Op
<1> SUFFICES Phase(h)'
  BY <1>1
<1> DEFINE d == Target(h)
<1>2. /\ d \in DID /\ request' = request /\ Op(h)' = Op(h) /\ Target(h)' = d /\ Phase(h)
      /\ request \in Workload
  BY RequestType, TypeKept DEF Op, Target, ServiceTypeOK
<1>3. \A step : GoTo(h, step) => pc'[h] = step
  BY DEF GoTo, ServiceTypeOK
<1>4. \A status : Respond(h, status) \/ Succeed(h) => pc'[h] = "ended"
  BY <1>3 DEF Respond, Succeed
<1>5. pc[h] \notin {"ended"} /\ Op(h) # "update" => reply[h] = 0
  BY <1>2 DEF Phase
<1>6. CASE End(h) \/ AnchoredInVain(h) \/ BatchCreateDIDs(h) \/ WriteDeleted(h) \/ Finishes(h)
  BY <1>4, <1>6, EndedPhase DEF End, AnchoredInVain, AnchoringFails, BatchCreateDIDs,
                                WriteDeleted, Finishes, ApplyUpdate
<1>7. CASE CreateKey(h) \/ StartWeb(h) \/ CreateIon(h)
  <2>1. /\ Op(h) \in Creating /\ pc[h] = "begin" /\ pc'[h] = "document" /\ reply' = reply
    BY <1>3, <1>7 DEF CreateKey, StartWeb, CreateWeb, CreateIon, ToStoring, Op, Creating
  <2> QED BY <1>2, <1>5, <2>1 DEF Phase, Creating
<1>8. CASE StoreDID(h)
  <2>1. /\ Op(h) \in Creating /\ pc[h] = "document" /\ pc'[h] = "public" /\ reply' = reply
        /\ storing'[h] = KeysOf(h)
    BY <1>3, <1>8 DEF StoreDID, Creates, StoreKeys, Op, ServiceTypeOK
  <2>2. KeysOf(h) # <<>>
    BY <1>2, <2>1, FirstWrites
  <2> QED BY <1>2, <1>5, <2>1, <2>2 DEF Phase, Creating
<1>9. CASE PrepareUpdate(h)
  <2>1. PICK list : /\ list = IF Settled(d) THEN Append(states[d], Update(h, d)) ELSE states[d]
                    /\ local' = [local EXCEPT ![h] = list] /\ states' = [states EXCEPT ![d] = list]
    BY <1>9 DEF PrepareUpdate
  <2>2. Op(h) = "update" /\ pc'[h] \in {"anchor", "apply"}
    BY <1>3, <1>9 DEF PrepareUpdate, Op
  <2>3. local'[h] = list /\ states'[d] = list
    BY <1>2, <2>1 DEF ServiceTypeOK
  <2>4. list \in Seq(Recorded)
    <3>1. ServiceTypeOK'
      BY TypeKept
    <3> QED BY <1>2, <2>3, <3>1 DEF ServiceTypeOK
  <2>5. list # <<>>
    <3>1. states[d] \in Seq(Recorded)
      BY <1>2 DEF ServiceTypeOK
    <3>2. Append(states[d], Update(h, d)) # <<>>
      BY <3>1
    <3>3. states[d] = <<>> => Settled(d)
      BY DEF Settled, Status
    <3> QED BY <2>1, <3>2, <3>3
  <2> QED BY <1>2, <2>2, <2>3, <2>4, <2>5 DEF Phase, Creating
<1>10. CASE AnchorTaken(h) \/ AnchorFails(h)
  <2>1. PICK status \in {"Anchored", "AnchorError"} : Mark(h, status)
    BY <1>10 DEF AnchorTaken, AnchorFails, ErrorStatus
  <2> QED BY <1>2, <1>10, <2>1, Marking DEF AnchorTaken, AnchorFails
<1>11. CASE RecordAnchor(h)
  <2>1. Op(h) = "update" /\ (pc'[h] = "ended" \/ pc'[h] = "apply")
    BY <1>2, <1>3, <1>4, <1>11 DEF RecordAnchor, Phase
  <2> QED BY <1>2, <2>1 DEF Phase
<1>12. CASE ReadToDelete(h)
  <2>1. /\ Op(h) = "softDelete" /\ pc[h] = "begin" /\ pc'[h] = "document" /\ reply' = reply
        /\ local'[h] = <<dids[d]>>
    BY <1>3, <1>12 DEF ReadToDelete, Op, ServiceTypeOK
  <2>2. dids[d] \in Document
    BY <1>2 DEF ServiceTypeOK
  <2>3. <<dids[d]>> \in Seq(Document) /\ Len(<<dids[d]>>) = 1
    BY <2>2
  <2> QED BY <1>2, <1>5, <2>1, <2>3 DEF Phase, Creating
<1>13. CASE StartStoring(h) \/ StartRevoking(h)
  <2>1. PICK key : StoreKeys(h, <<Write(request[h].id, key)>>)
                   /\ (Op(h) = "storeKey" => key = NewKey(h))
    BY <1>13 DEF StartStoring, StartRevoking, StoreKey, RevokeKey, Op
  <2>2. /\ Op(h) \in {"storeKey", "revokeKey"} /\ pc[h] = "begin" /\ reply' = reply
    BY <1>13 DEF StartStoring, StartRevoking, StoreKey, RevokeKey, Op
  <2>3. pc'[h] = "public" /\ storing'[h] = <<Write(request[h].id, key)>>
    BY <1>3, <2>1 DEF StoreKeys, ServiceTypeOK
  <2>4. <<Write(request[h].id, key)>> # <<>> /\ NewKey(h)' = NewKey(h) /\ request'[h].id = request[h].id
    BY <1>2 DEF NewKey
  <2> QED BY <1>2, <1>5, <2>1, <2>2, <2>3, <2>4 DEF Phase, Creating
<1>14. CASE Publishing(h)
  <2>1. /\ pc[h] = "public" /\ pc'[h] = "private" /\ reply' = reply /\ storing' = storing
    BY <1>3, <1>14 DEF Publishing, WritePublic
  <2> QED BY <1>2, <1>5, <2>1 DEF Phase, NewKey, Creating
<1>15. CASE Keeps(h)
  <2>1. CASE Len(storing[h]) > 1
    <3>1. /\ pc[h] = "private" /\ pc'[h] = "public" /\ reply' = reply
          /\ storing'[h] = Tail(storing[h])
      BY <1>3, <1>15, <2>1 DEF Keeps, WritePrivate, ServiceTypeOK
    <3>2. Tail(storing[h]) # <<>>
      <4>1. storing[h] \in Seq([id : KeyId, key : PrivateKey])
        BY DEF ServiceTypeOK
      <4>2. storing[h] # <<>> /\ Len(storing[h]) \in Nat
        BY <2>1, <4>1, EmptySeq, LenProperties
      <4>3. Len(Tail(storing[h])) = Len(storing[h]) - 1
        BY <4>1, <4>2, HeadTailProperties
      <4>4. \A n \in Nat : n > 1 => n - 1 # 0
        OBVIOUS
      <4>5. Len(<<>>) = 0
        BY EmptySeq
      <4> QED BY <2>1, <4>2, <4>3, <4>4, <4>5, Zenon
    <3>3. Op(h) # "storeKey"
      <4>1. Op(h) = "storeKey" => storing[h] = <<Write(request[h].id, NewKey(h))>>
        BY <1>2, <3>1 DEF Phase
      <4>2. Len(<<Write(request[h].id, NewKey(h))>>) = 1
        OBVIOUS
      <4>3. ~(1 > 1)
        OBVIOUS
      <4> QED BY <2>1, <4>1, <4>2, <4>3, Zenon
    <3> QED BY <1>2, <1>5, <3>1, <3>2, <3>3 DEF Phase, Creating
  <2>2. CASE ~(Len(storing[h]) > 1)
    BY <1>4, <1>15, <2>2, EndedPhase DEF Keeps, WritePrivate
  <2> QED BY <2>1, <2>2
<1> QED BY <1>6, <1>7, <1>8, <1>9, <1>10, <1>11, <1>12, <1>13, <1>14, <1>15 DEF Acts

\* What a step must say of a DID: the network forgets nothing, and what is recorded
\* anew is not ahead.
Ahead(y, d) == y.status \in {"Anchored", "Done"} => y.op \in Taken(d)

LEMMA BehindStays ==
  ASSUME NEW d \in DID, Behind(d), request' = request, Taken(d) \subseteq Taken(d)',
         dids'[d].ops \subseteq Taken(d)',
         \A y \in Records(d)' :
           /\ y \in Records(d) \/ Ahead(y, d)'
           /\ \/ \E x \in Records(d) : y.op = x.op /\ y.doc = x.doc
              \/ y.doc.ops \subseteq Taken(d)' \cup {y.op},
         \A h \in Handler : Op(h) = "softDelete" /\ Target(h) = d /\ pc'[h] = "document" =>
           \/ pc[h] = "document" /\ local'[h] = local[h]
           \/ local'[h][1].ops \subseteq Taken(d)'
  PROVE  Behind(d)'
<1>1. \A h \in Handler : Op(h)' = Op(h) /\ Target(h)' = Target(h)
  BY DEF Op, Target
<1>2. ASSUME NEW y \in Records(d)'
      PROVE  /\ y.status \in {"Anchored", "Done"} => y.op \in Taken(d)'
             /\ y.doc.ops \subseteq Taken(d)' \cup {y.op}
  <2>1. y.status \in {"Anchored", "Done"} => y.op \in Taken(d)'
    BY <1>2 DEF Ahead, Behind
  <2>2. y.doc.ops \subseteq Taken(d)' \cup {y.op}
    BY <1>2 DEF Behind
  <2> QED BY <2>1, <2>2
<1>3. ASSUME NEW h \in Handler, Op(h) = "softDelete", Target(h) = d, pc'[h] = "document"
      PROVE  local'[h][1].ops \subseteq Taken(d)'
  BY <1>3 DEF Behind
<1> QED BY <1>1, <1>2, <1>3 DEF Behind

\* Nothing is recorded anew of a DID while its list stays and no handler reads one.
LEMMA NoneRecorded ==
  ASSUME request' = request, NEW d \in DID, states'[d] = states[d],
         \A g \in Handler : Op(g) = "update" /\ Target(g) = d /\ pc'[g] \in {"anchor", "record"} =>
           pc[g] \in {"anchor", "record"} /\ local'[g] = local[g]
  PROVE  Records(d)' \subseteq Records(d)
<1>1. \A g \in Handler : Holds(g, d)' => Holds(g, d) /\ local'[g] = local[g]
  BY DEF Holds, Op, Target
<1> QED BY <1>1 DEF Records

\* The actions that are not about updates.
LEMMA CreationBehind ==
  ASSUME NInv, NEW h \in Handler, Acts(h), NEW e \in DID,
         \/ End(h) \/ AnchoredInVain(h) \/ CreateKey(h) \/ StartWeb(h) \/ CreateIon(h) \/ StoreDID(h)
         \/ BatchCreateDIDs(h) \/ StartStoring(h) \/ StartRevoking(h) \/ Publishing(h) \/ Keeps(h)
  PROVE  Behind(e)'
<1> DEFINE d == Target(h)
<1>1. /\ ServiceTypeOK /\ Behind(e) /\ request' = request /\ d \in DID /\ h \in Handler
      /\ \A g \in Handler : Phase(g) /\ Phase(g)'
  BY TypeKept, PhaseKept, RequestType DEF NInv, ServiceTypeOK
<1>2. states' = states /\ local' = local
  BY DEF End, AnchoredInVain, AnchoringFails, CreateKey, StartWeb, CreateIon, ToStoring, StoreDID,
         BatchCreateDIDs, StartStoring, StartRevoking, Publishing, Keeps, KeyOnly, history
<1>3. \A g \in Handler \ {h} : pc'[g] = pc[g]
  BY <1>1, OthersWait DEF Waiting
<1>4. /\ pc'[h] \notin {"anchor", "record"}
      /\ pc'[h] = "document" => Op(h) # "softDelete"
  <2>1. \A step : GoTo(h, step) => pc'[h] = step
    BY <1>1 DEF GoTo, ServiceTypeOK
  <2>2. \A status : Respond(h, status) \/ Succeed(h) => pc'[h] = "ended"
    BY <2>1 DEF Respond, Succeed
  <2>3. CASE End(h) \/ AnchoredInVain(h) \/ BatchCreateDIDs(h)
    BY <2>2, <2>3 DEF End, AnchoredInVain, AnchoringFails, BatchCreateDIDs
  <2>4. CASE CreateKey(h) \/ StartWeb(h) \/ CreateIon(h)
    BY <2>1, <2>4 DEF CreateKey, StartWeb, CreateWeb, CreateIon, ToStoring, Op
  <2>5. CASE StoreDID(h) \/ StartStoring(h) \/ StartRevoking(h)
    <3>1. \A s : StoreKeys(h, s) => pc'[h] = "public"
      BY <2>1 DEF StoreKeys
    <3> QED BY <2>5, <3>1 DEF StoreDID, StartStoring, StartRevoking, StoreKey, RevokeKey
  <2>6. CASE Publishing(h) \/ Keeps(h)
    <3>1. GoTo(h, "private") \/ GoTo(h, "public") \/ Succeed(h)
      BY <2>6 DEF Publishing, Keeps, WritePublic, WritePrivate
    <3> QED BY <2>1, <2>2, <3>1
  <2> QED BY <2>3, <2>4, <2>5, <2>6
<1>5. Records(e)' \subseteq Records(e)
  BY <1>1, <1>2, <1>3, <1>4, NoneRecorded
<1>6. Taken(e)' = Taken(e)
  <2>1. CASE network' = [network EXCEPT ![d].next = h]
    BY <1>1, <2>1 DEF Taken, ServiceTypeOK
  <2>2. CASE network' = network
    BY <2>2 DEF Taken
  <2> QED BY <2>1, <2>2
          DEF End, AnchoredInVain, CreateKey, StartWeb, CreateIon, StoreDID, BatchCreateDIDs,
              StartStoring, StartRevoking, Publishing, Keeps, KeyOnly
<1>7. dids'[e].ops = dids[e].ops \/ dids'[e].ops = {}
  <2>1. Doc(h).ops = {}
    BY DEF Doc
  <2>2. CASE StoreDID(h)
    BY <1>1, <2>1, <2>2 DEF StoreDID, ServiceTypeOK
  <2>3. CASE BatchCreateDIDs(h)
    BY <1>1, <2>1, <2>3 DEF BatchCreateDIDs
  <2>4. CASE dids' = dids
    BY <2>4
  <2> QED BY <2>2, <2>3, <2>4
          DEF End, AnchoredInVain, AnchoringFails, CreateKey, StartWeb, CreateIon, ToStoring,
              StartStoring, StartRevoking, Publishing, Keeps, KeyOnly
<1>8. \A g \in Handler : Op(g) = "softDelete" /\ Target(g) = e /\ pc'[g] = "document" =>
        pc[g] = "document" /\ local'[g] = local[g]
  BY <1>2, <1>3, <1>4
<1>9. dids'[e].ops \subseteq Taken(e)'
  BY <1>1, <1>6, <1>7 DEF Behind
<1>10. \A y \in Records(e)' : y.doc.ops \subseteq Taken(e)' \cup {y.op}
  BY <1>1, <1>5, <1>6 DEF Behind
<1> QED BY <1>1, <1>5, <1>6, <1>8, <1>9, <1>10, BehindStays

\* An update and a deletion are about the DID they name.
LEMMA UpdateElsewhere ==
  ASSUME NInv, NEW h \in Handler, Acts(h), NEW e \in DID, e # Target(h),
         \/ PrepareUpdate(h) \/ AnchorTaken(h) \/ AnchorFails(h) \/ RecordAnchor(h)
         \/ Finishes(h) \/ ReadToDelete(h) \/ WriteDeleted(h)
  PROVE  Behind(e)'
<1> DEFINE d == Target(h)
<1>1. /\ ServiceTypeOK /\ Behind(e) /\ request' = request /\ d \in DID
  BY TypeKept, RequestType DEF NInv, ServiceTypeOK
<1>2. /\ states'[e] = states[e] /\ network'[e] = network[e] /\ dids'[e] = dids[e]
  BY <1>1 DEF PrepareUpdate, AnchorTaken, AnchorFails, RecordAnchor, Finishes, ApplyUpdate, Finish,
              ReadToDelete, WriteDeleted, ServiceTypeOK
<1>3. \A g \in Handler \ {h} : pc'[g] = pc[g] /\ local'[g] = local[g]
  BY <1>1, OthersWait DEF Waiting, NInv
<1>4. Records(e)' \subseteq Records(e) /\ Taken(e)' = Taken(e)
  BY <1>1, <1>2, <1>3, NoneRecorded DEF Taken
<1>5. \A g \in Handler : Op(g) = "softDelete" /\ Target(g) = e /\ pc'[g] = "document" =>
        pc[g] = "document" /\ local'[g] = local[g]
  BY <1>3
<1>6. dids'[e].ops \subseteq Taken(e)'
  BY <1>1, <1>2, <1>4 DEF Behind
<1>7. \A y \in Records(e)' : y.doc.ops \subseteq Taken(e)' \cup {y.op}
  BY <1>1, <1>4 DEF Behind
<1> QED BY <1>1, <1>4, <1>5, <1>6, <1>7, BehindStays

\* A new update leads to the document kept and is not recorded as taken.
LEMMA PrepareBehind ==
  ASSUME NInv, NEW h \in Handler, Acts(h), NEW d \in DID, d = Target(h),
         PrepareUpdate(h)
  PROVE  Behind(d)'
<1>a. PICK U : U = Update(h, d)
  OBVIOUS
<1>b. PICK list : list = IF Settled(d) THEN Append(states[d], U) ELSE states[d]
  OBVIOUS
<1>1. /\ ServiceTypeOK /\ Behind(d) /\ request' = request /\ \A g \in Handler : Phase(g)
  BY TypeKept DEF NInv
<1>2. /\ local' = [local EXCEPT ![h] = list] /\ states' = [states EXCEPT ![d] = list]
      /\ dids' = dids /\ network' = network /\ Op(h) = "update"
  BY <1>a, <1>b DEF PrepareUpdate, Op
<1>3. /\ local'[h] = list /\ states'[d] = list /\ states[d] \in Seq(Recorded)
      /\ \A g \in Handler \ {h} : pc'[g] = pc[g] /\ local'[g] = local[g]
  BY <1>1, <1>2, OthersWait DEF Waiting, ServiceTypeOK
<1>4. U \in Recorded /\ U.status = "PreAnchor" /\ U.op = h /\ U.doc.ops = dids[d].ops \cup {h}
  <2>1. dids[d] \in Document /\ private[<<d, "update">>] \in PrivateKey
    BY <1>1, KeyIds DEF ServiceTypeOK, Use
  <2> QED BY <1>a, <2>1 DEF Update, Recorded, Document, PrivateKey
<1>5. \A i \in DOMAIN list : list[i] \in Records(d) \/ list[i] = U
  BY <1>3, <1>4, <1>b, Appended, RecordsOf
<1>6. Taken(d)' = Taken(d) /\ \A g \in Handler : Op(g)' = Op(g) /\ Target(g)' = Target(g)
  BY <1>1, <1>2 DEF Taken, Op, Target
<1>7. ASSUME NEW y \in Records(d)' PROVE y \in Records(d) \/ y = U
  <2>1. \A g \in Handler \ {h} : Holds(g, d)' => Holds(g, d)
    BY <1>3, <1>6 DEF Holds
  <2>2. \/ \E i \in DOMAIN list : y = list[i]
        \/ \E g \in Handler \ {h} : Holds(g, d)' /\ \E i \in DOMAIN local[g] : y = local[g][i]
    BY <1>3, <1>7 DEF Records
  <2> QED BY <1>5, <2>1, <2>2, RecordsOf
<1>8. U.doc.ops \subseteq Taken(d)' \cup {U.op} /\ Ahead(U, d)'
  BY <1>1, <1>4, <1>6 DEF Behind, Ahead
<1>9. \A y \in Records(d)' :
        /\ y \in Records(d) \/ Ahead(y, d)'
        /\ y.doc.ops \subseteq Taken(d)' \cup {y.op}
  BY <1>1, <1>6, <1>7, <1>8 DEF Behind
<1>10. \A g \in Handler : Op(g) = "softDelete" /\ Target(g) = d /\ pc'[g] = "document" =>
         pc[g] = "document" /\ local'[g] = local[g]
  BY <1>2, <1>3
<1>11. dids'[d].ops \subseteq Taken(d)'
  BY <1>1, <1>2, <1>6 DEF Behind
<1> QED BY <1>1, <1>6, <1>9, <1>10, <1>11, BehindStays

\* A list is marked as anchored after the network took its last update only.
LEMMA AnchorBehind ==
  ASSUME NInv, NEW h \in Handler, Acts(h), NEW d \in DID, d = Target(h),
         AnchorTaken(h) \/ AnchorFails(h)
  PROVE  Behind(d)'
<1>1. PICK x0 : x0 = Last(local[h])
  OBVIOUS
<1>2. /\ ServiceTypeOK /\ Behind(d) /\ request' = request /\ \A g \in Handler : Phase(g)
  BY TypeKept DEF NInv
<1>3. PICK status \in {"Anchored", "AnchorError"} :
        /\ Mark(h, status) /\ pc[h] = "anchor" /\ GoTo(h, "record")
        /\ status = "Anchored" => AnchorTaken(h)
        /\ UNCHANGED <<request, reply, states, dids>>
  BY DEF AnchorTaken, AnchorFails, ErrorStatus
<1>4. /\ Op(h) = "update"
      /\ pc'[h] = "record" /\ \A g \in Handler \ {h} : pc'[g] = pc[g] /\ local'[g] = local[g]
      /\ \A y \in Records(d)' : \E x \in Records(d) :
           /\ y.op = x.op /\ y.signed = x.signed /\ y.doc = x.doc
           /\ y.status = x.status \/ (y.status = status /\ x = x0)
  BY <1>1, <1>2, <1>3, Marking
<1>5. Taken(d) \subseteq Taken(d)' /\ (AnchorTaken(h) => x0.op \in Taken(d)')
  <2>1. CASE AnchorTaken(h)
    <3>1. network' = [network EXCEPT ![d] = [ops |-> @.ops \cup {x0.op}, next |-> x0.op]]
      BY <1>1, <2>1 DEF AnchorTaken
    <3> QED BY <1>2, <3>1 DEF ServiceTypeOK, Taken
  <2>2. CASE ~AnchorTaken(h)
    BY <2>2 DEF AnchorFails, Taken
  <2> QED BY <2>1, <2>2
<1>6. ASSUME NEW y \in Records(d)'
      PROVE  Ahead(y, d)' /\ \E x \in Records(d) : y.op = x.op /\ y.doc = x.doc
  <2>1. PICK x \in Records(d) :
          /\ y.op = x.op /\ y.doc = x.doc
          /\ y.status = x.status \/ (y.status = status /\ x = x0)
    BY <1>4, <1>6
  <2>2. x.status \in {"Anchored", "Done"} => x.op \in Taken(d)'
    BY <1>2, <1>5 DEF Behind
  <2>3. y.status \in {"Anchored", "Done"} => y.op \in Taken(d)'
    BY <1>3, <1>5, <2>1, <2>2
  <2> QED BY <2>1, <2>3 DEF Ahead
<1>7. \A g \in Handler : Op(g) = "softDelete" /\ Target(g) = d /\ pc'[g] = "document" =>
        pc[g] = "document" /\ local'[g] = local[g]
  BY <1>4
<1>8. dids'[d].ops \subseteq Taken(d)'
  BY <1>2, <1>3, <1>5 DEF Behind
<1> QED BY <1>2, <1>5, <1>6, <1>7, <1>8, BehindStays

\* What is written back was held; what is applied was recorded as anchored.
LEMMA RecordBehind ==
  ASSUME NInv, NEW h \in Handler, Acts(h), NEW d \in DID, d = Target(h),
         RecordAnchor(h) \/ Finishes(h)
  PROVE  Behind(d)'
<1>1. /\ ServiceTypeOK /\ Behind(d) /\ request' = request /\ \A g \in Handler : Phase(g)
  BY TypeKept DEF NInv
<1>2. /\ local' = local /\ network' = network /\ Op(h) = "update" /\ pc[h] \in {"record", "apply"}
      /\ pc'[h] \notin {"anchor", "record"}
  <2>1. pc[h] \in {"record", "apply"} /\ local' = local /\ network' = network
    BY DEF RecordAnchor, Finishes, ApplyUpdate, history
  <2>2. Op(h) = "update"
    BY <1>1, <2>1 DEF Phase
  <2>3. GoTo(h, "ended") \/ GoTo(h, "apply")
    BY DEF RecordAnchor, Finishes, ApplyUpdate, Succeed, Respond
  <2>4. pc'[h] \notin {"anchor", "record"}
    BY <1>1, <2>3 DEF GoTo, ServiceTypeOK
  <2> QED BY <2>1, <2>2, <2>4
<1>3. \A g \in Handler \ {h} : pc'[g] = pc[g]
  BY <1>1, OthersWait DEF Waiting
<1>4. /\ Taken(d)' = Taken(d)
      /\ \A g \in Handler : Op(g)' = Op(g) /\ Target(g)' = Target(g)
  BY <1>1, <1>2 DEF Taken, Op, Target
<1>5. \A g \in Handler : Holds(g, d)' => Holds(g, d) /\ g # h
  BY <1>2, <1>3, <1>4 DEF Holds
<1>6. \A y \in Records(d)' :
        (\E i \in DOMAIN states'[d] : y = states'[d][i]) \/ y \in Records(d)
  <2> SUFFICES ASSUME NEW y \in Records(d)',
                      ~\E i \in DOMAIN states'[d] : y = states'[d][i]
               PROVE  y \in Records(d)
    OBVIOUS
  <2>1. \E g \in Handler : Holds(g, d)' /\ \E i \in DOMAIN local[g] : y = local[g][i]
    BY <1>2 DEF Records
  <2> QED BY <1>5, <2>1, RecordsOf
<1>7. \A g \in Handler : Op(g) = "softDelete" /\ Target(g) = d /\ pc'[g] = "document" =>
        pc[g] = "document" /\ local'[g] = local[g]
  BY <1>2, <1>3
<1>8. CASE RecordAnchor(h)
  <2>1. states'[d] = local[h] /\ dids' = dids /\ Holds(h, d)
    BY <1>1, <1>2, <1>8 DEF RecordAnchor, ServiceTypeOK, Holds
  <2>2. \A y \in Records(d)' : y \in Records(d)
    BY <1>6, <2>1, RecordsOf
  <2>3. \A y \in Records(d)' : y.doc.ops \subseteq Taken(d)' \cup {y.op}
    BY <1>1, <1>4, <2>2 DEF Behind
  <2>4. dids'[d].ops \subseteq Taken(d)'
    BY <1>1, <1>4, <2>1 DEF Behind
  <2> QED BY <1>1, <1>4, <1>7, <2>2, <2>3, <2>4, BehindStays
<1>9. CASE Finishes(h)
  <2>1. PICK x0 : x0 = Last(states[d])
    OBVIOUS
  <2>2. states[d] # <<>> /\ x0.status = "Anchored" /\ states[d] \in Seq(Recorded)
    BY <1>1, <1>9, <2>1 DEF Finishes, Status, ServiceTypeOK
  <2>3. x0 \in Records(d) /\ x0 \in Recorded
    BY <1>1, <2>1, <2>2, RecordType
  <2>4. x0.op \in Taken(d) /\ x0.doc.ops \subseteq Taken(d)
    BY <1>1, <2>2, <2>3 DEF Behind
  <2>5. dids' = [dids EXCEPT ![d] = x0.doc] /\ states' = [states EXCEPT ![d] = Marked(states[d], "Done")]
    BY <1>9, <2>1 DEF Finishes, ApplyUpdate, Finish, Marked
  <2>6. dids'[d] = x0.doc /\ states'[d] = Marked(states[d], "Done")
    BY <1>1, <2>5 DEF ServiceTypeOK
  <2>7. ASSUME NEW i \in DOMAIN states'[d]
        PROVE  \/ states'[d][i] \in Records(d)
               \/ /\ states'[d][i].op = x0.op /\ states'[d][i].doc = x0.doc
    <3>1. DOMAIN states'[d] = DOMAIN states[d]
      BY <2>2, <2>6, MarkedType
    <3>2. \/ states'[d][i] = states[d][i]
          \/ i = Len(states[d]) /\ states'[d][i] = [states[d][i] EXCEPT !.status = "Done"]
      BY <2>2, <2>6, <2>7, <3>1, MarkedType
    <3>3. states[d][i] \in Records(d)
      BY <3>1, RecordsOf
    <3>4. i = Len(states[d]) => states[d][i] = x0
      BY <2>1 DEF Last
    <3> QED BY <2>3, <3>2, <3>3, <3>4 DEF Recorded
  <2>8. \A y \in Records(d)' : y \in Records(d) \/ (y.op = x0.op /\ y.doc = x0.doc)
    BY <1>6, <2>7
  <2>9. ASSUME NEW y \in Records(d)'
        PROVE  /\ y \in Records(d) \/ Ahead(y, d)'
               /\ \E x \in Records(d) : y.op = x.op /\ y.doc = x.doc
    BY <1>4, <2>3, <2>4, <2>8 DEF Ahead
  <2>10. dids'[d].ops \subseteq Taken(d)'
    BY <1>4, <2>4, <2>6
  <2> QED BY <1>1, <1>4, <1>7, <2>9, <2>10, BehindStays
<1> QED BY <1>8, <1>9

\* A deletion writes back the document it has read.
LEMMA DeleteBehind ==
  ASSUME NInv, NEW h \in Handler, Acts(h), NEW d \in DID, d = Target(h),
         ReadToDelete(h) \/ WriteDeleted(h)
  PROVE  Behind(d)'
<1>1. /\ ServiceTypeOK /\ Behind(d) /\ request' = request /\ \A g \in Handler : Phase(g)
  BY TypeKept DEF NInv
<1>2. /\ states' = states /\ network' = network /\ Op(h) = "softDelete"
  BY DEF ReadToDelete, WriteDeleted, Op
<1>3. \A g \in Handler \ {h} : pc'[g] = pc[g] /\ local'[g] = local[g]
  BY <1>1, OthersWait DEF Waiting
<1>4. Taken(d)' = Taken(d)
  BY <1>2 DEF Taken
<1>5. Records(d)' \subseteq Records(d)
  BY <1>1, <1>2, <1>3, NoneRecorded
<1>6. \A y \in Records(d)' : y.doc.ops \subseteq Taken(d)' \cup {y.op}
  BY <1>1, <1>4, <1>5 DEF Behind
<1>7. CASE ReadToDelete(h)
  <2>1. local'[h] = <<dids[d]>> /\ dids' = dids
    BY <1>1, <1>7 DEF ReadToDelete, ServiceTypeOK
  <2>2. local'[h][1].ops \subseteq Taken(d)' /\ dids'[d].ops \subseteq Taken(d)'
    BY <1>1, <1>4, <2>1 DEF Behind
  <2>3. \A g \in Handler : Op(g) = "softDelete" /\ Target(g) = d /\ pc'[g] = "document" =>
          (pc[g] = "document" /\ local'[g] = local[g]) \/ local'[g][1].ops \subseteq Taken(d)'
    BY <1>3, <2>2
  <2> QED BY <1>1, <1>4, <1>5, <1>6, <2>2, <2>3, BehindStays
<1>8. CASE WriteDeleted(h)
  <2>1. PICK was : was = local[h][1]
    OBVIOUS
  <2>2. was.ops \subseteq Taken(d) /\ was \in Document
    <3>1. pc[h] = "document"
      BY <1>8 DEF WriteDeleted
    <3>2. local[h] \in Seq(Document) /\ Len(local[h]) = 1
      BY <1>1, <1>2, <3>1 DEF Phase
    <3> QED BY <1>1, <1>2, <2>1, <3>1, <3>2, ElementOfSeq DEF Behind
  <2>3. dids' = [dids EXCEPT ![d] = [was EXCEPT !.deleted = TRUE]] /\ local' = local
    BY <1>8, <2>1 DEF WriteDeleted
  <2>4. dids'[d].ops \subseteq Taken(d)'
    BY <1>1, <1>4, <2>2, <2>3 DEF ServiceTypeOK, Document
  <2>5. pc'[h] = "ended"
    BY <1>1, <1>8 DEF WriteDeleted, Succeed, Respond, GoTo, ServiceTypeOK
  <2>6. \A g \in Handler : Op(g) = "softDelete" /\ Target(g) = d /\ pc'[g] = "document" =>
          pc[g] = "document" /\ local'[g] = local[g]
    BY <1>3, <2>5
  <2> QED BY <1>1, <1>4, <1>5, <1>6, <2>4, <2>6, BehindStays
<1> QED BY <1>7, <1>8

LEMMA NextBehind == NInv /\ [Next]_vars => NInv'
<1> SUFFICES ASSUME NInv, [Next]_vars PROVE NInv'
  OBVIOUS
<1>1. CASE UNCHANGED vars \/ Done
  <2>1. /\ UNCHANGED <<request, pc, reply, public, private, storing, dids, states, network, local>>
        /\ UNCHANGED <<overlapped, since>>
    BY <1>1 DEF Done, vars, history
  <2>2. ServiceTypeOK'
    BY <2>1 DEF NInv, ServiceTypeOK
  <2>3. ASSUME NEW g \in Handler PROVE Phase(g)'
    BY <2>1 DEF NInv, Phase, Op, NewKey
  <2>4. ASSUME NEW d \in DID PROVE Behind(d)'
    <3>1. Records(d)' \subseteq Records(d)
      BY <2>1, NoneRecorded
    <3>2. Behind(d) /\ Taken(d)' = Taken(d)
      BY <2>1 DEF NInv, Taken
    <3>3. \A y \in Records(d)' : y.doc.ops \subseteq Taken(d)' \cup {y.op}
      BY <3>1, <3>2 DEF Behind
    <3>4. dids'[d].ops \subseteq Taken(d)'
      BY <2>1, <3>2 DEF Behind
    <3> QED BY <2>1, <3>1, <3>2, <3>3, <3>4, BehindStays
  <2> QED BY <2>2, <2>3, <2>4 DEF NInv
<1>2. ASSUME NEW h \in Handler, Step(h) \/ Stop(h) PROVE NInv'
  <2>1. Acts(h)
    BY <1>2, StepActs DEF NInv
  <2>2. ServiceTypeOK' /\ \A g \in Handler : Phase(g)'
    BY <2>1, TypeKept, PhaseKept DEF NInv
  <2>3. ASSUME NEW e \in DID PROVE Behind(e)'
    BY <2>1, <2>2, CreationBehind, UpdateElsewhere, PrepareBehind, AnchorBehind, RecordBehind,
       DeleteBehind DEF Acts
  <2> QED BY <2>2, <2>3 DEF NInv
<1> QED BY <1>1, <1>2 DEF Next

\* Whatever keys are stored and revoked beside the updates.
THEOREM ServiceBehind == Spec => []NInv
<1>1. Init => NInv
  BY InitSInv DEF SInv, About, NInv
<1> QED BY <1>1, NextBehind, PTL DEF Spec

\* The document kept and the updates recorded as anchored (UpdateDIDByMethod) hold
\* nothing the ion network has not taken.
THEOREM ServiceNeverAhead == Spec => []NeverAhead
<1>1. NInv => NeverAhead
  BY RecordsOf DEF NInv, Behind, NeverAhead, Taken
<1> QED BY <1>1, ServiceBehind, PTL

\* Unless requests for it overlapped, a DID whose last update is done (applyUpdate)
\* is kept with the update key that the network waits for.
THEOREM ServiceKeyFollowsNetwork ==
  ASSUME KeysApart
  PROVE  Spec => []KeyFollowsNetwork
<1>1. ASSUME SInv PROVE KeyFollowsNetwork
  <2> SUFFICES ASSUME NEW d \in DID \ overlapped, Status(d) = "Done"
               PROVE  private[<<d, "update">>].secret = network[d].next
    BY DEF KeyFollowsNetwork
  <2>1. Records(d) # {}
    <3>1. states[d] # <<>>
      BY DEF Status
    <3> QED BY <1>1, <3>1, RecordType DEF SInv
  <2>2. Touched(d) /\ Follows(d)
    BY <1>1, <2>1 DEF SInv, About
  <2> QED BY <2>2 DEF Follows, UpdateKey
<1> QED BY <1>1, ServiceInvariant, PTL

\* A batch is there in full, documents and keys, or not at all (BatchCreateDIDs).
THEOREM ServiceBatchIsAtomic ==
  ASSUME KeysApart
  PROVE  Spec => []BatchIsAtomic
<1>1. ASSUME SInv PROVE BatchIsAtomic
  <2> SUFFICES ASSUME NEW h \in Handler, Op(h) = "batch"
               PROVE  \/ \A d \in request[h].dids : Has(d) /\ Complete(d)
                      \/ \A d \in request[h].dids : ~Has(d) /\ ~Stored(<<d, "doc">>)
    BY DEF BatchIsAtomic, Op
  <2>1. \A d \in request[h].dids : d \in DID /\ Method[d] = "key" /\ Touched(d) /\ Keyed(d)
    BY <1>1, RequestType, CreatorMakes DEF SInv, ServiceTypeOK, About
  <2>2. \A d \in request[h].dids : Whole(d, "doc") => Complete(d)
    BY <2>1 DEF Whole, Complete, UsesOf
  <2>3. \A d \in request[h].dids : ~Has(d) => ~Stored(<<d, "doc">>)
    BY <2>1 DEF Keyed, Clean, Use
  <2> QED BY <1>1, <2>2, <2>3 DEF SInv, Batch
<1> QED BY <1>1, ServiceInvariant, PTL

\* What a creation that was answered made is complete and of one piece
\* (CreateDIDByMethod, BatchCreateDIDs), unless creations of it overlapped.
THEOREM ServiceCreatedIsComplete ==
  ASSUME KeysApart
  PROVE  Spec => []CreatedIsComplete
<1>1. ASSUME SInv, Answered PROVE CreatedIsComplete
  <2> SUFFICES ASSUME NEW h \in Handler, NEW d \in Created(h) \ overlapped PROVE Complete(d)
    BY DEF CreatedIsComplete
  <2>1. reply[h] = 201 /\ Op(h) \in Creating \cup {"batch"}
        /\ d \in (IF Op(h) = "batch" THEN request[h].dids ELSE {Target(h)})
    BY <1>1 DEF Created, Answered, Op
  <2>2. d \in DID
    BY <1>1, <2>1, RequestType DEF SInv, ServiceTypeOK
  <2>3. CASE Op(h) = "batch"
    <3>1. Whole(d, "doc") /\ Method[d] = "key"
      BY <1>1, <2>1, <2>3, RequestType DEF SInv, ServiceTypeOK, Batch
    <3> QED BY <3>1 DEF Whole, Complete, UsesOf
  <2>4. CASE Op(h) \in Creating
    <3>1. d = Target(h) /\ Clean(d)
      BY <2>1, <2>4 DEF Clean, Creating
    <3>2. dids[d].by = h /\ \A u \in UsesOf(d) : Whole(d, u)
      BY <1>1, <2>1, <2>4, <3>1 DEF SInv, Creation
    <3>3. "doc" \in UsesOf(d)
      BY <2>2, Uses
    <3> QED BY <3>2, <3>3 DEF Whole, Complete
  <2> QED BY <2>1, <2>3, <2>4
<1> QED BY <1>1, ServiceInvariant, PTL

------------------------------------------------------------------------------
\* Which documents a step writes.
LEMMA WrittenDocument ==
  ASSUME SInv, NEW h \in Handler, Acts(h), NEW d \in DID, dids[d].deleted, Listed(d)'
  PROVE  /\ dids'[d].by \notin since[d]
         /\ states'[d] # states[d] => Last(states[d]).op \notin since[d]
<1>1. Deleted(d) /\ Kept(d) /\ ServiceTypeOK /\ dids'[d] # dids[d] /\ ~dids'[d].deleted
  BY DEF SInv, About, Listed
<1>2. \A g \in since[d] : Op(g) = "update"
  BY <1>1 DEF Deleted
<1>3. CASE StoreDID(h)
  <2>1. Op(h) \in Creating /\ dids' = [dids EXCEPT ![Target(h)] = Doc(h)] /\ states' = states
    BY <1>3 DEF StoreDID, Creates, Op
  <2>2. dids'[d].by = h
    BY <1>1, <2>1 DEF ServiceTypeOK, Doc
  <2> QED BY <1>2, <2>1, <2>2 DEF Creating
<1>4. CASE BatchCreateDIDs(h)
  <2>1. /\ Op(h) = "batch" /\ states' = states
        /\ dids' = [e \in DID |-> IF e \in request[h].dids THEN Doc(h) ELSE dids[e]]
    BY <1>4 DEF BatchCreateDIDs, Op
  <2>2. dids'[d].by = h
    BY <1>1, <2>1 DEF Doc
  <2> QED BY <1>2, <2>1, <2>2
<1>5. CASE Finishes(h)
  <2>1. /\ Status(Target(h)) = "Anchored"
        /\ dids' = [dids EXCEPT ![Target(h)] = Last(states[Target(h)]).doc]
    BY <1>5 DEF Finishes, ApplyUpdate
  <2>2. d = Target(h) /\ dids'[d] = Last(states[d]).doc
    BY <1>1, <2>1 DEF ServiceTypeOK
  <2>3. InStore(d) /\ Last(states[d]) \in Records(d)
    <3>1. InStore(d) /\ states[d] # <<>>
      BY <2>1, <2>2 DEF InStore, Status
    <3> QED BY <3>1, RecordType DEF SInv
  <2>4. Last(states[d]).op \notin since[d]
    BY <1>1, <2>2, <2>3 DEF Deleted
  <2>5. dids'[d].by \notin since[d]
    <3>1. dids'[d].by = dids[d].by /\ ~Updating(dids[d].by)
      BY <1>1, <2>2, <2>3 DEF Kept
    <3>2. since[d] \subseteq Handler
      BY <1>1 DEF ServiceTypeOK
    <3> QED BY <1>2, <3>1, <3>2 DEF Updating
  <2> QED BY <2>4, <2>5
<1>6. CASE WriteDeleted(h)
  <2>1. local[h][1] \in Document
    <3>1. local[h] \in Seq(Document) /\ Len(local[h]) = 1
      BY <1>6 DEF SInv, Phase, WriteDeleted, Op
    <3> QED BY <3>1, ElementOfSeq
  <2>2. dids' = [dids EXCEPT ![Target(h)] = [local[h][1] EXCEPT !.deleted = TRUE]]
    BY <1>6 DEF WriteDeleted
  <2> QED BY <1>1, <2>1, <2>2 DEF ServiceTypeOK, Document
<1>7. CASE UNCHANGED dids
  BY <1>1, <1>7
<1>8. ~(StoreDID(h) \/ BatchCreateDIDs(h) \/ Finishes(h) \/ WriteDeleted(h)) => UNCHANGED dids
  BY DEF Acts, End, AnchoredInVain, AnchoringFails, CreateKey, StartWeb, CreateIon, ToStoring,
     PrepareUpdate, AnchorTaken, AnchorFails, RecordAnchor, ReadToDelete, StartStoring,
     StartRevoking, Publishing, Keeps, KeyOnly
<1> QED BY <1>3, <1>4, <1>5, <1>6, <1>7, <1>8

\* What is soft deleted (SoftDeleteDIDByMethod) is listed again only through a
\* request that had begun before the deletion was written.
THEOREM ServiceDeletedStaysDeleted ==
  ASSUME KeysApart
  PROVE  Spec => DeletedStaysDeleted
<1> DEFINE Stays == \A d \in DID : (dids[d].deleted /\ Listed(d)')
              => /\ dids'[d].by \notin since[d]
                 /\ states'[d] # states[d] => Last(states[d]).op \notin since[d]
<1>1. ASSUME SInv, [Next]_vars PROVE Stays \/ UNCHANGED vars
  <2>1. ASSUME NEW h \in Handler, Step(h) \/ Stop(h), NEW d \in DID, dids[d].deleted, Listed(d)'
        PROVE  /\ dids'[d].by \notin since[d]
               /\ states'[d] # states[d] => Last(states[d]).op \notin since[d]
    BY <1>1, <2>1, StepActs, WrittenDocument DEF SInv
  <2> QED BY <1>1, <2>1 DEF Next, Done
<1>2. SInv /\ [Next]_vars => [Stays]_vars
  BY <1>1
<1> QED BY <1>2, ServiceInvariant, PTL DEF Spec, DeletedStaysDeleted

------------------------------------------------------------------------------
\* What was revoked, and what a request that stores a key has yet to store: its
\* secret is nowhere before it is written, so that no revocation has read it.
ToStore(h) == Op(h) = "storeKey" /\ pc[h] # "ended"

Fresh(h) ==
  LET id == request[h].id IN
  ToStore(h) =>
    /\ private[id].secret # h /\ <<id, h>> \notin withdrawn
    /\ \A g \in Handler : Op(g) = "revokeKey" /\ Keeping(g) /\ request[g].id = id =>
         Head(storing[g]).key.secret # h

Withdrawn ==
  /\ \A id \in KeyId : \A x \in Secret : <<id, x>> \in withdrawn =>
       /\ ~Touched(id[1])
       /\ private[id].secret = x => private[id].revoked
  /\ \A h \in Handler : Fresh(h)

\* A key nobody creates or updates is written by a request for it, when that ends.
LEMMA KeyWritten ==
  ASSUME SInv, KeysApart, NEW h \in Handler, Acts(h), NEW id \in KeyId, ~Touched(id[1]),
         private'[id] # private[id]
  PROVE  /\ Keeps(h) /\ Op(h) \in {"storeKey", "revokeKey"} /\ request[h].id = id
         /\ private'[id] = Head(storing[h]).key /\ pc'[h] = "ended"
<1>0. request \in Workload /\ ServiceTypeOK /\ request[h].did = Target(h)
  BY DEF SInv, ServiceTypeOK, Target
<1>1. id \in DID \X Use /\ \A d \in DID : \A u \in Use : <<d, u>>[1] = d
  BY DIDAssumption
<1>2. \A d \in DID : Touches(request[h], d) => d # id[1]
  BY DEF Touched
<1>3. CASE Keeps(h)
  <2>1. Keeping(h) /\ private' = [private EXCEPT ![Head(storing[h]).id] = Head(storing[h]).key]
    BY <1>3 DEF Keeps, WritePrivate, Keeping
  <2>2. Head(storing[h]).id = id /\ private'[id] = Head(storing[h]).key
    BY <1>0, <2>1, NextKey DEF ServiceTypeOK
  <2>3. ~(Op(h) \in Creating)
    <3> SUFFICES ASSUME Op(h) \in Creating PROVE FALSE
      OBVIOUS
    <3>1. id[1] = Target(h) /\ Makes(request[h], Target(h))
      BY <2>1, <2>2, <1>0, NextKey, CreatorMakes DEF Creating
    <3> QED BY <3>1, <1>0, <1>2, RequestType DEF Touches
  <2>4. Op(h) \in {"storeKey", "revokeKey"} /\ request[h].id = id /\ ~(Len(storing[h]) > 1)
    BY <2>1, <2>2, <2>3, NextKey
  <2>5. Succeed(h)
    BY <1>3, <2>4 DEF Keeps, WritePrivate
  <2>6. pc'[h] = "ended"
    BY <1>0, <2>5 DEF Succeed, Respond, GoTo, ServiceTypeOK
  <2> QED BY <1>3, <2>2, <2>4, <2>6
<1>4. ~BatchCreateDIDs(h)
  <2> SUFFICES ASSUME BatchCreateDIDs(h) PROVE FALSE
    OBVIOUS
  <2>1. Op(h) = "batch" /\ StoreInTransaction(request[h].dids \X {"doc"}, NewKey(h))
    BY DEF BatchCreateDIDs, Op
  <2>2. \A d \in request[h].dids : d \in DID /\ Touches(request[h], d)
    BY <1>0, <2>1, RequestType, CreatorMakes DEF Touches
  <2>3. id \notin request[h].dids \X {"doc"}
    BY <1>2, <2>2
  <2> QED BY <2>1, <2>3 DEF StoreInTransaction
<1>5. ASSUME NEW u \in Use, NEW key, Op(h) = "update", StoreInTransaction({<<Target(h), u>>}, key)
      PROVE  FALSE
  <2>1. Touches(request[h], Target(h)) /\ Target(h) \in DID
    BY <1>0, <1>5, RequestType DEF Touches, Op
  <2>2. id # <<Target(h), u>>
    BY <1>2, <2>1
  <2> QED BY <1>5, <2>2 DEF StoreInTransaction
<1>6. ~PrepareUpdate(h) /\ ~Finishes(h)
  <2>1. "staging" \in Use /\ "update" \in Use
    BY DEF Use
  <2>2. CASE PrepareUpdate(h)
    <3>1. Op(h) = "update" /\ PutAside(h, Target(h))
      BY <2>2 DEF PrepareUpdate, Op
    <3> QED BY <1>5, <2>1, <3>1 DEF PutAside, keyVars
  <2>3. CASE Finishes(h)
    <3>1. Op(h) = "update"
      BY <2>3 DEF Finishes, ApplyUpdate, SInv, Phase
    <3> QED BY <1>5, <2>1, <2>3, <3>1 DEF Finishes, ApplyUpdate
  <2> QED BY <2>2, <2>3
<1>7. ~(Keeps(h) \/ BatchCreateDIDs(h) \/ PrepareUpdate(h) \/ Finishes(h)) => UNCHANGED private
  BY DEF Acts, End, AnchoredInVain, AnchoringFails, CreateKey, StartWeb, CreateIon, ToStoring,
     AnchorTaken, AnchorFails, RecordAnchor, ReadToDelete, StartStoring, StoreDID, WriteDeleted,
     StartRevoking, Publishing, StoreKey, RevokeKey, WritePublic, StoreKeys
<1> QED BY <1>3, <1>4, <1>6, <1>7

\* A revocation is recorded when it is answered.
LEMMA WithdrawnBy ==
  ASSUME SInv, NEW h \in Handler, Step(h) \/ Stop(h)
  PROVE  \/ withdrawn' = withdrawn
         \/ /\ Keeps(h) /\ Op(h) = "revokeKey"
            /\ withdrawn' = withdrawn \cup {<<request[h].id, Head(storing[h]).key.secret>>}
<1> SUFFICES ASSUME withdrawn' # withdrawn
             PROVE  /\ Keeps(h) /\ Op(h) = "revokeKey"
                    /\ withdrawn' = withdrawn \cup {<<request[h].id, Head(storing[h]).key.secret>>}
  OBVIOUS
<1>1. KeyRoutes(h)
  <2>1. ~Stop(h)
    BY DEF Stop, Fail, history
  <2>2. ~CreateDIDByMethod(h)
    BY DEF CreateDIDByMethod, Refused, CreateKey, CreateWeb, CreateIon, AnchoringFails, StoreDID,
       ToStoring, Begin, Fail, history
  <2>3. ~BatchCreate(h)
    BY DEF BatchCreate, Refused, BatchCreateDIDs, history
  <2>4. ~UpdateDIDByMethod(h)
    BY DEF UpdateDIDByMethod, Refused, PrepareUpdate, Begin, UpdateImpossible, AnchorTaken,
       AnchorFails, RecordAnchor, ApplyUpdate, history
  <2>5. ~SoftDeleteDIDByMethod(h)
    BY DEF SoftDeleteDIDByMethod, Refused, ReadToDelete, WriteDeleted, history
  <2>6. ~GetDIDByMethod(h) /\ ~ResolveDID(h) /\ ~ListDIDsByMethod(h)
    BY DEF GetDIDByMethod, ResolveDID, ListDIDsByMethod, Read, history
  <2> QED BY <2>1, <2>2, <2>3, <2>4, <2>5, <2>6 DEF Step
<1>2. /\ Op(h) = "revokeKey" /\ pc[h] = "private" /\ KeyStep(h) /\ KeyOnly(h)
      /\ withdrawn' = withdrawn \cup {<<request[h].id, Head(storing[h]).key.secret>>}
  BY <1>1 DEF KeyRoutes, Withdraw, Op, KeyOnly
<1>3. WritePrivate(h)
  BY <1>2 DEF KeyStep, PutKey, GetKey, DeleteKey, BadRequest, StoreKey, GetKeyDetails, RevokeKey,
     Sign, WritePublic
<1> QED BY <1>2, <1>3 DEF Keeps

LEMMA WithdrawnKept ==
  ASSUME SInv, KeysApart, Withdrawn, NEW h \in Handler, Step(h) \/ Stop(h)
  PROVE  Withdrawn'
<1>0. /\ request \in Workload /\ ServiceTypeOK /\ Acts(h) /\ request' = request
      /\ \A g \in Handler : Op(g)' = Op(g) /\ request[g].id \in KeyId
      /\ \A id : Touched(id[1])' <=> Touched(id[1])
  <2>1. Acts(h)
    BY StepActs DEF SInv
  <2>2. request' = request
    BY <2>1 DEF Acts, End, AnchoredInVain, AnchoringFails, CreateKey, StartWeb, CreateIon, ToStoring,
       AnchorTaken, AnchorFails, RecordAnchor, ReadToDelete, StartStoring, StoreDID, WriteDeleted,
       StartRevoking, Publishing, StoreKey, RevokeKey, WritePublic, StoreKeys, Keeps, WritePrivate,
       BatchCreateDIDs, PrepareUpdate, Finishes, ApplyUpdate
  <2> QED BY <2>1, <2>2, RequestType DEF SInv, ServiceTypeOK, Op, Touched
<1>1. \A id \in KeyId : ~Touched(id[1]) /\ private'[id] # private[id] =>
        /\ Keeps(h) /\ Op(h) \in {"storeKey", "revokeKey"} /\ request[h].id = id
        /\ private'[id] = Head(storing[h]).key /\ pc'[h] = "ended"
  BY <1>0, KeyWritten
<1>2. ASSUME Keeps(h), Op(h) \in {"storeKey", "revokeKey"}
      PROVE  /\ Keeping(h) /\ private'[request[h].id] = Head(storing[h]).key
             /\ Head(storing[h]).key \in PrivateKey /\ ~Touched(request[h].id[1])
             /\ Op(h) = "storeKey" => Head(storing[h]).key.secret = h /\ ToStore(h)
             /\ Op(h) = "revokeKey" => Head(storing[h]).key.revoked
             /\ pc'[h] = "ended"
  <2>1. Keeping(h) /\ pc[h] = "private"
    BY <1>2 DEF Keeps, WritePrivate, Keeping
  <2>2. /\ Head(storing[h]).id = request[h].id /\ Head(storing[h]).key \in PrivateKey
        /\ ~Touched(request[h].id[1]) /\ (Op(h) = "revokeKey" => Head(storing[h]).key.revoked)
        /\ ~(Len(storing[h]) > 1)
    BY <1>2, <2>1, NextKey DEF Creating
  <2>3. private'[request[h].id] = Head(storing[h]).key
    BY <1>0, <1>2, <2>2 DEF Keeps, WritePrivate, ServiceTypeOK
  <2>4. Op(h) = "storeKey" => Head(storing[h]).key.secret = h
    <3>1. Op(h) = "storeKey" => storing[h] = <<Write(request[h].id, NewKey(h))>>
      BY <2>1 DEF SInv, Phase
    <3> QED BY <3>1 DEF Write, NewKey
  <2>5. pc'[h] = "ended"
    BY <1>0, <1>2, <2>2 DEF Keeps, WritePrivate, Succeed, Respond, GoTo, ServiceTypeOK
  <2> QED BY <2>1, <2>2, <2>3, <2>4, <2>5 DEF ToStore
<1>3. \A g \in Handler \ {h} : pc'[g] = pc[g] /\ storing'[g] = storing[g]
  BY <1>0, OthersWait DEF Waiting
<1>4. \A p : p \in withdrawn' /\ p \notin withdrawn =>
        /\ Keeps(h) /\ Op(h) = "revokeKey"
        /\ p = <<request[h].id, Head(storing[h]).key.secret>>
  BY WithdrawnBy
<1>5. ASSUME NEW id \in KeyId, NEW x \in Secret, <<id, x>> \in withdrawn'
      PROVE  ~Touched(id[1]) /\ (private'[id].secret = x => private'[id].revoked)
  <2>1. CASE <<id, x>> \notin withdrawn
    <3>1. Keeps(h) /\ Op(h) = "revokeKey" /\ <<id, x>> = <<request[h].id, Head(storing[h]).key.secret>>
      BY <1>4, <1>5, <2>1
    <3>2. id = request[h].id
      BY <3>1
    <3> QED BY <1>2, <3>1, <3>2
  <2>2. CASE <<id, x>> \in withdrawn
    <3>1. ~Touched(id[1]) /\ (private[id].secret = x => private[id].revoked)
      BY <2>2 DEF Withdrawn
    <3>2. CASE private'[id] = private[id]
      BY <3>1, <3>2
    <3>3. CASE private'[id] # private[id]
      <4>1. /\ Keeps(h) /\ Op(h) \in {"storeKey", "revokeKey"} /\ request[h].id = id
        BY <1>1, <3>1, <3>3
      <4>2. CASE Op(h) = "revokeKey"
        BY <1>2, <4>1, <4>2
      <4>3. CASE Op(h) = "storeKey"
        <5>1. ToStore(h) /\ private'[id].secret = h
          BY <1>2, <4>1, <4>3
        <5>2. <<id, h>> \notin withdrawn
          BY <4>1, <5>1 DEF Withdrawn, Fresh
        <5> QED BY <2>2, <3>1, <5>1, <5>2
      <4> QED BY <4>1, <4>2, <4>3
    <3> QED BY <3>2, <3>3
  <2> QED BY <2>1, <2>2
<1>6. ASSUME NEW g \in Handler PROVE Fresh(g)'
  <2> DEFINE id == request[g].id
  <2> SUFFICES ASSUME ToStore(g)'
               PROVE  /\ private'[id].secret # g /\ <<id, g>> \notin withdrawn'
                      /\ \A s \in Handler : Op(s) = "revokeKey" /\ Keeping(s)' /\ request[s].id = id =>
                           Head(storing'[s]).key.secret # g
    BY <1>0 DEF Fresh
  <2>1. Op(g) = "storeKey" /\ pc'[g] # "ended" /\ pc[g] # "ended"
    <3>1. pc[h] # "ended"
      BY <1>0 DEF Acts, End, AnchoredInVain, AnchoringFails, CreateKey, StartWeb, CreateWeb, CreateIon,
         AnchorTaken, AnchorFails, RecordAnchor, ReadToDelete, StartStoring, StoreDID, WriteDeleted,
         StartRevoking, Publishing, StoreKey, RevokeKey, WritePublic, Keeps, WritePrivate,
         BatchCreateDIDs, PrepareUpdate, Finishes, ApplyUpdate
    <3> QED BY <1>0, <1>3, <3>1 DEF ToStore
  <2>2. /\ private[id].secret # g /\ <<id, g>> \notin withdrawn
        /\ \A s \in Handler : Op(s) = "revokeKey" /\ Keeping(s) /\ request[s].id = id =>
             Head(storing[s]).key.secret # g
    BY <2>1 DEF Withdrawn, Fresh, ToStore
  <2>3. id \in KeyId /\ ~Touched(id[1])
    BY <1>0, <2>1, Apart
  <2>4. private'[id].secret # g
    <3>1. CASE private'[id] = private[id]
      BY <2>2, <3>1
    <3>2. CASE private'[id] # private[id]
      <4>1. /\ Keeps(h) /\ Op(h) \in {"storeKey", "revokeKey"} /\ request[h].id = id
            /\ private'[id] = Head(storing[h]).key /\ pc'[h] = "ended"
        BY <1>1, <2>3, <3>2
      <4>2. h # g
        BY <2>1, <4>1
      <4> QED BY <1>2, <2>2, <4>1, <4>2
    <3> QED BY <3>1, <3>2
  <2>5. <<id, g>> \notin withdrawn'
    BY <1>2, <1>4, <2>2
  <2>6. ASSUME NEW s \in Handler, Op(s) = "revokeKey", Keeping(s)', request[s].id = id
        PROVE  Head(storing'[s]).key.secret # g
    <3>1. CASE s # h
      BY <1>3, <2>2, <2>6, <3>1 DEF Keeping
    <3>2. CASE s = h /\ Keeping(h) /\ storing'[h] = storing[h]
      BY <2>2, <2>6, <3>2
    <3>3. CASE s = h /\ StartRevoking(h)
      <4>1. PICK key : key = [private[id] EXCEPT !.revoked = TRUE]
        OBVIOUS
      <4>2. PICK w : w = Write(id, key)
        OBVIOUS
      <4>3. request[h].id = id /\ storing' = [storing EXCEPT ![h] = <<w>>]
        BY <2>6, <3>3, <4>1, <4>2 DEF StartRevoking, RevokeKey, StoreKeys
      <4>4. storing'[h] = <<w>> /\ w.key = key
        BY <1>0, <4>2, <4>3 DEF Write, ServiceTypeOK
      <4>5. key.secret = private[id].secret
        BY <1>0, <2>3, <4>1 DEF ServiceTypeOK, PrivateKey
      <4>6. Head(storing'[h]).key.secret = private[id].secret
        BY <4>4, <4>5
      <4> QED BY <2>2, <3>3, <4>6
    <3>4. s = h => StartRevoking(h) \/ (Keeping(h) /\ storing'[h] = storing[h])
      <4> SUFFICES ASSUME s = h PROVE StartRevoking(h) \/ (Keeping(h) /\ storing'[h] = storing[h])
        OBVIOUS
      <4>1. Op(h) = "revokeKey" /\ pc'[h] # "ended"
        BY <2>6 DEF Keeping
      <4>2. ~Keeps(h)
        BY <1>2, <4>1
      <4>3. ~End(h)
        BY <1>0, <4>1 DEF End, Respond, GoTo, ServiceTypeOK
      <4>4. StartRevoking(h) \/ Publishing(h)
        BY <1>0, <4>1, <4>2, <4>3 DEF Acts, AnchoredInVain, AnchoringFails, CreateKey, StartWeb,
           CreateWeb, CreateIon, AnchorTaken, AnchorFails, RecordAnchor, ReadToDelete, StartStoring,
           StoreDID, Creates, Creating, WriteDeleted, StoreKey, BatchCreateDIDs, PrepareUpdate,
           Finishes, ApplyUpdate, SInv, Phase, Op
      <4> QED BY <4>4 DEF Publishing, WritePublic, Keeping
    <3> QED BY <3>1, <3>2, <3>3, <3>4
  <2> QED BY <2>4, <2>5, <2>6
<1> QED BY <1>0, <1>5, <1>6 DEF Withdrawn

\* However many requests store and revoke a key at once (StoreKey, RevokeKey), what a
\* revocation that was answered has withdrawn is never signed with again (Sign).
THEOREM ServiceRevokedSignsNothing ==
  ASSUME KeysApart
  PROVE  Spec => RevokedSignsNothing
<1> DEFINE Silent == \A h \in Handler : LET id == request[h].id IN
             request[h].op = "sign" /\ reply[h] = 0 /\ reply'[h] = 200
               => <<id, private[id].secret>> \notin withdrawn
<1>1. Init => Withdrawn
  <2> SUFFICES ASSUME Init PROVE Withdrawn
    OBVIOUS
  <2>1. withdrawn = {}
    BY DEF Init
  <2>2. \A h \in Handler : request[h].id \in KeyId /\ ~Keeping(h)
    <3>1. request \in Workload /\ pc = [h \in Handler |-> "begin"]
      BY DEF Init
    <3> QED BY <3>1, RequestType DEF Keeping
  <2>3. \A id \in KeyId : private[id].secret \in {Old, None}
    <3> DEFINE Known(id, S) == id[1] \in S /\ id[2] \in UsesOf(id[1])
    <3>1. PICK here \in {{}, Existing} :
            private = [id \in KeyId |-> IF Known(id, here) THEN NewKey(Old) ELSE NoKey]
      BY DEF Init
    <3> QED BY <3>1 DEF NewKey, NoKey
  <2>4. Old \notin Handler /\ None \notin Handler
    BY DIDAssumption
  <2>5. \A h \in Handler : Fresh(h)
    BY <2>1, <2>2, <2>3, <2>4 DEF Fresh
  <2> QED BY <2>1, <2>5 DEF Withdrawn
<1>2. ASSUME SInv, Withdrawn, [Next]_vars PROVE Withdrawn'
  <2>1. CASE UNCHANGED vars
    BY <1>2, <2>1 DEF vars, history, Withdrawn, Fresh, ToStore, Touched, Op, Keeping
  <2> QED BY <1>2, <2>1, WithdrawnKept DEF Next, Done
<1>3. ASSUME SInv, Withdrawn, [Next]_vars PROVE Silent
  <2> SUFFICES ASSUME NEW h \in Handler, Op(h) = "sign", reply[h] = 0, reply'[h] = 200
               PROVE  <<request[h].id, private[request[h].id].secret>> \notin withdrawn
    BY DEF Op
  <2>1. ~UNCHANGED vars
    BY DEF vars
  <2>2. PICK s \in Handler : Step(s) \/ Stop(s)
    BY <1>3, <2>1 DEF Next, Done
  <2>3. s = h
    BY <1>3, <2>2, StepAnswers
  <2>4. ~private[request[h].id].revoked
    BY <1>3, <2>2, <2>3, RefusedSignature
  <2>5. request[h].id \in KeyId /\ private[request[h].id].secret \in Secret
    BY <1>3, RequestType DEF SInv, ServiceTypeOK, PrivateKey
  <2> QED BY <1>3, <2>4, <2>5 DEF Withdrawn
<1>4. SInv /\ Withdrawn /\ [Next]_vars => [Silent]_vars
  BY <1>3
<1> QED BY <1>1, <1>2, <1>4, ServiceInvariant, PTL DEF Spec, RevokedSignsNothing
================================================================================
