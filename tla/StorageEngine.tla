---------------------------- MODULE StorageEngine ----------------------------
(***************************************************************************)
(* core/storage: the two engines a service may be configured with, Bolt    *)
(* and Redis, behind the wrapper that encrypts every value under a service *)
(* key.  Bolt holds one writer's lock through a transaction; Redis watches *)
(* keys, queues the writes, and starts again when a watched key was        *)
(* touched.  Callers are handlers of one server or, with Redis, of several *)
(* instances; each makes one call, step by step.                           *)
(***************************************************************************)
EXTENDS Naturals, Sequences, FiniteSetsExt

CONSTANTS Client, NoClient,
          Key,          \* keys with their namespace
          Order,        \* Key as a sequence: Bolt's order, and Redis' buckets
          Namespace,    \* Namespace[k]
          Longer,       \* Longer[n]: other namespaces whose names start with n
          ServiceKey,   \* where the key that seals the values is kept
          Workload,     \* calls the clients may make: a set of functions
          Stored,       \* the keys that may be present at the start
          ScanBatch     \* buckets a SCAN visits (1000 in redis.go)

ASSUME EngineAssumption ==
  /\ NoClient \notin Client
  /\ ServiceKey \in Key
  /\ \A w \in Workload : \A c \in Client :
       /\ w[c].op \in {"update", "ensure", "write", "delete", "list", "keys"}
       /\ w[c].keys \in Seq(Key)
\* The service key has a namespace of its own, which only ensure writes to; an
\* update is of a value, or of a value and its operation; a page has a size.
ASSUME WorkloadAssumption ==
  \A w \in Workload : \A c \in Client :
    /\ w[c].op = "ensure" => w[c].keys = <<ServiceKey>>
    /\ w[c].op \in {"update", "write", "delete"} =>
         \A i \in DOMAIN w[c].keys : w[c].keys[i] # ServiceKey
    /\ w[c].op = "update" => Len(w[c].keys) \in 1..2
    /\ w[c].op \in {"list", "keys"} => w[c].size \in Nat \ {0}
\* Every key has one place in the order.
ASSUME OrderAssumption ==
  /\ Order \in Seq(Key)
  /\ \A k \in Key : \E i \in DOMAIN Order : Order[i] = k
  /\ \A i, j \in DOMAIN Order : Order[i] = Order[j] => i = j
ASSUME ScanBatchAssumption == ScanBatch \in Nat \ {0}
\* What was stored before was stored under a service key.
ASSUME StoredAssumption == Stored \subseteq Key /\ (Stored = {} \/ ServiceKey \in Stored)

VARIABLES engine,    \* "bolt" or "redis"
          request,   \* request[c]: the call c makes
          store,     \* the stored value of each key
          buckets,   \* Bolt: namespaces that were written to once
          writer,    \* Bolt: the holder of the writer's lock
          dirty,     \* Redis: clients a watched key of which was touched
          pc, answer,
          queue,     \* queue[c]: what its transaction will write, in order
          listing    \* listing[c]: cursor; how often a key was found for the
                     \* page, and was returned so far; keys there all the time

vars == <<engine, request, store, buckets, writer, dirty, pc, answer, queue, listing>>

Missing == [by |-> {}, seal |-> {}]
Present(k) == store[k] # Missing
Generator == store[ServiceKey].by

Initially(k) ==
  IF k = ServiceKey THEN [by |-> {NoClient}, seal |-> {}]
  ELSE [by |-> {NoClient}, seal |-> {NoClient}]

NoKeys == [k \in Key |-> 0]

AvailableStorage == {"bolt", "redis"}

Init ==
  /\ engine \in AvailableStorage
  /\ request \in Workload
  /\ \E here \in {{}, Stored} :
       /\ store = [k \in Key |-> IF k \in here THEN Initially(k) ELSE Missing]
       /\ buckets = {Namespace[k] : k \in here}
  /\ writer = NoClient
  /\ dirty = {}
  /\ pc = [c \in Client |-> "idle"]
  /\ answer = [c \in Client |-> "none"]
  /\ queue = [c \in Client |-> <<>>]
  /\ listing = [c \in Client |->
       [cursor |-> 0, page |-> NoKeys, got |-> NoKeys, owed |-> {}]]

Target(c) == {request[c].keys[i] : i \in DOMAIN request[c].keys}
Transaction(c) == request[c].op \in {"update", "ensure"}
Updaters == {c \in Client : request[c].op = "update"}
Watching(c) == Transaction(c) /\ pc[c] \in {"read", "open", "commit"}

GoTo(c, step) == pc' = [pc EXCEPT ![c] = step]
Answer(c, a) == answer' = [answer EXCEPT ![c] = a] /\ GoTo(c, "ended")

\* The keys in ks get the values new[k].
Put(ks, new) ==
  /\ store' = [k \in Key |-> IF k \in ks THEN new[k] ELSE store[k]]
  /\ buckets' = buckets \cup {Namespace[k] : k \in {x \in ks : new[x] # Missing}}
  /\ dirty' = dirty \cup {c \in Client : Watching(c) /\ Target(c) \cap ks # {}}
  /\ listing' = [c \in Client |->
       [listing[c] EXCEPT !.owed = {k \in @ : k \in ks => new[k] # Missing}]]

------------------------------------------------------------------------------
\* Execute of Bolt: waits for the writer's lock; the watched keys are ignored.
LockWriter(c) ==
  /\ pc[c] = "idle" /\ Transaction(c)
  /\ engine = "bolt" /\ writer = NoClient
  /\ writer' = c
  /\ GoTo(c, "read")
  /\ UNCHANGED <<engine, request, store, buckets, dirty, answer, queue, listing>>

\* Execute of Redis: WATCH for the keys the transaction will write.
Watch(c) ==
  /\ pc[c] = "idle" /\ Transaction(c)
  /\ engine = "redis"
  /\ dirty' = dirty \ {c}
  /\ queue' = [queue EXCEPT ![c] = <<>>]
  /\ GoTo(c, "read")
  /\ UNCHANGED <<engine, request, store, buckets, writer, answer, listing>>

\* Bolt's lock, after a commit and after a rollback for an error of the logic.
Release(c) == writer' = IF writer = c THEN NoClient ELSE writer

Fail(c) ==
  /\ Answer(c, "failed")
  /\ Release(c)
  /\ UNCHANGED <<engine, request, store, buckets, dirty, queue, listing>>

\* update: read, validate and change one key after the other.  The reads see
\* what is committed; the writes are queued.
NextKey(c) == request[c].keys[Len(queue[c]) + 1]

Updatable(c, k) ==
  /\ Present(k)
  /\ Len(queue[c]) = 1 => store[k].by \cap Updaters = {}

ReadForUpdate(c) ==
  /\ pc[c] = "read" /\ request[c].op = "update"
  /\ Updatable(c, NextKey(c))
  /\ queue' = [queue EXCEPT ![c] =
       Append(@, [store[NextKey(c)] EXCEPT !.by = @ \cup {c}])]
  /\ GoTo(c, "open")
  /\ UNCHANGED <<engine, request, store, buckets, writer, dirty, answer, listing>>

\* What was read is opened with the service key of now, and sealed with it again.
Open(c) ==
  /\ pc[c] = "open" /\ request[c].op = "update"
  /\ queue[c][Len(queue[c])].seal = Generator
  /\ GoTo(c, IF Len(queue[c]) = Len(request[c].keys) THEN "commit" ELSE "read")
  /\ UNCHANGED <<engine, request, store, buckets, writer, dirty, answer, queue, listing>>

\* ensureEncryptionKeyExists: an instance that starts generates the service key
\* when none is stored, past the encrypting wrapper.
ReadServiceKey(c) ==
  /\ pc[c] = "read" /\ request[c].op = "ensure"
  /\ IF Present(ServiceKey) THEN UNCHANGED queue
     ELSE queue' = [queue EXCEPT ![c] = <<[by |-> {c}, seal |-> {}]>>]
  /\ GoTo(c, "commit")
  /\ UNCHANGED <<engine, request, store, buckets, writer, dirty, answer, listing>>

\* MUTANT of LockLost: nothing is watched.
LockLost_Never(c) == FALSE

\* EXEC is refused when a watched key was touched; without writes none is sent.
LockLost(c) == engine = "redis" /\ c \in dirty /\ queue[c] # <<>>

\* All writes of the transaction at once.
WriteQueue(c) ==
  Put({request[c].keys[i] : i \in DOMAIN queue[c]},
      [k \in Target(c) |-> queue[c][CHOOSE i \in DOMAIN queue[c] : request[c].keys[i] = k]])

Commit(c) ==
  /\ pc[c] = "commit" /\ engine = "bolt"
  /\ WriteQueue(c)
  /\ Release(c)
  /\ Answer(c, "done")
  /\ UNCHANGED <<engine, request, queue>>

\* EXEC, of which the reply may get lost.
Exec(c) ==
  /\ pc[c] = "commit" /\ engine = "redis" /\ ~LockLost(c)
  /\ WriteQueue(c)
  /\ Answer(c, "done") \/ Answer(c, "failed")
  /\ UNCHANGED <<engine, request, writer, queue>>

\* MUTANT of Retry: the logic runs again without a new WATCH.
Retry_Unwatched(c) ==
  /\ pc[c] = "commit" /\ LockLost(c)
  /\ queue' = [queue EXCEPT ![c] = <<>>]
  /\ GoTo(c, "read")
  /\ UNCHANGED <<engine, request, store, buckets, writer, dirty, answer, listing>>

\* Backoff: everything starts again from WATCH, or the time is up (Refuse).
Retry(c) ==
  /\ pc[c] = "commit" /\ LockLost(c)
  /\ GoTo(c, "idle")
  /\ UNCHANGED <<engine, request, store, buckets, writer, dirty, answer, queue, listing>>

Execute(c) ==
  \/ LockWriter(c) \/ Watch(c)
  \/ ReadForUpdate(c) \/ Open(c) \/ ReadServiceKey(c)
  \/ Commit(c) \/ Exec(c) \/ Retry(c)

------------------------------------------------------------------------------
\* Write and WriteMany: the values are sealed first; each engine writes them in
\* one step of its own.
Seal(c) ==
  /\ pc[c] = "idle" /\ request[c].op = "write"
  /\ Generator # {}
  /\ queue' = [queue EXCEPT ![c] =
       [i \in DOMAIN request[c].keys |-> [by |-> {c}, seal |-> Generator]]]
  /\ GoTo(c, "put")
  /\ UNCHANGED <<engine, request, store, buckets, writer, dirty, answer, listing>>

\* A call of Bolt outside Execute takes the lock for one step.
Unlocked == engine = "bolt" => writer = NoClient

WriteMany(c) ==
  /\ pc[c] = "put" /\ request[c].op = "write"
  /\ Unlocked
  /\ WriteQueue(c)
  /\ Answer(c, "done")
  /\ UNCHANGED <<engine, request, writer, queue>>

\* Redis asks one SCAN whether the namespace exists, and matches every key that
\* begins with its name; Bolt looks for the bucket inside its transaction.
Matches(n, k) ==
  Namespace[k] = n \/ (engine = "redis" /\ Namespace[k] \in Longer[n])

ScanFinds(n) ==
  \E i \in DOMAIN Order : i <= ScanBatch /\ Present(Order[i]) /\ Matches(n, Order[i])

NamespaceExists(c) ==
  LET n == Namespace[request[c].keys[1]]
  IN IF engine = "bolt" THEN n \in buckets ELSE ScanFinds(n)

LookForNamespace(c) ==
  /\ pc[c] = "idle" /\ request[c].op = "delete" /\ engine = "redis"
  /\ NamespaceExists(c)
  /\ GoTo(c, "put")
  /\ UNCHANGED <<engine, request, store, buckets, writer, dirty, answer, queue, listing>>

RemoveKey(c) ==
  /\ Put({k \in Target(c) : Present(k)}, [k \in Target(c) |-> Missing])
  /\ Answer(c, "done")
  /\ UNCHANGED <<engine, request, writer, queue>>

GetDel(c) == pc[c] = "put" /\ request[c].op = "delete" /\ RemoveKey(c)

DeleteOfBolt(c) ==
  /\ pc[c] = "idle" /\ request[c].op = "delete" /\ engine = "bolt"
  /\ Unlocked /\ NamespaceExists(c)
  /\ RemoveKey(c)

------------------------------------------------------------------------------
\* ReadPage, page after page; ReadAll, ReadPrefix and ReadAllKeys are one page.
StartList(c) ==
  /\ pc[c] = "idle" /\ request[c].op \in {"list", "keys"}
  /\ listing' = [listing EXCEPT ![c].owed =
       {k \in Key : Present(k) /\ Namespace[k] = request[c].namespace}]
  /\ GoTo(c, "page")
  /\ UNCHANGED <<engine, request, store, buckets, writer, dirty, answer, queue>>

\* The positions behind `from` of the keys the listing is about.
Rest(c, from) ==
  {i \in DOMAIN Order :
     i > from /\ Present(Order[i]) /\ Matches(request[c].namespace, Order[i])}

FirstOf(rest, size) == {i \in rest : Cardinality({j \in rest : j < i}) < size}

\* The keys at these positions were found once more.
Count(keys, positions) ==
  [k \in Key |-> IF \E i \in positions : Order[i] = k THEN keys[k] + 1 ELSE keys[k]]

Found(keys) == {k \in Key : keys[k] # 0}

\* MUTANT of NextToken: the token is the last key returned, not the one after it.
NextToken_Last(rest, page) == Max(page) - 1

\* Bolt's token is the first key that was not returned.
NextToken(rest, page) == Min(rest \ page) - 1

\* Bolt reads a page and its token in one snapshot.
PageOfBolt(c) ==
  LET rest == Rest(c, listing[c].cursor)
      page == FirstOf(rest, request[c].size)
  IN /\ pc[c] = "page" /\ engine = "bolt"
     /\ listing' = [listing EXCEPT
          ![c].got = Count(@, page),
          ![c].cursor = IF rest = page THEN 0 ELSE NextToken(rest, page)]
     /\ IF rest = page THEN Answer(c, "done") ELSE UNCHANGED <<pc, answer>>
     /\ UNCHANGED <<engine, request, store, buckets, writer, dirty, queue>>

\* Redis collects keys until there are enough or the cursor is back at 0.
Scan(c) ==
  LET l == listing[c]
      count == IF request[c].size < ScanBatch THEN request[c].size ELSE ScanBatch
      page == Count(l.page, {i \in Rest(c, l.cursor) : i <= l.cursor + count})
      next == IF l.cursor + count >= Len(Order) THEN 0 ELSE l.cursor + count
  IN /\ pc[c] = "page" /\ engine = "redis"
     /\ listing' = [listing EXCEPT ![c].page = page, ![c].cursor = next]
     /\ IF next = 0 \/ Cardinality(Found(page)) >= request[c].size
        THEN GoTo(c, "values") ELSE UNCHANGED pc
     /\ UNCHANGED <<engine, request, store, buckets, writer, dirty, answer, queue>>

\* MGET of the keys found: one that was deleted meanwhile reads as the text
\* "<nil>", which cannot be decrypted, and the call fails (ListFails).
Values(c) ==
  LET l == listing[c]
  IN /\ pc[c] = "values"
     /\ request[c].op = "keys" \/ \A k \in Found(l.page) : Present(k)
     /\ listing' = [listing EXCEPT
          ![c].got = [k \in Key |-> @[k] + l.page[k]], ![c].page = NoKeys]
     /\ IF l.cursor = 0 THEN Answer(c, "done") ELSE GoTo(c, "page") /\ UNCHANGED answer
     /\ UNCHANGED <<engine, request, store, buckets, writer, dirty, queue>>

------------------------------------------------------------------------------
\* Why a call fails: the update is not valid, the value cannot be opened, there
\* is no service key or no namespace, the time for retries is up, a deleted key
\* is decrypted.
Refused(c) ==
  \/ pc[c] = "read" /\ request[c].op = "update" /\ ~Updatable(c, NextKey(c))
  \/ pc[c] = "open" /\ queue[c][Len(queue[c])].seal # Generator
  \/ pc[c] = "commit" /\ LockLost(c)
  \/ pc[c] = "idle" /\ request[c].op = "write" /\ Generator = {}
  \/ /\ pc[c] = "idle" /\ request[c].op = "delete"
     /\ Unlocked /\ ~NamespaceExists(c)

ListFails(c) ==
  /\ pc[c] = "values" /\ request[c].op = "list"
  /\ \E k \in Found(listing[c].page) : ~Present(k)

Refuse(c) == (Refused(c) \/ ListFails(c)) /\ Fail(c)

\* The instance stops, or its connection is lost, before the call took effect.
Stop(c) == pc[c] \notin {"idle", "ended"} /\ Fail(c)

Step(c) ==
  \/ Execute(c) \/ Seal(c) \/ WriteMany(c)
  \/ LookForNamespace(c) \/ GetDel(c) \/ DeleteOfBolt(c)
  \/ StartList(c) \/ PageOfBolt(c) \/ Scan(c) \/ Values(c) \/ Refuse(c)

Done == (\A c \in Client : pc[c] = "ended") /\ UNCHANGED vars

Next == (\E c \in Client : Step(c) \/ Stop(c)) \/ Done

Spec == Init /\ [][Next]_vars

\* A call that was made goes on; the lock goes to every caller that waits for it.
FairSpec == Spec /\ \A c \in Client : WF_vars(Step(c))

------------------------------------------------------------------------------

\* Every stored value can be opened with the service key that is stored, however
\* many instances started at once and generated one.
SealedUnderServiceKey ==
  \A k \in Key \ {ServiceKey} : Present(k) => store[k].seal = Generator

\* A listing that was answered holds every key that was there all the time, and
\* none twice, although keys came and went between its pages.
ListedOnce ==
  \A c \in Client : answer[c] = "done" =>
    /\ \A k \in listing[c].owed : listing[c].got[k] # 0
    /\ \A k \in Key : listing[c].got[k] <= 1

\* Every call is as one step on the contents, for both engines: no update is lost
\* or applied twice, no operation is finished twice, and the answer tells.
Abstract == INSTANCE Store WITH contents <- [k \in Key |-> store[k].by]

ImplementsStore == Abstract!StoreSpec

\* A call that was begun ends: nobody keeps the lock, and retries come to an end.
CallsEnd == \A c \in Client : pc[c] # "idle" ~> answer[c] # "none"

==============================================================================
