------------------------- MODULE StorageEngine_proofs --------------------------
(***************************************************************************)
(* Both engines do what Store promises, and every value stays open to the  *)
(* service key that is stored, for any callers and calls, any keys and any *)
(* failures, and however many instances generate a service key at once.    *)
(*                                                                         *)
(* What carries the proof is Fresh: what a transaction has queued says of  *)
(* the store what is still true, unless another client touched a key it    *)
(* watches (Redis); Bolt's lock keeps it true for the holder alone.        *)
(***************************************************************************)
EXTENDS StorageEngine, SequenceTheorems, FiniteSetTheorems, WellFoundedInduction, TLAPS

Owner == Client \cup {NoClient}
Value == [by : SUBSET Owner, seal : SUBSET Owner]

EngineTypeOK ==
  /\ engine \in AvailableStorage
  /\ request \in Workload
  /\ store \in [Key -> Value]
  /\ writer \in Owner
  /\ dirty \in SUBSET Client
  /\ pc \in [Client -> {"idle", "read", "open", "commit", "put", "page", "values", "ended"}]
  /\ answer \in [Client -> {"none", "done", "failed"}]
  /\ queue \in [Client -> Seq(Value)]

Op(c) == request[c].op
Keys(c) == request[c].keys

\* Which calls come to which step, and who has Bolt's lock.
Phase(c) ==
  /\ pc[c] \in {"read", "commit"} => Transaction(c)
  /\ pc[c] = "open" => Op(c) = "update"
  /\ pc[c] = "put" => Op(c) = "write" \/ (Op(c) = "delete" /\ engine = "redis")
  /\ pc[c] \in {"page", "values"} => Op(c) \in {"list", "keys"}
  /\ pc[c] # "ended" => answer[c] = "none"
  /\ engine = "bolt" /\ pc[c] = "idle" => queue[c] = <<>>
  /\ engine = "bolt" /\ Watching(c) => writer = c

\* How much is queued, and that it is sealed with the service key of now; the
\* value that was read last is so only after it was opened.
Queued(c) ==
  /\ Op(c) = "update" /\ Watching(c) =>
       /\ Len(queue[c]) <= Len(Keys(c))
       /\ pc[c] = "read" => Len(queue[c]) < Len(Keys(c))
       /\ pc[c] = "open" => Len(queue[c]) # 0
       /\ pc[c] = "commit" => Len(queue[c]) = Len(Keys(c))
       /\ Len(queue[c]) # 0 => Present(ServiceKey)
       /\ \A i \in 1..Len(queue[c]) :
            /\ queue[c][i].by # {}
            /\ ~(pc[c] = "open" /\ i = Len(queue[c])) => queue[c][i].seal = Generator
  /\ Op(c) = "ensure" =>
       /\ pc[c] = "read" => queue[c] = <<>>
       /\ pc[c] = "commit" =>
            \/ queue[c] = <<[by |-> {c}, seal |-> {}]>>
            \/ queue[c] = <<>> /\ Present(ServiceKey)
  /\ Op(c) = "write" /\ pc[c] = "put" =>
       /\ Present(ServiceKey) /\ Len(queue[c]) = Len(Keys(c))
       /\ \A i \in 1..Len(queue[c]) : queue[c][i] = [by |-> {c}, seal |-> Generator]

\* What the transaction of c has read is still what is stored.
Fresh(c) ==
  Watching(c) /\ (engine = "bolt" \/ c \notin dirty) =>
    /\ Op(c) = "update" =>
         \A i \in 1..Len(queue[c]) :
           /\ Present(Keys(c)[i])
           /\ queue[c][i].by = store[Keys(c)[i]].by \cup {c}
           /\ i = 2 => store[Keys(c)[i]].by \cap Updaters = {}
    /\ Op(c) = "ensure" /\ queue[c] # <<>> => ~Present(ServiceKey)

\* A value has writers, and is stored only where a service key is.
Written ==
  \A k \in Key : Present(k) => store[k].by # {} /\ Present(ServiceKey)

EInv ==
  /\ EngineTypeOK /\ Written /\ SealedUnderServiceKey
  /\ \A c \in Client : Phase(c) /\ Queued(c) /\ Fresh(c)

------------------------------------------------------------------------------
LEMMA RequestType ==
  ASSUME request \in Workload, NEW c \in Client
  PROVE  /\ Op(c) \in {"update", "ensure", "write", "delete", "list", "keys"}
         /\ Keys(c) \in Seq(Key) /\ DOMAIN Keys(c) = 1..Len(Keys(c)) /\ Len(Keys(c)) \in Nat
         /\ Op(c) = "ensure" => Keys(c) = <<ServiceKey>>
         /\ Op(c) \in {"update", "write", "delete"} =>
              \A i \in 1..Len(Keys(c)) : Keys(c)[i] # ServiceKey
         /\ Op(c) = "update" => Len(Keys(c)) \in 1..2
<1>1. /\ Op(c) \in {"update", "ensure", "write", "delete", "list", "keys"}
      /\ Keys(c) \in Seq(Key)
  BY EngineAssumption DEF Op, Keys
<1>2. DOMAIN Keys(c) = 1..Len(Keys(c)) /\ Len(Keys(c)) \in Nat
  BY <1>1, LenProperties
<1>3. /\ Op(c) = "ensure" => Keys(c) = <<ServiceKey>>
      /\ Op(c) \in {"update", "write", "delete"} =>
           \A i \in DOMAIN Keys(c) : Keys(c)[i] # ServiceKey
      /\ Op(c) = "update" => Len(Keys(c)) \in 1..2
  BY WorkloadAssumption DEF Op, Keys
<1> QED BY <1>1, <1>2, <1>3

LEMMA QueueType ==
  ASSUME EngineTypeOK, NEW c \in Client
  PROVE  /\ queue[c] \in Seq(Value) /\ Len(queue[c]) \in Nat
         /\ DOMAIN queue[c] = 1..Len(queue[c])
         /\ \A i \in 1..Len(queue[c]) : queue[c][i] \in Value
<1>1. queue[c] \in Seq(Value)
  BY DEF EngineTypeOK
<1> QED BY <1>1, LenProperties, ElementOfSeq

LEMMA ValueType ==
  ASSUME EngineTypeOK, NEW k \in Key
  PROVE  store[k] \in Value /\ store[k].by \subseteq Owner /\ store[k].seal \subseteq Owner
<1>1. store[k] \in Value
  BY DEF EngineTypeOK
<1> QED BY <1>1 DEF Value

LEMMA MissingType == Missing \in Value /\ Missing.by = {}
BY DEF Missing, Value

LEMMA TargetKeys ==
  ASSUME request \in Workload, NEW c \in Client
  PROVE  Target(c) = {Keys(c)[i] : i \in 1..Len(Keys(c))} /\ Target(c) \subseteq Key
<1>1. Target(c) = {Keys(c)[i] : i \in 1..Len(Keys(c))}
  BY RequestType DEF Target, Keys
<1>2. \A i \in 1..Len(Keys(c)) : Keys(c)[i] \in Key
  BY RequestType, ElementOfSeq
<1> QED BY <1>1, <1>2

LEMMA EngineStarts == Init => EInv
<1> SUFFICES ASSUME Init PROVE EInv
  OBVIOUS
<1>1. PICK here \in {{}, Stored} :
        store = [k \in Key |-> IF k \in here THEN Initially(k) ELSE Missing]
  BY DEF Init
<1>2. \A k \in Key : Initially(k) \in Value /\ Initially(k).by = {NoClient}
  BY DEF Initially, Value, Owner
<1>3. EngineTypeOK
  <2>1. store \in [Key -> Value]
    BY <1>1, <1>2, MissingType
  <2>2. queue \in [Client -> Seq(Value)]
    BY DEF Init
  <2> QED BY <2>1, <2>2 DEF Init, EngineTypeOK, Owner
<1>4. ServiceKey \in Key
  BY EngineAssumption
<1>5. \A k \in Key : Present(k) <=> k \in here
  BY <1>1, <1>2, MissingType DEF Present
<1>6. Written
  BY <1>1, <1>2, <1>4, <1>5, StoredAssumption DEF Written
<1>7. SealedUnderServiceKey
  <2>1. ASSUME NEW k \in Key \ {ServiceKey}, k \in here
        PROVE  store[k].seal = Generator
    <3>1. ServiceKey \in here
      BY <2>1, StoredAssumption
    <3>2. store[k] = [by |-> {NoClient}, seal |-> {NoClient}]
          /\ store[ServiceKey] = [by |-> {NoClient}, seal |-> {}]
      BY <1>1, <1>4, <2>1, <3>1 DEF Initially
    <3> QED BY <3>2 DEF Generator
  <2> QED BY <1>5, <2>1 DEF SealedUnderServiceKey
<1>8. \A c \in Client : Phase(c) /\ Queued(c) /\ Fresh(c)
  BY DEF Init, Phase, Queued, Fresh, Watching
<1> QED BY <1>3, <1>6, <1>7, <1>8 DEF EInv

------------------------------------------------------------------------------
\* A step of client c that leaves the store alone.
Quiet(c) ==
  /\ UNCHANGED <<engine, request, store>>
  /\ dirty' \in {dirty, dirty \ {c}}
  /\ \/ writer' = writer
     \/ writer = NoClient /\ writer' = c
     \/ writer = c /\ writer' = NoClient
  /\ pc' \in [Client -> {"idle", "read", "open", "commit", "put", "page", "values", "ended"}]
  /\ answer' \in [Client -> {"none", "done", "failed"}]
  /\ queue' \in [Client -> Seq(Value)]
  /\ \A d \in Client \ {c} : pc'[d] = pc[d] /\ answer'[d] = answer[d] /\ queue'[d] = queue[d]

LEMMA QuietInv ==
  ASSUME EInv, NEW c \in Client, Quiet(c), Phase(c)', Queued(c)', Fresh(c)'
  PROVE  EInv'
<1>1. EngineTypeOK'
  BY DEF EInv, EngineTypeOK, Quiet, Owner
<1>2. Written' /\ SealedUnderServiceKey'
  BY DEF EInv, Written, SealedUnderServiceKey, Quiet, Present, Generator
<1>3. ASSUME NEW d \in Client \ {c} PROVE Phase(d)' /\ Queued(d)' /\ Fresh(d)'
  <2>1. /\ Phase(d) /\ Queued(d) /\ Fresh(d) /\ d # c /\ d # NoClient
        /\ pc'[d] = pc[d] /\ answer'[d] = answer[d] /\ queue'[d] = queue[d]
        /\ UNCHANGED <<engine, request, store>>
        /\ d \notin dirty' => d \notin dirty
    BY EngineAssumption DEF EInv, Quiet
  <2>2. Watching(d)' <=> Watching(d)
    BY <2>1 DEF Watching, Transaction
  <2>3. engine = "bolt" /\ Watching(d) => writer' = d
    BY <2>1 DEF Phase, Quiet
  <2>4. Phase(d)'
    BY <2>1, <2>2, <2>3 DEF Phase, Transaction, Op
  <2>5. Queued(d)'
    BY <2>1, <2>2 DEF Queued, Op, Keys, Present, Generator
  <2>6. Fresh(d)'
    BY <2>1, <2>2 DEF Fresh, Op, Keys, Present, Updaters
  <2> QED BY <2>4, <2>5, <2>6
<1> QED BY <1>1, <1>2, <1>3 DEF EInv

\* A call that has ended has nothing to keep.
LEMMA Ended == ASSUME NEW c, pc'[c] = "ended" PROVE Phase(c)' /\ Queued(c)' /\ Fresh(c)'
<1>1. ~Watching(c)'
  BY DEF Watching
<1> QED BY <1>1 DEF Phase, Queued, Fresh

LEMMA GoToType ==
  ASSUME EngineTypeOK, NEW c \in Client, GoTo(c, "idle") \/ GoTo(c, "read") \/ GoTo(c, "open")
           \/ GoTo(c, "commit") \/ GoTo(c, "put") \/ GoTo(c, "page") \/ GoTo(c, "values")
           \/ GoTo(c, "ended")
  PROVE  /\ pc' \in [Client -> {"idle", "read", "open", "commit", "put", "page", "values", "ended"}]
         /\ \A d \in Client \ {c} : pc'[d] = pc[d]
         /\ \A step : GoTo(c, step) => pc'[c] = step
BY DEF EngineTypeOK, GoTo

LEMMA AnswerType ==
  ASSUME EngineTypeOK, NEW c \in Client, NEW a \in {"done", "failed"}, Answer(c, a)
  PROVE  /\ pc' \in [Client -> {"idle", "read", "open", "commit", "put", "page", "values", "ended"}]
         /\ answer' \in [Client -> {"none", "done", "failed"}]
         /\ pc'[c] = "ended" /\ answer' = [answer EXCEPT ![c] = a]
         /\ \A d \in Client \ {c} : pc'[d] = pc[d] /\ answer'[d] = answer[d]
BY DEF EngineTypeOK, GoTo, Answer

LEMMA FailInv == ASSUME EInv, NEW c \in Client, Fail(c) PROVE EInv' /\ Quiet(c) /\ Answer(c, "failed")
<1>1. EngineTypeOK
  BY DEF EInv
<1>2. Quiet(c)
  BY <1>1, AnswerType DEF Fail, Release, Quiet, EngineTypeOK
<1> QED BY <1>1, <1>2, AnswerType, Ended, QuietInv DEF Fail

------------------------------------------------------------------------------
\* A transaction that has read nothing yet.
LEMMA EmptyStart ==
  ASSUME NEW c, queue'[c] = <<>>, pc'[c] = "read", Len(Keys(c)) \in Nat, request' = request,
         Op(c) = "update" => Len(Keys(c)) \in 1..2
  PROVE  Queued(c)' /\ Fresh(c)'
<1>1. Len(queue'[c]) = 0
  BY DEF Keys
<1>2. \A n \in Nat : n \in 1..2 => 0 < n /\ 0 <= n
  OBVIOUS
<1>3. Op(c)' = Op(c) /\ Keys(c)' = Keys(c)
  BY DEF Op, Keys
<1>4. \A i \in 1..Len(queue'[c]) : FALSE
  BY <1>1
<1>5. Op(c) = "update" => 0 < Len(Keys(c)) /\ 0 <= Len(Keys(c))
  BY <1>2
<1> HIDE DEF Op, Keys
<1>6. Queued(c)'
  BY <1>1, <1>3, <1>4, <1>5 DEF Queued
<1>7. Fresh(c)'
  BY <1>3, <1>4 DEF Fresh
<1> QED BY <1>6, <1>7

\* The steps of a transaction up to its commit.
LEMMA QueueStep ==
  ASSUME EInv, NEW c \in Client,
         LockWriter(c) \/ Watch(c) \/ ReadForUpdate(c) \/ Open(c) \/ ReadServiceKey(c) \/ Retry(c)
  PROVE  EInv' /\ Quiet(c) /\ UNCHANGED answer
<1>0. /\ EngineTypeOK /\ Phase(c) /\ Queued(c) /\ Fresh(c) /\ engine \in {"bolt", "redis"}
      /\ request \in Workload
  BY DEF EInv, EngineTypeOK, AvailableStorage
<1>q. /\ queue[c] \in Seq(Value) /\ Len(queue[c]) \in Nat /\ Len(<<>>) = 0
      /\ queue[c] = <<>> => Len(queue[c]) = 0
  BY <1>0, QueueType
<1>k. Len(Keys(c)) \in Nat /\ (Op(c) = "update" => Len(Keys(c)) \in 1..2)
  BY <1>0, RequestType
<1>1. CASE LockWriter(c)
  <2>1. /\ UNCHANGED <<engine, request, store, dirty, answer, queue>>
        /\ writer = NoClient /\ writer' = c /\ engine = "bolt" /\ pc[c] = "idle"
        /\ Transaction(c) /\ GoTo(c, "read") /\ pc'[c] = "read"
    BY <1>0, <1>1, GoToType DEF LockWriter
  <2>2. Quiet(c)
    BY <1>0, <2>1, GoToType DEF Quiet, EngineTypeOK
  <2>3. queue'[c] = <<>>
    BY <1>0, <2>1 DEF Phase
  <2>4. Phase(c)' /\ Queued(c)' /\ Fresh(c)'
    <3>1. pc'[c] = "read" /\ Transaction(c)' /\ writer' = c
      BY <2>1 DEF Transaction
    <3> QED BY <1>0, <1>k, <2>1, <2>3, <3>1, EmptyStart DEF Phase, Op
  <2> QED BY <2>1, <2>2, <2>4, QuietInv
<1>2. CASE Watch(c)
  <2>1. /\ UNCHANGED <<engine, request, store, writer, answer>>
        /\ dirty' = dirty \ {c} /\ engine = "redis" /\ queue' = [queue EXCEPT ![c] = <<>>]
        /\ Transaction(c) /\ pc[c] = "idle" /\ GoTo(c, "read") /\ pc'[c] = "read"
    BY <1>0, <1>2, GoToType DEF Watch
  <2>2. queue'[c] = <<>> /\ queue' \in [Client -> Seq(Value)]
        /\ \A d \in Client \ {c} : queue'[d] = queue[d]
    BY <1>0, <2>1 DEF EngineTypeOK
  <2>3. Quiet(c)
    BY <1>0, <2>1, <2>2, GoToType DEF Quiet, EngineTypeOK
  <2>4. Phase(c)' /\ Queued(c)' /\ Fresh(c)'
    <3>1. pc'[c] = "read" /\ Transaction(c)' /\ engine' = "redis"
      BY <2>1 DEF Transaction
    <3> QED BY <1>0, <1>k, <2>1, <2>2, <3>1, EmptyStart DEF Phase, Op
  <2> QED BY <2>1, <2>3, <2>4, QuietInv
<1>3. CASE ReadForUpdate(c)
  <2> DEFINE i == Len(queue[c]) + 1
             k == Keys(c)[i]
             read == [store[k] EXCEPT !.by = @ \cup {c}]
  <2>1. /\ UNCHANGED <<engine, request, store, writer, dirty, answer>>
        /\ pc[c] = "read" /\ Op(c) = "update" /\ Watching(c)
        /\ Present(k) /\ (Len(queue[c]) = 1 => store[k].by \cap Updaters = {})
        /\ queue' = [queue EXCEPT ![c] = Append(queue[c], read)]
        /\ GoTo(c, "open") /\ pc'[c] = "open"
    BY <1>0, <1>3, GoToType
       DEF ReadForUpdate, Updatable, NextKey, Op, Keys, Watching, Transaction
  <2>2. i \in 1..Len(Keys(c)) /\ k \in Key /\ k # ServiceKey
    BY <1>0, <1>q, <1>k, <2>1, RequestType, ElementOfSeq DEF Queued
  <2>3. read \in Value /\ read.by = store[k].by \cup {c} /\ read.by # {}
    BY <1>0, <2>2, ValueType DEF Value, Owner
  <2> HIDE DEF read, k
  <2>4. /\ queue'[c] = Append(queue[c], read) /\ queue'[c] \in Seq(Value)
        /\ Len(queue'[c]) = i /\ queue'[c][i] = read
        /\ \A j \in 1..Len(queue[c]) : queue'[c][j] = queue[c][j]
    BY <1>0, <1>q, <2>1, <2>3, AppendProperties DEF EngineTypeOK
  <2>5. /\ queue' \in [Client -> Seq(Value)]
        /\ \A d \in Client \ {c} : queue'[d] = queue[d]
    BY <1>0, <2>1, <2>4 DEF EngineTypeOK
  <2>6. Quiet(c)
    BY <1>0, <2>1, <2>5, GoToType DEF Quiet, EngineTypeOK
  <2>7. \A j \in 1..i : j \in 1..Len(queue[c]) \/ j = i
    BY <1>q
  <2>8. Present(ServiceKey)
    BY <2>1, <2>2 DEF EInv, Written
  <2>9. Queued(c)'
    <3>1. Len(queue[c]) < Len(Keys(c)) /\ i # 0 /\ i <= Len(Keys(c))
      BY <1>0, <1>q, <1>k, <2>1, <2>2 DEF Queued
    <3>2. \A j \in 1..i : queue'[c][j].by # {} /\ (j # i => queue'[c][j].seal = Generator)
      BY <1>0, <2>1, <2>3, <2>4, <2>7 DEF Queued
    <3> QED BY <2>1, <2>4, <2>8, <3>1, <3>2 DEF Queued, Op, Keys, Present, Generator
  <2>10. Phase(c)'
    BY <1>0, <2>1 DEF Phase, Op, Watching, Transaction
  <2>11. Fresh(c)'
    <3>0. \A n \in Nat : n + 1 = 2 => n = 1
      OBVIOUS
    <3>1. i = 2 => Len(queue[c]) = 1
      BY <1>q, <3>0, Zenon
    <3> QED BY <1>0, <2>1, <2>3, <2>4, <2>7, <3>1
            DEF Fresh, Op, Keys, Watching, Transaction, Present, Updaters, k
  <2> QED BY <2>1, <2>6, <2>9, <2>10, <2>11, QuietInv
<1>4. CASE Open(c)
  <2>1. /\ UNCHANGED <<engine, request, store, writer, dirty, answer, queue>>
        /\ pc[c] = "open" /\ Op(c) = "update" /\ Watching(c)
        /\ queue[c][Len(queue[c])].seal = Generator
        /\ \/ Len(queue[c]) = Len(Keys(c)) /\ GoTo(c, "commit") /\ pc'[c] = "commit"
           \/ Len(queue[c]) # Len(Keys(c)) /\ GoTo(c, "read") /\ pc'[c] = "read"
    BY <1>0, <1>4, GoToType DEF Open, Op, Keys, Watching, Transaction
  <2>2. Quiet(c)
    BY <1>0, <2>1, GoToType DEF Quiet, EngineTypeOK
  <2>3. Phase(c)' /\ Fresh(c)'
    BY <1>0, <2>1 DEF Phase, Fresh, Op, Keys, Watching, Transaction, Present, Updaters
  <2>4. Queued(c)'
    BY <1>0, <1>q, <1>k, <2>1 DEF Queued, Op, Keys, Watching, Transaction, Present, Generator
  <2> QED BY <2>1, <2>2, <2>3, <2>4, QuietInv
<1>5. CASE ReadServiceKey(c)
  <2>1. /\ UNCHANGED <<engine, request, store, writer, dirty, answer>>
        /\ pc[c] = "read" /\ Op(c) = "ensure" /\ GoTo(c, "commit") /\ pc'[c] = "commit"
        /\ \/ Present(ServiceKey) /\ UNCHANGED queue
           \/ ~Present(ServiceKey) /\ queue' = [queue EXCEPT ![c] = <<[by |-> {c}, seal |-> {}]>>]
    BY <1>0, <1>5, GoToType DEF ReadServiceKey, Op
  <2> DEFINE new == [by |-> {c}, seal |-> {}]
  <2>2. new \in Value
    BY DEF Value, Owner
  <2>a. queue[c] = <<>>
    BY <1>0, <2>1 DEF Queued
  <2>b. <<new>> \in Seq(Value)
    <3> HIDE DEF new
    <3> QED BY <2>2
  <2>3. /\ queue' \in [Client -> Seq(Value)]
        /\ \A d \in Client \ {c} : queue'[d] = queue[d]
        /\ \/ Present(ServiceKey) /\ queue'[c] = <<>>
           \/ ~Present(ServiceKey) /\ queue'[c] = <<new>>
    <3> HIDE DEF new
    <3>1. queue \in [Client -> Seq(Value)]
      BY <1>0 DEF EngineTypeOK
    <3>2. \/ Present(ServiceKey) /\ UNCHANGED queue
          \/ ~Present(ServiceKey) /\ queue' = [queue EXCEPT ![c] = <<new>>]
      BY <2>1 DEF new
    <3> QED BY <2>a, <2>b, <3>1, <3>2
  <2>4. Quiet(c)
    BY <1>0, <2>1, <2>3, GoToType DEF Quiet, EngineTypeOK
  <2>5. Phase(c)' /\ Queued(c)' /\ Fresh(c)'
    BY <1>0, <2>1, <2>3 DEF Phase, Queued, Fresh, Op, Keys, Watching, Transaction, Present
  <2> QED BY <2>1, <2>4, <2>5, QuietInv
<1>6. CASE Retry(c)
  <2>1. /\ UNCHANGED <<engine, request, store, writer, dirty, answer, queue>>
        /\ pc[c] = "commit" /\ engine = "redis" /\ GoTo(c, "idle") /\ pc'[c] = "idle"
    BY <1>0, <1>6, GoToType DEF Retry, LockLost
  <2>2. Quiet(c)
    BY <1>0, <2>1, GoToType DEF Quiet, EngineTypeOK
  <2>3. Phase(c)' /\ Queued(c)' /\ Fresh(c)'
    BY <1>0, <2>1 DEF Phase, Queued, Fresh, Op, Watching
  <2> QED BY <2>1, <2>2, <2>3, QuietInv
<1> QED BY <1>1, <1>2, <1>3, <1>4, <1>5, <1>6

\* The steps of the other calls that write nothing yet, and of the listings.
LEMMA CallStep ==
  ASSUME EInv, NEW c \in Client,
         \/ Seal(c) \/ LookForNamespace(c) \/ StartList(c)
         \/ PageOfBolt(c) \/ Scan(c) \/ Values(c)
  PROVE  /\ EInv' /\ Quiet(c)
         /\ UNCHANGED answer \/ (Op(c) \in {"list", "keys"} /\ Answer(c, "done"))
<1>0. /\ EngineTypeOK /\ Phase(c) /\ engine \in {"bolt", "redis"} /\ request \in Workload
  BY DEF EInv, EngineTypeOK, AvailableStorage
<1>1. CASE Seal(c)
  <2> DEFINE sealed == [by |-> {c}, seal |-> Generator]
  <2>1. /\ UNCHANGED <<engine, request, store, writer, dirty, answer>>
        /\ pc[c] = "idle" /\ Op(c) = "write" /\ Generator # {}
        /\ queue' = [queue EXCEPT ![c] = [i \in 1..Len(Keys(c)) |-> sealed]]
        /\ GoTo(c, "put") /\ pc'[c] = "put"
    BY <1>0, <1>1, GoToType, RequestType DEF Seal, Op, Keys
  <2>2. sealed \in Value
    BY <1>0, EngineAssumption, ValueType DEF Generator, Value, Owner
  <2> HIDE DEF sealed
  <2>3. /\ queue' \in [Client -> Seq(Value)]
        /\ \A d \in Client \ {c} : queue'[d] = queue[d]
        /\ Len(queue'[c]) = Len(Keys(c))
        /\ \A i \in 1..Len(queue'[c]) : queue'[c][i] = sealed
    BY <1>0, <2>1, <2>2, RequestType DEF EngineTypeOK
  <2>4. Quiet(c)
    BY <1>0, <2>1, <2>3, GoToType DEF Quiet, EngineTypeOK
  <2>5. Present(ServiceKey)
    BY <2>1, MissingType DEF Present, Generator
  <2>6. Phase(c)' /\ Fresh(c)' /\ Queued(c)'
    BY <1>0, <2>1, <2>3, <2>5
       DEF Phase, Fresh, Queued, Op, Keys, Watching, Transaction, Present, Generator, sealed
  <2> QED BY <2>1, <2>4, <2>6, QuietInv
<1>2. CASE LookForNamespace(c)
  <2>1. /\ UNCHANGED <<engine, request, store, writer, dirty, answer, queue>>
        /\ pc[c] = "idle" /\ Op(c) = "delete" /\ engine = "redis"
        /\ GoTo(c, "put") /\ pc'[c] = "put"
    BY <1>0, <1>2, GoToType DEF LookForNamespace, Op
  <2>2. Quiet(c)
    BY <1>0, <2>1, GoToType DEF Quiet, EngineTypeOK
  <2>3. Phase(c)' /\ Fresh(c)' /\ Queued(c)'
    BY <1>0, <2>1 DEF Phase, Fresh, Queued, Op, Watching, Transaction
  <2> QED BY <2>1, <2>2, <2>3, QuietInv
<1>3. CASE StartList(c) \/ PageOfBolt(c) \/ Scan(c) \/ Values(c)
  <2>1. /\ UNCHANGED <<engine, request, store, writer, dirty, queue>>
        /\ Op(c) \in {"list", "keys"} /\ pc[c] \in {"idle", "page", "values"}
        /\ \/ UNCHANGED <<pc, answer>>
           \/ UNCHANGED answer /\ GoTo(c, "page")
           \/ UNCHANGED answer /\ GoTo(c, "values")
           \/ Answer(c, "done")
    BY <1>0, <1>3 DEF StartList, PageOfBolt, Scan, Values, Op, Phase
  <2>2. CASE UNCHANGED <<pc, answer>>
    <3>1. Quiet(c)
      BY <1>0, <2>1, <2>2 DEF Quiet, EngineTypeOK
    <3>2. Phase(c)' /\ Fresh(c)' /\ Queued(c)'
      BY <1>0, <2>1, <2>2 DEF Phase, Fresh, Queued, Op, Watching, Transaction
    <3> QED BY <2>2, <3>1, <3>2, QuietInv
  <2>3. CASE UNCHANGED answer /\ (GoTo(c, "page") \/ GoTo(c, "values"))
    <3>1. Quiet(c) /\ pc'[c] \in {"page", "values"}
      BY <1>0, <2>1, <2>3, GoToType DEF Quiet, EngineTypeOK
    <3>2. Phase(c)' /\ Fresh(c)' /\ Queued(c)'
      BY <1>0, <2>1, <2>3, <3>1 DEF Phase, Fresh, Queued, Op, Watching, Transaction
    <3> QED BY <2>3, <3>1, <3>2, QuietInv
  <2>4. CASE Answer(c, "done")
    <3>1. Quiet(c) /\ pc'[c] = "ended"
      BY <1>0, <2>1, <2>4, AnswerType DEF Quiet, EngineTypeOK
    <3> QED BY <2>1, <2>4, <3>1, Ended, QuietInv
  <2> QED BY <2>1, <2>2, <2>3, <2>4
<1> QED BY <1>1, <1>2, <1>3

------------------------------------------------------------------------------
\* A step by which the call of c takes effect and ends.  The service key is
\* stored once and stays, and whoever watches a key that changed is dirty.
Loud(c) ==
  /\ UNCHANGED <<engine, request, queue>>
  /\ store' \in [Key -> Value]
  /\ dirty' \in SUBSET Client
  /\ pc' \in [Client -> {"idle", "read", "open", "commit", "put", "page", "values", "ended"}]
  /\ answer' \in [Client -> {"none", "done", "failed"}]
  /\ pc'[c] = "ended"
  /\ \A d \in Client \ {c} : pc'[d] = pc[d] /\ answer'[d] = answer[d]
  /\ writer' = writer \/ (writer = c /\ writer' = NoClient)
  /\ engine = "bolt" => writer \in {c, NoClient}
  /\ \A d \in Client : Watching(d) /\ d \notin dirty' =>
       d \notin dirty /\ \A k \in Target(d) : store'[k] = store[k]
  /\ \/ store'[ServiceKey] = store[ServiceKey]
     \/ /\ ~Present(ServiceKey) /\ store'[ServiceKey] = [by |-> {c}, seal |-> {}]
        /\ \A k \in Key \ {ServiceKey} : store'[k] = store[k]
  /\ \A k \in Key \ {ServiceKey} :
       \/ store'[k] = store[k] \/ store'[k] = Missing
       \/ Present(ServiceKey) /\ store'[k].by # {} /\ store'[k].seal = Generator

LEMMA LoudInv == ASSUME EInv, NEW c \in Client, Loud(c) PROVE EInv'
<1>1. EngineTypeOK'
  BY DEF EInv, EngineTypeOK, Loud, Owner
<1>2. Phase(c)' /\ Queued(c)' /\ Fresh(c)'
  BY Ended DEF Loud
<1>3. ASSUME NEW d \in Client \ {c}
      PROVE  /\ Phase(d) /\ Queued(d) /\ Fresh(d) /\ request \in Workload
             /\ pc'[d] = pc[d] /\ answer'[d] = answer[d]
             /\ UNCHANGED <<engine, request, queue>>
             /\ Watching(d)' <=> Watching(d)
             /\ ~(engine = "bolt" /\ Watching(d))
             /\ Watching(d) /\ d \notin dirty' =>
                  d \notin dirty /\ \A k \in Target(d) : store'[k] = store[k]
  <2>1. d # c /\ d # NoClient /\ Phase(d) /\ (engine = "bolt" => writer \in {c, NoClient})
    BY EngineAssumption DEF EInv, Loud
  <2>2. ~(engine = "bolt" /\ Watching(d))
    BY <2>1 DEF Phase
  <2> QED BY <2>2 DEF EInv, EngineTypeOK, Loud, Watching, Transaction
<1>4. ASSUME NEW d \in Client \ {c} PROVE Phase(d)'
  <2>1. (engine = "bolt" /\ Watching(d))' <=> (engine = "bolt" /\ Watching(d))
    BY <1>3
  <2> QED BY <1>3, <2>1 DEF Phase, Transaction, Op
<1>5. ASSUME NEW d \in Client \ {c} PROVE Fresh(d)'
  <2>1. \A i \in 1..Len(Keys(d)) : Keys(d)[i] \in Target(d)
    BY <1>3, TargetKeys
  <2>2. Op(d) = "ensure" => ServiceKey \in Target(d)
    <3>1. Op(d) = "ensure" => Len(Keys(d)) = 1 /\ Keys(d)[1] = ServiceKey
      BY <1>3, RequestType
    <3> QED BY <2>1, <3>1
  <2>3. SUFFICES ASSUME Watching(d)', (engine = "bolt" \/ d \notin dirty)'
                 PROVE  /\ (Op(d) = "update")' =>
                             \A i \in 1..Len(queue'[d]) :
                               /\ Present(Keys(d)[i])'
                               /\ (queue[d][i].by = store[Keys(d)[i]].by \cup {d})'
                               /\ i = 2 => (store[Keys(d)[i]].by \cap Updaters = {})'
                        /\ (Op(d) = "ensure" /\ queue[d] # <<>>)' => ~Present(ServiceKey)'
    BY DEF Fresh
  <2>4. Watching(d) /\ d \notin dirty /\ \A k \in Target(d) : store'[k] = store[k]
    BY <1>3, <2>3
  <2>5. /\ Op(d) = "update" => Len(queue[d]) <= Len(Keys(d))
        /\ Len(queue[d]) \in Nat /\ Len(Keys(d)) \in Nat
    BY <1>3, <2>4, QueueType, RequestType DEF Queued, EInv
  <2>6. Op(d) = "update" => \A i \in 1..Len(queue[d]) : Keys(d)[i] \in Target(d)
    BY <2>1, <2>5
  <2> QED BY <1>3, <2>2, <2>4, <2>6 DEF Fresh, Op, Keys, Present, Updaters
<1>6. CASE store'[ServiceKey] = store[ServiceKey]
  <2>1. Generator' = Generator /\ (Present(ServiceKey)' <=> Present(ServiceKey))
    BY <1>6 DEF Generator, Present
  <2>2. \A k \in Key \ {ServiceKey} : Present(k)' =>
          \/ store'[k] = store[k] /\ Present(k)
          \/ Present(ServiceKey) /\ store'[k].by # {} /\ store'[k].seal = Generator
    BY DEF Loud, Present
  <2>3. Written'
    BY <1>6, <2>1, <2>2 DEF EInv, Written, Present
  <2>4. SealedUnderServiceKey'
    BY <2>1, <2>2 DEF EInv, SealedUnderServiceKey
  <2>5. ASSUME NEW d \in Client \ {c} PROVE Queued(d)'
    <3>1. /\ Op(d)' = Op(d) /\ Keys(d)' = Keys(d) /\ queue'[d] = queue[d]
          /\ pc'[d] = pc[d] /\ (Watching(d)' <=> Watching(d)) /\ Queued(d)
      BY <1>3 DEF Op, Keys
    <3> HIDE DEF Op, Keys
    <3> QED BY <2>1, <3>1 DEF Queued
  <2> QED BY <1>1, <1>2, <1>4, <1>5, <2>3, <2>4, <2>5 DEF EInv
<1>7. CASE store'[ServiceKey] # store[ServiceKey]
  <2>1. /\ ~Present(ServiceKey) /\ store'[ServiceKey] = [by |-> {c}, seal |-> {}]
        /\ \A k \in Key \ {ServiceKey} : store'[k] = store[k]
    BY <1>7 DEF Loud
  <2>2. \A k \in Key \ {ServiceKey} : ~Present(k)'
    BY <2>1 DEF EInv, Written, Present
  <2>3. Present(ServiceKey)' /\ store'[ServiceKey].by # {}
    BY <2>1, MissingType DEF Present
  <2>4. Written' /\ SealedUnderServiceKey'
    BY <2>2, <2>3 DEF Written, SealedUnderServiceKey
  <2>5. ASSUME NEW d \in Client \ {c} PROVE Queued(d)'
    <3>1. /\ Op(d) = "update" /\ Watching(d) => Len(queue[d]) = 0
          /\ ~(Op(d) = "write" /\ pc[d] = "put")
      BY <1>3, <2>1 DEF Queued
    <3>2. Op(d) = "update" /\ Watching(d) => \A i \in 1..Len(queue[d]) : FALSE
      BY <3>1
    <3> QED BY <1>3, <2>1, <2>3, <3>1, <3>2 DEF Queued, Op, Keys
  <2> QED BY <1>1, <1>2, <1>4, <1>5, <2>4, <2>5 DEF EInv
<1> QED BY <1>6, <1>7

------------------------------------------------------------------------------
\* Whoever watches a key that is put is dirty.
LEMMA PutDirty ==
  ASSUME EngineTypeOK, NEW ks \in SUBSET Key, NEW new, Put(ks, new)
  PROVE  /\ dirty' \in SUBSET Client
         /\ \A d \in Client : Watching(d) /\ d \notin dirty' =>
              d \notin dirty /\ \A k \in Target(d) : store'[k] = store[k]
<1>1. /\ store' = [k \in Key |-> IF k \in ks THEN new[k] ELSE store[k]]
      /\ dirty' = dirty \cup {c \in Client : Watching(c) /\ Target(c) \cap ks # {}}
  BY DEF Put
<1>2. ASSUME NEW d \in Client, Watching(d), d \notin dirty'
      PROVE  d \notin dirty /\ \A k \in Target(d) : store'[k] = store[k]
  <2>1. d \notin dirty /\ Target(d) \cap ks = {}
    BY <1>1, <1>2
  <2>2. Target(d) \subseteq Key
    BY TargetKeys DEF EngineTypeOK
  <2> QED BY <1>1, <2>1, <2>2
<1> QED BY <1>1, <1>2 DEF EngineTypeOK

\* A transaction writes what it has queued for a key, and nothing else.
LEMMA WriteQueueStore ==
  ASSUME EngineTypeOK, NEW c \in Client, WriteQueue(c), Len(queue[c]) <= Len(Keys(c))
  PROVE  /\ store' \in [Key -> Value]
         /\ \A k \in Key :
              \/ \E i \in 1..Len(queue[c]) : Keys(c)[i] = k /\ store'[k] = queue[c][i]
              \/ (\A i \in 1..Len(queue[c]) : Keys(c)[i] # k) /\ store'[k] = store[k]
         /\ dirty' \in SUBSET Client
         /\ \A d \in Client : Watching(d) /\ d \notin dirty' =>
              d \notin dirty /\ \A k \in Target(d) : store'[k] = store[k]
<1> DEFINE dom == DOMAIN queue[c]
           ks == {Keys(c)[i] : i \in dom}
           pick(k) == CHOOSE i \in dom : Keys(c)[i] = k
           new == [k \in Target(c) |-> queue[c][pick(k)]]
<1>0. request \in Workload /\ Len(queue[c]) \in Nat /\ Len(Keys(c)) \in Nat
  BY QueueType, RequestType DEF EngineTypeOK
<1>d. dom = 1..Len(queue[c])
  BY QueueType
<1>1. \A i \in dom : i \in 1..Len(Keys(c))
  BY <1>0, <1>d
<1>2. ks \subseteq Target(c) /\ Target(c) \subseteq Key
  BY <1>0, <1>1, TargetKeys
<1>3. Put(ks, new)
  BY DEF WriteQueue, Keys
<1>4. ASSUME NEW k \in ks PROVE pick(k) \in dom /\ Keys(c)[pick(k)] = k
  BY <1>4
<1>5. \A k \in ks : new[k] = queue[c][pick(k)]
  BY <1>2
<1>6. \A i \in dom : queue[c][i] \in Value
  BY <1>d, QueueType
<1>7. store' = [k \in Key |-> IF k \in ks THEN new[k] ELSE store[k]]
  BY <1>3 DEF Put
<1>8. \A k \in ks : \E i \in dom : Keys(c)[i] = k /\ new[k] = queue[c][i]
  BY <1>4, <1>5
<1>9. \A k : k \notin ks => \A i \in dom : Keys(c)[i] # k
  OBVIOUS
<1>10. dirty' \in SUBSET Client
       /\ \A d \in Client : Watching(d) /\ d \notin dirty' =>
            d \notin dirty /\ \A k \in Target(d) : store'[k] = store[k]
  <2> HIDE DEF ks, new
  <2> QED BY <1>2, <1>3, PutDirty
<1>11. \A k \in ks : new[k] \in Value
  BY <1>4, <1>5, <1>6
<1> HIDE DEF ks, new, dom
<1>12. store' \in [Key -> Value]
  BY <1>7, <1>11 DEF EngineTypeOK
<1>13. \A k \in Key :
         \/ \E i \in dom : Keys(c)[i] = k /\ store'[k] = queue[c][i]
         \/ (\A i \in dom : Keys(c)[i] # k) /\ store'[k] = store[k]
  BY <1>7, <1>8, <1>9
<1> QED BY <1>d, <1>10, <1>12, <1>13

\* A call takes effect as Store says: the key of each target holds its effect.
TakesEffect(c) ==
  /\ Op(c) \in {"update", "ensure", "write", "delete"}
  /\ Op(c) = "update" =>
       /\ \A k \in Target(c) : store[k].by # {}
       /\ Len(Keys(c)) = 2 => store[Keys(c)[2]].by \cap Updaters = {}
  /\ \A k \in Key \ Target(c) : store'[k] = store[k]
  /\ \A k \in Target(c) :
       /\ Op(c) = "update" => store'[k].by = store[k].by \cup {c}
       /\ Op(c) = "ensure" => store'[k].by = IF store[k].by = {} THEN {c} ELSE store[k].by
       /\ Op(c) = "write" => store'[k].by = {c}
       /\ Op(c) = "delete" => store'[k].by = {}

\* What Loud asks of the service key and of the values.
KeyStays(c) ==
  /\ \/ store'[ServiceKey] = store[ServiceKey]
     \/ /\ ~Present(ServiceKey) /\ store'[ServiceKey] = [by |-> {c}, seal |-> {}]
        /\ \A k \in Key \ {ServiceKey} : store'[k] = store[k]
  /\ \A k \in Key \ {ServiceKey} :
       \/ store'[k] = store[k] \/ store'[k] = Missing
       \/ Present(ServiceKey) /\ store'[k].by # {} /\ store'[k].seal = Generator

\* Every target was queued: an update and a write have a value for each key.
LEMMA AllQueued ==
  ASSUME EngineTypeOK, NEW c \in Client, WriteQueue(c), Len(queue[c]) = Len(Keys(c))
  PROVE  /\ \A k \in Target(c) : \E i \in 1..Len(queue[c]) :
              Keys(c)[i] = k /\ store'[k] = queue[c][i]
         /\ \A k \in Key \ Target(c) : store'[k] = store[k]
<1>1. Len(queue[c]) \in Nat /\ Len(queue[c]) <= Len(Keys(c))
  BY QueueType
<1>2. Target(c) = {Keys(c)[i] : i \in 1..Len(queue[c])} /\ Target(c) \subseteq Key
  BY TargetKeys DEF EngineTypeOK
<1> QED BY <1>1, <1>2, WriteQueueStore

LEMMA UpdateEffect ==
  ASSUME EInv, NEW c \in Client, WriteQueue(c), pc[c] = "commit", Op(c) = "update", ~LockLost(c)
  PROVE  TakesEffect(c) /\ KeyStays(c) /\ Len(queue[c]) <= Len(Keys(c))
<1>1. /\ EngineTypeOK /\ request \in Workload /\ Queued(c) /\ Fresh(c) /\ Watching(c)
      /\ engine \in {"bolt", "redis"}
  BY DEF EInv, EngineTypeOK, AvailableStorage, Watching, Transaction, Op
<1>2. /\ Len(queue[c]) = Len(Keys(c)) /\ Len(queue[c]) \in Nat /\ Len(queue[c]) \in 1..2
      /\ Len(queue[c]) # 0 /\ Present(ServiceKey)
  <2>1. Len(queue[c]) \in Nat /\ Len(queue[c]) = Len(Keys(c)) /\ Len(Keys(c)) \in 1..2
    BY <1>1, QueueType, RequestType DEF Queued
  <2>2. \A n \in 1..2 : n # 0
    OBVIOUS
  <2>3. Len(queue[c]) # 0
    BY <2>1, <2>2, Zenon
  <2>4. Len(queue[c]) # 0 => Present(ServiceKey)
    BY <1>1 DEF Queued
  <2> QED BY <2>1, <2>3, <2>4
<1>3. queue[c] # <<>>
  BY <1>2
<1>4. \A i \in 1..Len(queue[c]) :
        /\ queue[c][i].by # {} /\ queue[c][i].seal = Generator
        /\ Present(Keys(c)[i]) /\ queue[c][i].by = store[Keys(c)[i]].by \cup {c}
        /\ i = 2 => store[Keys(c)[i]].by \cap Updaters = {}
  <2>1. engine = "bolt" \/ c \notin dirty
    BY <1>1, <1>3 DEF LockLost
  <2> QED BY <1>1, <2>1 DEF Queued, Fresh
<1>5. /\ \A k \in Target(c) : \E i \in 1..Len(queue[c]) :
           Keys(c)[i] = k /\ store'[k] = queue[c][i]
      /\ \A k \in Key \ Target(c) : store'[k] = store[k]
  BY <1>1, <1>2, AllQueued
<1>6. Target(c) \subseteq Key \ {ServiceKey} /\ ServiceKey \in Key
  BY <1>1, TargetKeys, RequestType, EngineAssumption
<1>7. \A k \in Target(c) : /\ Present(k) /\ store'[k].by = store[k].by \cup {c}
                           /\ store'[k].seal = Generator /\ store'[k].by # {}
  BY <1>4, <1>5
<1>8. Len(Keys(c)) = 2 => store[Keys(c)[2]].by \cap Updaters = {}
  <2>1. Len(queue[c]) = 2 => 2 \in 1..Len(queue[c])
    OBVIOUS
  <2> QED BY <1>2, <1>4, <2>1
<1>9. KeyStays(c)
  BY <1>2, <1>5, <1>6, <1>7 DEF KeyStays
<1>10. \A k \in Target(c) : store[k].by # {}
  BY <1>6, <1>7 DEF EInv, Written
<1>11. TakesEffect(c)
  BY <1>5, <1>7, <1>8, <1>10 DEF TakesEffect
<1> QED BY <1>2, <1>9, <1>11

LEMMA EnsureEffect ==
  ASSUME EInv, NEW c \in Client, WriteQueue(c), pc[c] = "commit", Op(c) = "ensure", ~LockLost(c)
  PROVE  TakesEffect(c) /\ KeyStays(c) /\ Len(queue[c]) <= Len(Keys(c))
<1> DEFINE new == [by |-> {c}, seal |-> {}]
<1>1. /\ EngineTypeOK /\ request \in Workload /\ Queued(c) /\ Fresh(c) /\ Watching(c)
      /\ engine \in {"bolt", "redis"} /\ Keys(c) = <<ServiceKey>>
  BY RequestType DEF EInv, EngineTypeOK, AvailableStorage, Watching, Transaction, Op
<1>2. Len(Keys(c)) = 1 /\ Keys(c)[1] = ServiceKey /\ ServiceKey \in Key
  BY <1>1, EngineAssumption
<1>3. Target(c) = {ServiceKey}
  BY <1>1, <1>2, TargetKeys
<1>4. CASE queue[c] = <<>> /\ Present(ServiceKey)
  <2>1. Len(queue[c]) = 0 /\ \A i \in 1..Len(queue[c]) : FALSE
    BY <1>4
  <2>2. \A k \in Key : store'[k] = store[k]
    BY <1>1, <1>2, <2>1, WriteQueueStore
  <2>3. store[ServiceKey].by # {}
    BY <1>2, <1>4 DEF EInv, Written
  <2>4. KeyStays(c)
    BY <1>2, <2>2 DEF KeyStays
  <2>5. TakesEffect(c)
    BY <1>2, <1>3, <2>2, <2>3 DEF TakesEffect
  <2> QED BY <1>2, <2>1, <2>4, <2>5
<1>5. CASE queue[c] = <<new>>
  <2>1. Len(queue[c]) = 1 /\ queue[c][1] = new /\ queue[c] # <<>>
    <3> HIDE DEF new
    <3> QED BY <1>5
  <2>2. ~Present(ServiceKey)
    <3>1. engine = "bolt" \/ c \notin dirty
      BY <1>1, <2>1 DEF LockLost
    <3> QED BY <1>1, <2>1, <3>1 DEF Fresh
  <2>3. store'[ServiceKey] = new /\ \A k \in Key \ {ServiceKey} : store'[k] = store[k]
    <3>1. \A k \in Target(c) : \E i \in 1..Len(queue[c]) :
            Keys(c)[i] = k /\ store'[k] = queue[c][i]
      BY <1>1, <1>2, <2>1, AllQueued
    <3>2. PICK i \in 1..Len(queue[c]) : store'[ServiceKey] = queue[c][i]
      BY <1>3, <3>1
    <3>3. i = 1
      BY <2>1
    <3> HIDE DEF new
    <3>4. \A k \in Key \ Target(c) : store'[k] = store[k]
      BY <1>1, <1>2, <2>1, AllQueued
    <3> QED BY <1>3, <2>1, <3>2, <3>3, <3>4
  <2>4. KeyStays(c)
    BY <2>2, <2>3 DEF KeyStays
  <2>5. store[ServiceKey].by = {} /\ store'[ServiceKey].by = {c}
    BY <2>2, <2>3, MissingType DEF Present
  <2>6. TakesEffect(c)
    BY <1>3, <2>3, <2>5 DEF TakesEffect
  <2> QED BY <1>2, <2>1, <2>4, <2>6
<1> QED BY <1>1, <1>4, <1>5 DEF Queued

LEMMA WriteEffect ==
  ASSUME EInv, NEW c \in Client, WriteQueue(c), pc[c] = "put", Op(c) = "write"
  PROVE  TakesEffect(c) /\ KeyStays(c) /\ Len(queue[c]) <= Len(Keys(c))
<1>1. EngineTypeOK /\ request \in Workload /\ Queued(c)
  BY DEF EInv, EngineTypeOK
<1>2. /\ Len(queue[c]) = Len(Keys(c)) /\ Len(queue[c]) \in Nat /\ Present(ServiceKey)
      /\ \A i \in 1..Len(queue[c]) : queue[c][i].by = {c} /\ queue[c][i].seal = Generator
  BY <1>1, QueueType DEF Queued
<1>3. /\ \A k \in Target(c) : \E i \in 1..Len(queue[c]) :
           Keys(c)[i] = k /\ store'[k] = queue[c][i]
      /\ \A k \in Key \ Target(c) : store'[k] = store[k]
  BY <1>1, <1>2, AllQueued
<1>4. Target(c) \subseteq Key \ {ServiceKey} /\ ServiceKey \in Key
  BY <1>1, TargetKeys, RequestType, EngineAssumption
<1>5. \A k \in Target(c) : store'[k].by = {c} /\ store'[k].seal = Generator
  BY <1>2, <1>3
<1>6. KeyStays(c)
  BY <1>2, <1>3, <1>4, <1>5 DEF KeyStays
<1>7. TakesEffect(c)
  BY <1>3, <1>5 DEF TakesEffect
<1> QED BY <1>2, <1>6, <1>7

LEMMA RemoveEffect ==
  ASSUME EInv, NEW c \in Client, RemoveKey(c), Op(c) = "delete"
  PROVE  /\ TakesEffect(c) /\ KeyStays(c)
         /\ store' \in [Key -> Value] /\ dirty' \in SUBSET Client
         /\ \A d \in Client : Watching(d) /\ d \notin dirty' =>
              d \notin dirty /\ \A k \in Target(d) : store'[k] = store[k]
<1> DEFINE ks == {k \in Target(c) : Present(k)}
           new == [k \in Target(c) |-> Missing]
<1>1. EngineTypeOK /\ request \in Workload /\ Put(ks, new)
  BY DEF EInv, EngineTypeOK, RemoveKey
<1>2. Target(c) \subseteq Key \ {ServiceKey} /\ ServiceKey \in Key
  BY <1>1, TargetKeys, RequestType, EngineAssumption
<1>3. store' = [k \in Key |-> IF k \in ks THEN new[k] ELSE store[k]]
  BY <1>1 DEF Put
<1>4. \A k \in Target(c) : store'[k] = Missing
  BY <1>2, <1>3 DEF Present
<1>5. \A k \in Key \ Target(c) : store'[k] = store[k]
  BY <1>3
<1>6. store' \in [Key -> Value]
  BY <1>1, <1>2, <1>3, MissingType DEF EngineTypeOK
<1>7. KeyStays(c)
  BY <1>2, <1>4, <1>5 DEF KeyStays
<1>8. TakesEffect(c)
  BY <1>4, <1>5, MissingType DEF TakesEffect
<1>9. ks \in SUBSET Key
  BY <1>2
<1> HIDE DEF ks, new
<1> QED BY <1>1, <1>6, <1>7, <1>8, <1>9, PutDirty

LEMMA EffectStep ==
  ASSUME EInv, NEW c \in Client,
         Commit(c) \/ Exec(c) \/ WriteMany(c) \/ GetDel(c) \/ DeleteOfBolt(c)
  PROVE  /\ Loud(c) /\ TakesEffect(c) /\ UNCHANGED request /\ answer[c] = "none"
         /\ \E a \in {"done", "failed"} : answer' = [answer EXCEPT ![c] = a]
<1>1. /\ EngineTypeOK /\ Phase(c) /\ engine \in {"bolt", "redis"} /\ writer \in Owner
      /\ request \in Workload
  BY DEF EInv, EngineTypeOK, AvailableStorage
<1>2. /\ pc[c] # "ended" /\ UNCHANGED <<engine, request, queue>>
      /\ \E a \in {"done", "failed"} : Answer(c, a)
  BY <1>1 DEF Commit, Exec, WriteMany, GetDel, DeleteOfBolt, RemoveKey
<1>3. /\ writer' = writer \/ (writer = c /\ writer' = NoClient)
      /\ engine = "bolt" => writer \in {c, NoClient}
  BY <1>1 DEF Commit, Exec, WriteMany, GetDel, DeleteOfBolt, RemoveKey, Release, Unlocked,
              Phase, Watching, Op
<1>4. /\ TakesEffect(c) /\ KeyStays(c)
      /\ store' \in [Key -> Value] /\ dirty' \in SUBSET Client
      /\ \A d \in Client : Watching(d) /\ d \notin dirty' =>
           d \notin dirty /\ \A k \in Target(d) : store'[k] = store[k]
  <2>1. CASE Commit(c) \/ Exec(c)
    <3>1. pc[c] = "commit" /\ WriteQueue(c) /\ ~LockLost(c) /\ Op(c) \in {"update", "ensure"}
      BY <1>1, <2>1 DEF Commit, Exec, LockLost, Phase, Transaction, Op
    <3> QED BY <1>1, <3>1, UpdateEffect, EnsureEffect, WriteQueueStore
  <2>2. CASE WriteMany(c)
    <3>1. pc[c] = "put" /\ WriteQueue(c) /\ Op(c) = "write"
      BY <2>2 DEF WriteMany, Op
    <3> QED BY <1>1, <3>1, WriteEffect, WriteQueueStore
  <2>3. CASE GetDel(c) \/ DeleteOfBolt(c)
    <3>1. RemoveKey(c) /\ Op(c) = "delete"
      BY <2>3 DEF GetDel, DeleteOfBolt, Op
    <3> QED BY <3>1, RemoveEffect
  <2> QED BY <2>1, <2>2, <2>3
<1>5. PICK a \in {"done", "failed"} : Answer(c, a)
  BY <1>2
<1>6. Loud(c)
  BY <1>1, <1>2, <1>3, <1>4, <1>5, AnswerType DEF Loud, KeyStays
<1> QED BY <1>1, <1>2, <1>4, <1>5, <1>6, AnswerType DEF Phase

\* Every step is one of three kinds: it changes nothing the services see, it
\* answers without an effect, or it takes its effect and ends.
LEMMA StepKinds ==
  ASSUME EInv, NEW c \in Client, Step(c) \/ Stop(c)
  PROVE  /\ EInv'
         /\ \/ UNCHANGED <<request, store, answer>>
            \/ UNCHANGED <<request, store>> /\ answer[c] = "none" /\ Answer(c, "failed")
            \/ /\ UNCHANGED <<request, store>> /\ answer[c] = "none"
               /\ Op(c) \in {"list", "keys"} /\ Answer(c, "done")
            \/ /\ UNCHANGED request /\ TakesEffect(c) /\ answer[c] = "none"
               /\ \E a \in {"done", "failed"} : answer' = [answer EXCEPT ![c] = a]
<1>1. pc[c] # "ended" => answer[c] = "none"
  BY DEF EInv, Phase
<1>2. CASE LockWriter(c) \/ Watch(c) \/ ReadForUpdate(c) \/ Open(c) \/ ReadServiceKey(c) \/ Retry(c)
  BY <1>2, QueueStep DEF Quiet
<1>3. CASE \/ Seal(c) \/ LookForNamespace(c) \/ StartList(c)
           \/ PageOfBolt(c) \/ Scan(c) \/ Values(c)
  <2>1. pc[c] # "ended"
    BY <1>3 DEF Seal, LookForNamespace, StartList, PageOfBolt, Scan, Values
  <2> QED BY <1>1, <1>3, <2>1, CallStep DEF Quiet
<1>4. CASE Commit(c) \/ Exec(c) \/ WriteMany(c) \/ GetDel(c) \/ DeleteOfBolt(c)
  BY <1>4, EffectStep, LoudInv
<1>5. CASE Refuse(c) \/ Stop(c)
  <2>1. pc[c] # "ended" /\ Fail(c)
    BY <1>5 DEF Refuse, Refused, ListFails, Stop
  <2> QED BY <1>1, <2>1, FailInv DEF Quiet
<1> QED BY <1>2, <1>3, <1>4, <1>5 DEF Step, Execute

\* Types, Written, Fresh and the rest hold in every state, for both engines.
THEOREM EngineInvariant == Spec => []EInv
<1>1. Init => EInv
  BY EngineStarts
<1>2. EInv /\ [Next]_vars => EInv'
  <2> SUFFICES ASSUME EInv, [Next]_vars PROVE EInv'
    OBVIOUS
  <2>1. CASE \E c \in Client : Step(c) \/ Stop(c)
    BY <2>1, StepKinds
  <2>2. CASE UNCHANGED vars
    <3>1. UNCHANGED <<engine, request, store, writer, dirty, pc, answer, queue>>
      BY <2>2 DEF vars
    <3>2. ASSUME NEW c \in Client PROVE (Phase(c) /\ Queued(c) /\ Fresh(c))'
      <4>1. Phase(c) /\ Queued(c) /\ Fresh(c)
        BY DEF EInv
      <4> QED BY <3>1, <4>1 DEF Phase, Queued, Fresh, Watching, Transaction, Op, Keys,
                                Present, Generator, Updaters
    <3>3. (EngineTypeOK /\ Written /\ SealedUnderServiceKey)'
      BY <3>1 DEF EInv, EngineTypeOK, Written, SealedUnderServiceKey, Present, Generator
    <3> QED BY <3>2, <3>3 DEF EInv
  <2> QED BY <2>1, <2>2 DEF Next, Done
<1> QED BY <1>1, <1>2, PTL DEF Spec

\* Every stored value can be opened with the service key that is stored, with any
\* number of instances that generate one (core/storage/encrypt.go).
THEOREM EngineSealed == Spec => []SealedUnderServiceKey
<1>1. EInv => SealedUnderServiceKey
  BY DEF EInv
<1> QED BY <1>1, EngineInvariant, PTL

\* Bolt and Redis do what Store promises: every call takes effect in one step on
\* the contents of that moment, or not at all (bolt.go, redis.go).
THEOREM EngineImplementsStore == Spec => ImplementsStore
<1>1. Init => answer = [c \in Client |-> "none"]
  BY DEF Init
<1>2. EInv /\ [Next]_vars => [Abstract!StoreNext]_(Abstract!storeVars)
  <2> SUFFICES ASSUME EInv, [Next]_vars
               PROVE  Abstract!StoreNext \/ UNCHANGED Abstract!storeVars
    OBVIOUS
  <2>1. ASSUME UNCHANGED <<request, store, answer>> PROVE UNCHANGED Abstract!storeVars
    BY <2>1 DEF Abstract!storeVars
  <2>2. CASE UNCHANGED vars
    BY <2>1, <2>2 DEF vars
  <2>3. ASSUME NEW c \in Client, Step(c) \/ Stop(c)
        PROVE  Abstract!StoreNext \/ UNCHANGED Abstract!storeVars
    <3>1. CASE UNCHANGED <<request, store, answer>>
      BY <2>1, <3>1
    <3>2. CASE /\ UNCHANGED <<request, store>> /\ answer[c] = "none"
               /\ Answer(c, "failed") \/ (Op(c) \in {"list", "keys"} /\ Answer(c, "done"))
      <4>1. Abstract!Refuse(c)
        BY <3>2 DEF Abstract!Refuse, Abstract!Reads, Answer, Op
      <4> QED BY <4>1 DEF Abstract!StoreNext
    <3>3. CASE /\ UNCHANGED request /\ TakesEffect(c) /\ answer[c] = "none"
               /\ \E a \in {"done", "failed"} : answer' = [answer EXCEPT ![c] = a]
      <4>1. ~Abstract!Reads(c)
        BY <3>3 DEF TakesEffect, Abstract!Reads, Op
      <4>2. Abstract!Valid(c)
        BY <3>3, RequestType, TargetKeys, ElementOfSeq
           DEF TakesEffect, Abstract!Valid, Abstract!Updaters, Updaters, Op, Keys,
               Abstract!Target, Target, EInv, EngineTypeOK
      <4>3. ([k \in Key |-> store[k].by])' =
              [k \in Key |-> IF k \in Abstract!Target(c) THEN Abstract!Effect(c, k)
                             ELSE store[k].by]
        <5>1. Abstract!Target(c) = Target(c) /\ Target(c) \subseteq Key
          BY TargetKeys DEF EInv, EngineTypeOK, Target, Abstract!Target
        <5>2. \A k \in Target(c) : store'[k].by = Abstract!Effect(c, k)
          BY <3>3, <5>1 DEF TakesEffect, Abstract!Effect, Op
        <5> QED BY <3>3, <5>1, <5>2 DEF TakesEffect
      <4> QED BY <3>3, <4>1, <4>2, <4>3 DEF Abstract!StoreNext, Abstract!Call
    <3> QED BY <2>3, <3>1, <3>2, <3>3, StepKinds
  <2> QED BY <2>2, <2>3 DEF Next, Done
<1> QED BY <1>1, <1>2, EngineInvariant, PTL DEF Spec, ImplementsStore, Abstract!StoreSpec

------------------------------------------------------------------------------
\* Every nonempty set of numbers has a least one.
LEMMA Least ==
  ASSUME NEW S \in SUBSET Nat, S # {}
  PROVE  Min(S) \in S /\ \A k \in S : Min(S) <= k
<1> DEFINE R == OpToRel(<, Nat)
<1>1. IsWellFoundedOn(R, Nat)
  BY NatLessThanWellFounded
<1>2. \A x, y \in Nat : <<x, y>> \in R <=> x < y
  BY DEF OpToRel
<1> HIDE DEF R
<1>3. \E x \in S : \A y \in S : <<y, x>> \notin R
  BY <1>1, WFMin
<1>4. \A x, y \in S : <<y, x>> \notin R => x <= y
  BY <1>2
<1>5. \E x \in S : \A y \in S : x <= y
  BY <1>3, <1>4
<1> QED BY <1>5 DEF Min

LEMMA Places ==
  /\ Len(Order) \in Nat /\ DOMAIN Order = 1..Len(Order)
  /\ \A i \in DOMAIN Order : i \in Nat /\ Order[i] \in Key
  /\ \A k \in Key : \E i \in DOMAIN Order : Order[i] = k
<1>1. Len(Order) \in Nat /\ DOMAIN Order = 1..Len(Order)
  BY OrderAssumption, LenProperties
<1> QED BY <1>1, OrderAssumption, ElementOfSeq

\* A page takes the keys in order: what it leaves out comes after what it takes.
LEMMA FirstOfDown ==
  ASSUME NEW rest \in SUBSET DOMAIN Order, NEW size \in Nat,
         NEW i \in FirstOf(rest, size), NEW j \in rest, j < i
  PROVE  j \in FirstOf(rest, size)
<1> DEFINE below(k) == {l \in rest : l < k}
<1>1. IsFiniteSet(DOMAIN Order)
  <2>1. Len(Order) \in Int /\ 1 \in Int /\ DOMAIN Order = 1..Len(Order)
    BY Places
  <2>2. IsFiniteSet(1..Len(Order))
    BY <2>1, FS_Interval
  <2> QED BY <2>1, <2>2
<1>2. /\ below(i) \subseteq DOMAIN Order /\ below(j) \subseteq below(i)
      /\ i \in rest /\ Cardinality(below(i)) < size
  <2>1. /\ i \in rest /\ Cardinality(below(i)) < size
    BY DEF FirstOf
  <2>2. \A l \in rest : l \in Nat
    BY Places
  <2>3. i \in Nat /\ j \in Nat /\ \A l \in rest : l < j => l < i
    BY <2>1, <2>2
  <2> QED BY <2>1, <2>3
<1> HIDE DEF below
<1>3. IsFiniteSet(below(i)) /\ IsFiniteSet(below(j))
  BY <1>1, <1>2, FS_Subset
<1>4. Cardinality(below(j)) <= Cardinality(below(i))
  BY <1>2, <1>3, FS_Subset
<1>5. Cardinality(below(i)) \in Nat /\ Cardinality(below(j)) \in Nat
  BY <1>3, FS_CardinalityType
<1>6. Cardinality(below(j)) < size
  BY <1>2, <1>4, <1>5
<1> QED BY <1>6 DEF FirstOf, below

LEMMA CountOf ==
  ASSUME NEW keys \in [Key -> Nat], NEW positions \in SUBSET DOMAIN Order
  PROVE  /\ Count(keys, positions) \in [Key -> Nat]
         /\ \A i \in DOMAIN Order : Count(keys, positions)[Order[i]] =
              IF i \in positions THEN keys[Order[i]] + 1 ELSE keys[Order[i]]
<1>1. Count(keys, positions) \in [Key -> Nat]
  BY DEF Count
<1>2. ASSUME NEW i \in DOMAIN Order
      PROVE  (\E j \in positions : Order[j] = Order[i]) <=> i \in positions
  BY OrderAssumption
<1> QED BY <1>1, <1>2, Places DEF Count

Listing == [cursor : Nat, page : [Key -> Nat], got : [Key -> Nat], owed : SUBSET Key]

Listings == {"list", "keys"}

\* The cursor is behind position i; Redis' is back at 0 when all is scanned.
Passed(c, i) == i <= listing[c].cursor \/ (pc[c] = "values" /\ listing[c].cursor = 0)

\* A key that was passed was taken once if it was there all the time, and no key
\* was taken before it was passed.
Taken(c, i) ==
  LET k == Order[i]
      n == listing[c].got[k] + listing[c].page[k]
  IN /\ n <= 1
     /\ n # 0 => Passed(c, i)
     /\ k \in listing[c].owed /\ Passed(c, i) => n # 0

\* A listing on its way, one that is not begun, and one that was answered.
Underway(c) ==
  /\ \A k \in listing[c].owed : Present(k) /\ Namespace[k] = request[c].namespace
  /\ \A i \in DOMAIN Order : Taken(c, i)
  /\ engine = "bolt" => pc[c] = "page" /\ listing[c].page = NoKeys

Unbegun(c) ==
  /\ listing[c].cursor = 0 /\ listing[c].owed = {}
  /\ listing[c].page = NoKeys /\ listing[c].got = NoKeys

Complete(c) ==
  /\ \A k \in listing[c].owed : listing[c].got[k] # 0
  /\ \A k \in Key : listing[c].got[k] <= 1

ListOK(c) ==
  /\ Op(c) \notin Listings \/ pc[c] = "idle" => Unbegun(c)
  /\ pc[c] \in {"page", "values"} => Underway(c)
  /\ answer[c] = "done" => Complete(c)

ListInv == listing \in [Client -> Listing] /\ \A c \in Client : ListOK(c)

LEMMA NoKeysType == NoKeys \in [Key -> Nat] /\ \A k \in Key : NoKeys[k] = 0
BY DEF NoKeys

\* A listing of which only keys that are gone were crossed out.
Kept(d) ==
  /\ UNCHANGED <<engine, request>> /\ pc'[d] = pc[d] /\ answer'[d] = answer[d]
  /\ listing'[d].cursor = listing[d].cursor
  /\ listing'[d].page = listing[d].page /\ listing'[d].got = listing[d].got
  /\ listing'[d].owed \subseteq listing[d].owed
  /\ \A k \in listing'[d].owed : Present(k) => Present(k)'

LEMMA KeptList == ASSUME NEW d \in Client, ListOK(d), Kept(d) PROVE ListOK(d)'
<1>1. \A i : Passed(d, i)' <=> Passed(d, i)
  BY DEF Kept, Passed
<1>2. Underway(d) => Underway(d)'
  BY <1>1 DEF Kept, Underway, Taken
<1>3. (Unbegun(d) => Unbegun(d)') /\ (Complete(d) => Complete(d)')
  BY DEF Kept, Unbegun, Complete
<1> QED BY <1>2, <1>3 DEF Kept, ListOK, Op

LEMMA PutListing ==
  ASSUME EngineTypeOK, listing \in [Client -> Listing], NEW ks, NEW new, Put(ks, new)
  PROVE  /\ listing' \in [Client -> Listing]
         /\ \A d \in Client :
              /\ listing'[d].cursor = listing[d].cursor
              /\ listing'[d].page = listing[d].page /\ listing'[d].got = listing[d].got
              /\ listing'[d].owed \subseteq listing[d].owed
              /\ \A k \in listing'[d].owed : Present(k) => Present(k)'
<1>1. /\ store' = [k \in Key |-> IF k \in ks THEN new[k] ELSE store[k]]
      /\ listing' = [d \in Client |->
           [listing[d] EXCEPT !.owed = {k \in @ : k \in ks => new[k] # Missing}]]
  BY DEF Put
<1>2. ASSUME NEW d \in Client
      PROVE  /\ listing'[d] = [listing[d] EXCEPT !.owed =
                  {k \in listing[d].owed : k \in ks => new[k] # Missing}]
             /\ listing[d] \in Listing /\ listing[d].owed \subseteq Key
  BY <1>1 DEF Listing
<1>3. ASSUME NEW d \in Client
      PROVE  /\ listing'[d] \in Listing
             /\ listing'[d].cursor = listing[d].cursor
             /\ listing'[d].page = listing[d].page /\ listing'[d].got = listing[d].got
             /\ listing'[d].owed = {k \in listing[d].owed : k \in ks => new[k] # Missing}
  <2> DEFINE still == {k \in listing[d].owed : k \in ks => new[k] # Missing}
  <2>1. still \subseteq Key
    BY <1>2
  <2>2. listing'[d] = [listing[d] EXCEPT !.owed = still] /\ listing[d] \in Listing
    BY <1>2
  <2> HIDE DEF still
  <2>3. /\ listing'[d] \in Listing /\ listing'[d].owed = still
        /\ listing'[d].cursor = listing[d].cursor
        /\ listing'[d].page = listing[d].page /\ listing'[d].got = listing[d].got
    BY <2>1, <2>2 DEF Listing
  <2> QED BY <2>3 DEF still
<1>4. ASSUME NEW d \in Client, NEW k \in listing'[d].owed, Present(k) PROVE Present(k)'
  <2>1. k \in Key /\ (k \in ks => new[k] # Missing)
    BY <1>2, <1>3, <1>4
  <2> QED BY <1>1, <1>4, <2>1 DEF Present
<1>5. listing' \in [Client -> Listing]
  BY <1>1, <1>3
<1> QED BY <1>3, <1>4, <1>5

\* The listing of c is what a step changes; the others are kept.
LEMMA OneListing ==
  ASSUME ListInv, NEW c \in Client, Quiet(c), NEW l \in Listing,
         listing' = [listing EXCEPT ![c] = l], ListOK(c)'
  PROVE  ListInv'
<1>1. listing' \in [Client -> Listing]
  BY DEF ListInv
<1>2. ASSUME NEW d \in Client \ {c} PROVE ListOK(d)'
  BY KeptList DEF ListInv, Quiet, Kept, Present
<1> QED BY <1>1, <1>2 DEF ListInv

LEMMA ListPhase ==
  ASSUME EInv, ListInv, NEW c \in Client
  PROVE  /\ request \in Workload /\ engine \in {"bolt", "redis"} /\ Phase(c) /\ ListOK(c)
         /\ listing[c] \in Listing /\ listing[c].cursor \in Nat
         /\ listing[c].page \in [Key -> Nat] /\ listing[c].got \in [Key -> Nat]
         /\ listing[c].owed \subseteq Key
         /\ Op(c) \in Listings => request[c].size \in Nat \ {0}
<1>1. listing[c] \in Listing /\ request \in Workload
  BY DEF ListInv, EInv, EngineTypeOK
<1> QED BY <1>1, WorkloadAssumption DEF EInv, EngineTypeOK, AvailableStorage, ListInv, Listing,
                                        Listings, Op

LEMMA StartListInv ==
  ASSUME EInv, ListInv, NEW c \in Client, StartList(c)
  PROVE  ListInv'
<1> DEFINE here == {k \in Key : Present(k) /\ Namespace[k] = request[c].namespace}
           l == [listing[c] EXCEPT !.owed = here]
<1>1. /\ UNCHANGED <<engine, request, store, answer>> /\ Quiet(c)
      /\ pc[c] = "idle" /\ pc'[c] = "page" /\ Op(c) \in Listings
      /\ listing' = [listing EXCEPT ![c] = l]
  BY CallStep, GoToType DEF StartList, EInv, Op, Listings
<1>2. /\ Unbegun(c) /\ answer[c] = "none" /\ listing[c] \in Listing
      /\ listing \in [Client -> Listing]
  BY <1>1, ListPhase DEF ListOK, Phase, ListInv
<1>3. /\ l \in Listing /\ listing'[c] = l /\ l.owed = here /\ l.cursor = 0
      /\ l.page = NoKeys /\ l.got = NoKeys
  BY <1>1, <1>2 DEF Listing, Unbegun
<1>4. \A i \in DOMAIN Order : Taken(c, i)'
  <2> SUFFICES ASSUME NEW i \in DOMAIN Order PROVE Taken(c, i)'
    OBVIOUS
  <2>1. Order[i] \in Key /\ i \in 1..Len(Order) /\ Len(Order) \in Nat
    BY Places
  <2>2. ~Passed(c, i)'
    BY <1>1, <1>3, <2>1 DEF Passed
  <2> QED BY <1>3, <2>1, <2>2, NoKeysType DEF Taken
<1>5. Underway(c)'
  BY <1>1, <1>3, <1>4 DEF Underway, Present
<1>6. ListOK(c)'
  BY <1>1, <1>2, <1>5 DEF ListOK, Op, Listings
<1> QED BY <1>1, <1>3, <1>6, OneListing

\* A page of Bolt holds the keys from the cursor up to its token.
LEMMA BoltPage ==
  ASSUME EInv, ListInv, NEW c \in Client, pc[c] = "page", Op(c) \in Listings,
         NEW rest, rest = Rest(c, listing[c].cursor),
         NEW page, page = FirstOf(rest, request[c].size), rest # page
  PROVE  /\ NextToken(rest, page) \in Nat /\ listing[c].cursor <= NextToken(rest, page)
         /\ \A i \in rest : i \in page <=> i <= NextToken(rest, page)
<1> DEFINE left == rest \ page
           token == NextToken(rest, page)
<1>1. /\ page \subseteq rest /\ rest \subseteq DOMAIN Order
      /\ \A i \in rest : i \in Nat /\ i > listing[c].cursor
  BY Places DEF FirstOf, Rest
<1>2. listing[c].cursor \in Nat /\ request[c].size \in Nat
  BY ListPhase
<1>3. left # {} /\ left \subseteq Nat
  BY <1>1
<1>4. Min(left) \in left /\ \A k \in left : Min(left) <= k
  BY <1>3, Least
<1>5. Min(left) \in Nat /\ Min(left) > listing[c].cursor /\ token = Min(left) - 1
  BY <1>1, <1>4 DEF NextToken
<1>6. token \in Nat /\ listing[c].cursor <= token
  BY <1>2, <1>5
<1>7. ASSUME NEW i \in page PROVE i <= token
  <2>1. i < Min(left) \/ Min(left) < i \/ i = Min(left)
    BY <1>1, <1>5
  <2>2. ~(Min(left) < i)
    BY <1>1, <1>2, <1>4, FirstOfDown
  <2> QED BY <1>1, <1>4, <1>5, <2>1, <2>2
<1>8. ASSUME NEW i \in left PROVE ~(i <= token)
  BY <1>3, <1>4, <1>5
<1> QED BY <1>1, <1>6, <1>7, <1>8

LEMMA PageOfBoltInv ==
  ASSUME EInv, ListInv, NEW c \in Client, PageOfBolt(c)
  PROVE  ListInv'
<1> DEFINE rest == Rest(c, listing[c].cursor)
           page == FirstOf(rest, request[c].size)
           got == Count(listing[c].got, page)
           cursor == IF rest = page THEN 0 ELSE NextToken(rest, page)
           l == [listing[c] EXCEPT !.got = got, !.cursor = cursor]
<1>1. /\ UNCHANGED <<engine, request, store>> /\ Quiet(c)
      /\ pc[c] = "page" /\ engine = "bolt" /\ Op(c) \in Listings
      /\ listing' = [listing EXCEPT ![c] = l]
      /\ IF rest = page THEN Answer(c, "done") ELSE UNCHANGED <<pc, answer>>
  BY CallStep, ListPhase DEF PageOfBolt, Phase, Listings
<1>2. /\ Underway(c) /\ answer[c] = "none" /\ listing[c].page = NoKeys
      /\ listing \in [Client -> Listing] /\ listing[c] \in Listing
      /\ listing[c].got \in [Key -> Nat] /\ listing[c].owed \subseteq Key
      /\ listing[c].cursor \in Nat
  BY <1>1, ListPhase DEF ListOK, Phase, Underway, ListInv
<1>3. /\ page \subseteq rest /\ rest \subseteq DOMAIN Order
      /\ \A i \in DOMAIN Order : i \in rest <=>
           /\ i > listing[c].cursor /\ Present(Order[i])
           /\ Matches(request[c].namespace, Order[i])
  BY DEF FirstOf, Rest
<1>4. rest # page =>
        /\ NextToken(rest, page) \in Nat /\ listing[c].cursor <= NextToken(rest, page)
        /\ \A i \in rest : i \in page <=> i <= NextToken(rest, page)
  BY <1>1, BoltPage
<1>5. /\ got \in [Key -> Nat]
      /\ \A i \in DOMAIN Order : got[Order[i]] =
           IF i \in page THEN listing[c].got[Order[i]] + 1 ELSE listing[c].got[Order[i]]
  BY <1>2, <1>3, CountOf
<1>6. cursor \in Nat /\ (rest # page => cursor = NextToken(rest, page))
  BY <1>4
<1> HIDE DEF rest, page, got, cursor
<1>7. /\ l \in Listing /\ listing'[c] = l /\ l.owed = listing[c].owed /\ l.cursor = cursor
      /\ l.page = NoKeys /\ l.got = got
  BY <1>1, <1>2, <1>5, <1>6 DEF Listing
\* What was taken before, and what this page adds.
<1>8. ASSUME NEW i \in DOMAIN Order
      PROVE  /\ i \in Nat /\ Order[i] \in Key /\ got[Order[i]] \in Nat /\ got[Order[i]] <= 1
             /\ got[Order[i]] # 0 => i <= listing[c].cursor \/ i \in page
             /\ Order[i] \in listing[c].owed /\ (i <= listing[c].cursor \/ i \in page) =>
                  got[Order[i]] # 0
             /\ Order[i] \in listing[c].owed /\ i > listing[c].cursor => i \in rest
  <2>1. /\ Taken(c, i) /\ i \in Nat /\ Order[i] \in Key
        /\ listing[c].page[Order[i]] = 0 /\ listing[c].got[Order[i]] \in Nat
    BY <1>2, Places, NoKeysType DEF Underway
  <2>2. /\ listing[c].got[Order[i]] <= 1
        /\ listing[c].got[Order[i]] # 0 => i <= listing[c].cursor
        /\ Order[i] \in listing[c].owed /\ i <= listing[c].cursor => listing[c].got[Order[i]] # 0
    BY <1>1, <2>1 DEF Taken, Passed
  <2>3. i \in page => i > listing[c].cursor
    BY <1>3
  <2>4. Order[i] \in listing[c].owed =>
          Present(Order[i]) /\ Matches(request[c].namespace, Order[i])
    BY <1>2 DEF Underway, Matches
  <2> QED BY <1>2, <1>3, <1>5, <2>1, <2>2, <2>3, <2>4
<1>9. CASE rest = page
  <2>1. pc'[c] = "ended" /\ answer'[c] = "done"
    BY <1>1, <1>9, AnswerType DEF EInv, EngineTypeOK
  <2>2. ASSUME NEW k \in Key PROVE got[k] <= 1 /\ (k \in listing[c].owed => got[k] # 0)
    <3>1. PICK i \in DOMAIN Order : Order[i] = k
      BY Places
    <3>2. i <= listing[c].cursor \/ i > listing[c].cursor
      BY <1>2, <1>8
    <3> QED BY <1>8, <1>9, <3>1, <3>2
  <2>3. Complete(c)'
    BY <1>2, <1>7, <2>2 DEF Complete
  <2>4. ListOK(c)'
    BY <1>1, <2>1, <2>3 DEF ListOK, Op, Listings
  <2> QED BY <1>1, <1>7, <2>4, OneListing
<1>10. CASE rest # page
  <2>1. UNCHANGED <<pc, answer>>
    BY <1>1, <1>10
  <2>2. \A i \in DOMAIN Order : Taken(c, i)'
    <3> SUFFICES ASSUME NEW i \in DOMAIN Order PROVE Taken(c, i)'
      OBVIOUS
    <3>1. Passed(c, i)' <=> i <= cursor
      BY <1>1, <1>7, <2>1 DEF Passed
    <3>2. i \in page => i <= cursor
      BY <1>3, <1>4, <1>6, <1>10
    <3>3. i <= listing[c].cursor => i <= cursor
      BY <1>2, <1>4, <1>6, <1>8, <1>10
    <3>4. Order[i] \in listing[c].owed /\ i <= cursor => i <= listing[c].cursor \/ i \in page
      BY <1>2, <1>4, <1>6, <1>8, <1>10
    <3>5. got[Order[i]] + NoKeys[Order[i]] = got[Order[i]]
      BY <1>8, NoKeysType
    <3> QED BY <1>7, <1>8, <3>1, <3>2, <3>3, <3>4, <3>5 DEF Taken
  <2>3. Underway(c)'
    BY <1>1, <1>2, <1>7, <2>1, <2>2 DEF Underway, Present
  <2>4. ListOK(c)'
    BY <1>1, <1>2, <2>1, <2>3 DEF ListOK, Op, Listings
  <2> QED BY <1>1, <1>7, <2>4, OneListing
<1> QED BY <1>9, <1>10

LEMMA ScanInv ==
  ASSUME EInv, ListInv, NEW c \in Client, Scan(c)
  PROVE  ListInv'
<1> DEFINE cursor == listing[c].cursor
           count == IF request[c].size < ScanBatch THEN request[c].size ELSE ScanBatch
           seen == {i \in Rest(c, cursor) : i <= cursor + count}
           page == Count(listing[c].page, seen)
           next == IF cursor + count >= Len(Order) THEN 0 ELSE cursor + count
           l == [listing[c] EXCEPT !.page = page, !.cursor = next]
<1>1. /\ UNCHANGED <<engine, request, store, answer>> /\ Quiet(c)
      /\ pc[c] = "page" /\ engine = "redis" /\ Op(c) \in Listings
      /\ listing' = [listing EXCEPT ![c] = l]
      /\ pc'[c] \in {"page", "values"} /\ (next = 0 => pc'[c] = "values")
  <2>1. IF next = 0 \/ Cardinality(Found(page)) >= request[c].size
        THEN GoTo(c, "values") ELSE UNCHANGED pc
    BY DEF Scan
  <2>2. pc[c] = "page" /\ EngineTypeOK
    BY DEF Scan, EInv
  <2>3. pc'[c] \in {"page", "values"} /\ (next = 0 => pc'[c] = "values")
    BY <2>1, <2>2, GoToType
  <2>4. Quiet(c) /\ Op(c) \in Listings
    BY <2>2, CallStep, ListPhase DEF Phase, Listings
  <2> QED BY <2>2, <2>3, <2>4 DEF Scan
<1>2. /\ Underway(c) /\ answer[c] = "none"
      /\ listing \in [Client -> Listing] /\ listing[c] \in Listing
      /\ listing[c].got \in [Key -> Nat] /\ listing[c].page \in [Key -> Nat]
      /\ listing[c].owed \subseteq Key
      /\ cursor \in Nat /\ count \in Nat \ {0}
  BY <1>1, ListPhase, ScanBatchAssumption DEF ListOK, Phase, ListInv
<1>3. /\ seen \subseteq DOMAIN Order
      /\ \A i \in DOMAIN Order : i \in seen <=>
           /\ i > cursor /\ i <= cursor + count
           /\ Present(Order[i]) /\ Matches(request[c].namespace, Order[i])
  BY DEF Rest
<1>4. /\ page \in [Key -> Nat]
      /\ \A i \in DOMAIN Order : page[Order[i]] =
           IF i \in seen THEN listing[c].page[Order[i]] + 1 ELSE listing[c].page[Order[i]]
  BY <1>2, <1>3, CountOf
<1>5. /\ next \in Nat /\ (next # 0 => next = cursor + count)
      /\ next = 0 => \A i \in DOMAIN Order : i <= cursor + count
  <2> DEFINE end == cursor + count
  <2>1. end \in Nat /\ end # 0 /\ Len(Order) \in Nat
    BY <1>2, Places
  <2>2. next = IF end >= Len(Order) THEN 0 ELSE end
    OBVIOUS
  <2> HIDE DEF count, next, end
  <2>3. /\ next \in Nat /\ (next # 0 => next = end)
        /\ next = 0 => \A i \in DOMAIN Order : i <= end
    BY <2>1, <2>2, Places
  <2> QED BY <2>3 DEF end
<1> HIDE DEF count, seen, page, next
<1>6. /\ l \in Listing /\ listing'[c] = l /\ l.owed = listing[c].owed /\ l.cursor = next
      /\ l.page = page /\ l.got = listing[c].got
  BY <1>1, <1>2, <1>4, <1>5 DEF Listing
<1>7. \A i \in DOMAIN Order : Taken(c, i)'
  <2> SUFFICES ASSUME NEW i \in DOMAIN Order PROVE Taken(c, i)'
    OBVIOUS
  <2> DEFINE k == Order[i]
  <2>1. /\ Taken(c, i) /\ i \in Nat /\ k \in Key
        /\ listing[c].page[k] \in Nat /\ listing[c].got[k] \in Nat
    BY <1>2, Places DEF Underway
  <2>2. Passed(c, i)' <=> i <= cursor + count
    BY <1>1, <1>2, <1>5, <1>6, <2>1 DEF Passed
  <2>3. Passed(c, i) <=> i <= cursor
    BY <1>1 DEF Passed
  <2>4. /\ i \in seen => ~Passed(c, i) /\ Passed(c, i)'
        /\ Passed(c, i) => Passed(c, i)'
    BY <1>2, <1>3, <2>1, <2>2, <2>3
  <2>5. k \in listing[c].owed => Present(k) /\ Matches(request[c].namespace, k)
    BY <1>2 DEF Underway, Matches
  <2>6. k \in listing[c].owed /\ Passed(c, i)' /\ ~Passed(c, i) => i \in seen
    BY <1>2, <1>3, <2>1, <2>2, <2>3, <2>5
  <2>7. page[k] = IF i \in seen THEN listing[c].page[k] + 1 ELSE listing[c].page[k]
    BY <1>4
  <2> DEFINE n == listing[c].got[k] + listing[c].page[k]
             m == listing[c].got[k] + page[k]
  <2>8. /\ n \in Nat /\ n <= 1 /\ (n # 0 => Passed(c, i))
        /\ k \in listing[c].owed /\ Passed(c, i) => n # 0
    BY <2>1 DEF Taken
  <2>9. m = IF i \in seen THEN n + 1 ELSE n
    BY <2>1, <2>7
  <2> HIDE DEF n, m
  <2>10. /\ m <= 1 /\ (m # 0 => Passed(c, i)')
         /\ k \in listing[c].owed /\ Passed(c, i)' => m # 0
    BY <2>4, <2>6, <2>8, <2>9
  <2> QED BY <1>6, <2>10 DEF Taken, m
<1>8. Underway(c)'
  BY <1>1, <1>2, <1>6, <1>7 DEF Underway, Present
<1>9. ListOK(c)'
  BY <1>1, <1>2, <1>8 DEF ListOK, Op, Listings
<1> QED BY <1>1, <1>6, <1>9, OneListing

LEMMA ValuesInv ==
  ASSUME EInv, ListInv, NEW c \in Client, Values(c)
  PROVE  ListInv'
<1> DEFINE got == [k \in Key |-> listing[c].got[k] + listing[c].page[k]]
           l == [listing[c] EXCEPT !.got = got, !.page = NoKeys]
<1>1. /\ UNCHANGED <<engine, request, store>> /\ Quiet(c)
      /\ pc[c] = "values" /\ Op(c) \in Listings
      /\ IF listing[c].cursor = 0 THEN Answer(c, "done") ELSE GoTo(c, "page") /\ UNCHANGED answer
  BY CallStep, ListPhase DEF Values, Phase, Listings
<1>2. /\ Underway(c) /\ answer[c] = "none" /\ engine = "redis"
      /\ listing \in [Client -> Listing] /\ listing[c] \in Listing
      /\ listing[c].got \in [Key -> Nat] /\ listing[c].page \in [Key -> Nat]
      /\ listing[c].owed \subseteq Key /\ listing[c].cursor \in Nat
  BY <1>1, ListPhase DEF ListOK, Phase, ListInv, Underway
<1>3. listing' = [listing EXCEPT ![c] = l]
  BY <1>2 DEF Values
<1>4. got \in [Key -> Nat] /\ \A k \in Key : got[k] = listing[c].got[k] + listing[c].page[k]
  BY <1>2
<1> HIDE DEF got
<1>5. /\ l \in Listing /\ listing'[c] = l /\ l.owed = listing[c].owed
      /\ l.cursor = listing[c].cursor /\ l.page = NoKeys /\ l.got = got
  BY <1>2, <1>3, <1>4, NoKeysType DEF Listing
<1>6. ASSUME NEW i \in DOMAIN Order
      PROVE  /\ Order[i] \in Key /\ i \in Nat /\ got[Order[i]] \in Nat /\ got[Order[i]] <= 1
             /\ got[Order[i]] # 0 => Passed(c, i)
             /\ Order[i] \in listing[c].owed /\ Passed(c, i) => got[Order[i]] # 0
  BY <1>2, <1>4, Places DEF Underway, Taken
<1>7. CASE listing[c].cursor = 0
  <2>1. pc'[c] = "ended" /\ answer'[c] = "done"
    BY <1>1, <1>7, AnswerType DEF EInv, EngineTypeOK
  <2>2. \A i \in DOMAIN Order : Passed(c, i)
    BY <1>1, <1>7 DEF Passed
  <2>3. ASSUME NEW k \in Key PROVE got[k] <= 1 /\ (k \in listing[c].owed => got[k] # 0)
    <3>1. PICK i \in DOMAIN Order : Order[i] = k
      BY Places
    <3> QED BY <1>6, <2>2, <3>1
  <2>4. Complete(c)'
    BY <1>2, <1>5, <2>3 DEF Complete
  <2>5. ListOK(c)'
    BY <1>1, <2>1, <2>4 DEF ListOK, Op, Listings
  <2> QED BY <1>3, <1>1, <1>5, <2>5, OneListing
<1>8. CASE listing[c].cursor # 0
  <2>1. pc'[c] = "page" /\ UNCHANGED answer
    BY <1>1, <1>8, GoToType DEF EInv
  <2>2. \A i \in DOMAIN Order : Taken(c, i)'
    <3> SUFFICES ASSUME NEW i \in DOMAIN Order PROVE Taken(c, i)'
      OBVIOUS
    <3>1. Passed(c, i)' <=> Passed(c, i)
      BY <1>1, <1>5, <1>8, <2>1 DEF Passed
    <3>2. got[Order[i]] + NoKeys[Order[i]] = got[Order[i]]
      BY <1>6, NoKeysType
    <3> QED BY <1>5, <1>6, <3>1, <3>2 DEF Taken
  <2>3. Underway(c)'
    BY <1>1, <1>2, <1>5, <2>1, <2>2 DEF Underway, Present
  <2>4. ListOK(c)'
    BY <1>1, <1>2, <2>1, <2>3 DEF ListOK, Op, Listings
  <2> QED BY <1>3, <1>1, <1>5, <2>4, OneListing
<1> QED BY <1>7, <1>8

\* Steps of other calls, and calls that fail, leave every listing as it is, but
\* for the keys that they delete.
LEMMA OtherStepInv ==
  ASSUME EInv, EInv', ListInv, NEW c \in Client,
         UNCHANGED <<engine, request>>,
         \A d \in Client \ {c} : pc'[d] = pc[d] /\ answer'[d] = answer[d],
         \/ UNCHANGED <<store, listing>>
         \/ \E ks, new : Put(ks, new),
         Op(c) \notin Listings \/ (pc'[c] = "ended" /\ answer'[c] = "failed")
  PROVE  ListInv'
<1>1. /\ listing' \in [Client -> Listing]
      /\ \A d \in Client :
           /\ listing'[d].cursor = listing[d].cursor
           /\ listing'[d].page = listing[d].page /\ listing'[d].got = listing[d].got
           /\ listing'[d].owed \subseteq listing[d].owed
           /\ \A k \in listing'[d].owed : Present(k) => Present(k)'
  <2>1. EngineTypeOK /\ listing \in [Client -> Listing]
    BY DEF EInv, ListInv
  <2>2. CASE UNCHANGED <<store, listing>>
    BY <2>1, <2>2 DEF Present
  <2> QED BY <2>1, <2>2, PutListing
<1>2. \A d \in Client \ {c} : ListOK(d)'
  BY <1>1, KeptList DEF ListInv, Kept
<1>3. ListOK(c)'
  <2>1. CASE pc'[c] = "ended" /\ answer'[c] = "failed" /\ Op(c) \in Listings
    BY <2>1 DEF ListOK, Op
  <2>2. CASE Op(c) \notin Listings
    <3>1. Unbegun(c)
      BY <2>2 DEF ListInv, ListOK
    <3>2. Unbegun(c)'
      BY <1>1, <3>1 DEF Unbegun
    <3>3. Complete(c)'
      BY <3>2, NoKeysType DEF Unbegun, Complete
    <3>4. pc'[c] \notin {"page", "values"}
      BY <2>2 DEF EInv, Phase, Op, Listings
    <3> QED BY <3>2, <3>3, <3>4 DEF ListOK
  <2> QED BY <2>1, <2>2
<1> QED BY <1>1, <1>2, <1>3 DEF ListInv

LEMMA ListStep ==
  ASSUME EInv, ListInv, NEW c \in Client, Step(c) \/ Stop(c)
  PROVE  ListInv'
<1>1. EInv' /\ EngineTypeOK /\ request \in Workload /\ Phase(c)
  BY StepKinds DEF EInv, EngineTypeOK
<1>2. CASE StartList(c) \/ PageOfBolt(c) \/ Scan(c) \/ Values(c)
  BY <1>2, StartListInv, PageOfBoltInv, ScanInv, ValuesInv
<1>3. CASE \/ LockWriter(c) \/ Watch(c) \/ ReadForUpdate(c) \/ Open(c) \/ ReadServiceKey(c)
           \/ Retry(c) \/ Seal(c) \/ LookForNamespace(c)
  <2>1. Quiet(c) /\ UNCHANGED listing
    BY <1>3, QueueStep, CallStep DEF LockWriter, Watch, ReadForUpdate, Open, ReadServiceKey,
                                     Retry, Seal, LookForNamespace
  <2>2. Op(c) \notin Listings
    BY <1>1, <1>3 DEF LockWriter, Watch, ReadForUpdate, Open, ReadServiceKey, Retry, Seal,
                      LookForNamespace, Phase, Transaction, Op, Listings
  <2> QED BY <1>1, <2>1, <2>2, OtherStepInv DEF Quiet
<1>4. CASE Commit(c) \/ Exec(c) \/ WriteMany(c) \/ GetDel(c) \/ DeleteOfBolt(c)
  <2>1. Loud(c) /\ TakesEffect(c)
    BY <1>4, EffectStep
  <2>2. Op(c) \notin Listings
    BY <2>1 DEF TakesEffect, Listings
  <2>3. \E ks, new : Put(ks, new)
    BY <1>4 DEF Commit, Exec, WriteMany, GetDel, DeleteOfBolt, RemoveKey, WriteQueue
  <2> QED BY <1>1, <2>1, <2>2, <2>3, OtherStepInv DEF Loud
<1>5. CASE Refuse(c) \/ Stop(c)
  <2>1. Fail(c)
    BY <1>5 DEF Refuse, Stop
  <2>2. Quiet(c) /\ UNCHANGED <<store, listing>> /\ pc'[c] = "ended" /\ answer'[c] = "failed"
    BY <1>1, <2>1, FailInv, AnswerType DEF Fail, EngineTypeOK
  <2> QED BY <1>1, <2>2, OtherStepInv DEF Quiet
<1> QED BY <1>2, <1>3, <1>4, <1>5 DEF Step, Execute

\* Whatever is written and deleted between its pages, a listing on its way has
\* taken what it passed once, for both engines.
THEOREM EngineListInvariant == Spec => []ListInv
<1>1. Init => ListInv
  <2> SUFFICES ASSUME Init PROVE ListInv
    OBVIOUS
  <2>1. listing = [c \in Client |-> [cursor |-> 0, page |-> NoKeys, got |-> NoKeys, owed |-> {}]]
        /\ pc = [c \in Client |-> "idle"] /\ answer = [c \in Client |-> "none"]
    BY DEF Init
  <2>2. listing \in [Client -> Listing]
    BY <2>1, NoKeysType DEF Listing
  <2>3. \A c \in Client : ListOK(c)
    BY <2>1 DEF ListOK, Unbegun
  <2> QED BY <2>2, <2>3 DEF ListInv
<1>2. EInv /\ ListInv /\ [Next]_vars => ListInv'
  <2> SUFFICES ASSUME EInv, ListInv, [Next]_vars PROVE ListInv'
    OBVIOUS
  <2>1. CASE \E c \in Client : Step(c) \/ Stop(c)
    BY <2>1, ListStep
  <2>2. CASE UNCHANGED vars
    <3>1. UNCHANGED <<engine, request, store, pc, answer, listing>>
      BY <2>2 DEF vars
    <3>2. \A c \in Client : ListOK(c)'
      BY <3>1, KeptList DEF ListInv, Kept, Present
    <3> QED BY <3>1, <3>2 DEF ListInv
  <2> QED BY <2>1, <2>2 DEF Next, Done
<1> QED BY <1>1, <1>2, EngineInvariant, PTL DEF Spec

\* A listing that was answered holds every key that was there all the time, and
\* none twice, for any keys, sizes of a page and of a SCAN, and whatever other
\* clients write and delete between its pages (ReadPage of bolt.go and redis.go).
THEOREM EngineListedOnce == Spec => []ListedOnce
<1>1. ListInv => ListedOnce
  BY DEF ListInv, ListOK, Complete, ListedOnce
<1> QED BY <1>1, EngineListInvariant, PTL

------------------------------------------------------------------------------
\* The writer's lock is with the client whose transaction is open, and with
\* nobody once it was answered, failed or stopped; Redis has no such lock.
LockHeld == \A c \in Client : writer = c <=> engine = "bolt" /\ Watching(c)

LEMMA LockStep ==
  ASSUME EInv, LockHeld, NEW c \in Client, Step(c) \/ Stop(c)
  PROVE  LockHeld'
<1>1. /\ EngineTypeOK /\ Phase(c) /\ engine \in {"bolt", "redis"}
      /\ \A d \in Client : d # NoClient
  BY EngineAssumption DEF EInv, EngineTypeOK, AvailableStorage
<1>2. UNCHANGED <<engine, request>> /\ \A d \in Client \ {c} : pc'[d] = pc[d]
  <2>1. CASE \/ LockWriter(c) \/ Watch(c) \/ ReadForUpdate(c) \/ Open(c)
             \/ ReadServiceKey(c) \/ Retry(c)
    BY <2>1, QueueStep DEF Quiet
  <2>2. CASE \/ Seal(c) \/ LookForNamespace(c) \/ StartList(c)
             \/ PageOfBolt(c) \/ Scan(c) \/ Values(c)
    BY <2>2, CallStep DEF Quiet
  <2>3. CASE Commit(c) \/ Exec(c) \/ WriteMany(c) \/ GetDel(c) \/ DeleteOfBolt(c)
    BY <2>3, EffectStep DEF Loud
  <2>4. CASE Refuse(c) \/ Stop(c)
    BY <2>4, FailInv DEF Refuse, Stop, Quiet
  <2> QED BY <2>1, <2>2, <2>3, <2>4 DEF Step, Execute
<1>3. /\ \A d \in Client \ {c} : Watching(d)' <=> Watching(d)
      /\ Transaction(c)' <=> Transaction(c)
  BY <1>2 DEF Watching, Transaction
<1>4. CASE LockWriter(c)
  BY <1>1, <1>2, <1>3, <1>4, GoToType DEF LockWriter, LockHeld, Watching
\* What begins and ends a transaction of Redis, and calls without a transaction.
<1>5. CASE \/ Watch(c) \/ Retry(c) \/ Exec(c) \/ Seal(c) \/ WriteMany(c)
           \/ LookForNamespace(c) \/ GetDel(c) \/ DeleteOfBolt(c)
           \/ StartList(c) \/ PageOfBolt(c) \/ Scan(c) \/ Values(c)
  <2>1. writer' = writer /\ (engine = "redis" \/ ~Transaction(c))
    BY <1>1, <1>5 DEF Watch, Retry, LockLost, Exec, Seal, WriteMany, LookForNamespace, GetDel,
                      DeleteOfBolt, RemoveKey, StartList, PageOfBolt, Scan, Values,
                      Phase, Transaction, Op
  <2> QED BY <1>2, <1>3, <2>1 DEF LockHeld, Watching
<1>6. CASE ReadForUpdate(c) \/ Open(c) \/ ReadServiceKey(c)
  <2>1. writer' = writer /\ Watching(c) /\ Watching(c)'
    BY <1>1, <1>3, <1>6, GoToType
       DEF ReadForUpdate, Open, ReadServiceKey, Watching, Transaction
  <2> QED BY <1>2, <1>3, <2>1 DEF LockHeld
<1>7. CASE Commit(c) \/ Refuse(c) \/ Stop(c)
  <2>1. Release(c) /\ pc'[c] = "ended"
    BY <1>1, <1>7, AnswerType DEF Commit, Refuse, Stop, Fail
  <2>2. ~Watching(c)'
    BY <2>1 DEF Watching
  <2> QED BY <1>1, <1>2, <1>3, <2>1, <2>2 DEF Release, LockHeld
<1> QED BY <1>4, <1>5, <1>6, <1>7 DEF Step, Execute

\* Whoever waits for Bolt's lock waits for a transaction that is still open: it
\* is given back with the answer, after an error and by a stop (bolt.go).
THEOREM EngineLockHeld == Spec => []LockHeld
<1>1. Init => LockHeld
  BY EngineAssumption DEF Init, LockHeld, Watching
<1>2. EInv /\ LockHeld /\ [Next]_vars => LockHeld'
  <2> SUFFICES ASSUME EInv, LockHeld, [Next]_vars PROVE LockHeld'
    OBVIOUS
  <2>1. CASE \E c \in Client : Step(c) \/ Stop(c)
    BY <2>1, LockStep
  <2>2. CASE UNCHANGED vars
    BY <2>2 DEF vars, LockHeld, Watching, Transaction
  <2> QED BY <2>1, <2>2 DEF Next, Done
<1> QED BY <1>1, <1>2, EngineInvariant, PTL DEF Spec

==============================================================================
