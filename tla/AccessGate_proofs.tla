--------------------------- MODULE AccessGate_proofs ---------------------------
(***************************************************************************)
(* The owner's service, the users' and the gate: what is stored and        *)
(* answered is on chain, and a token passes only for a role that is held   *)
(* while it is verified, for any calls through the wallet, any prices and  *)
(* any users, with failures between any two steps.                         *)
(*                                                                         *)
(* The argument rests on one fact of the handler contract: a context of    *)
(* the wallet's own is registered for good, so that whatever a call has    *)
(* read of it stays true (ReadStays), and on what the ledger says of the   *)
(* calls whose transactions it has (MinedCreation, MinedSetup).            *)
(***************************************************************************)
EXTENDS AccessGate, SequenceTheorems, TLAPS

Registering == {"lookup", "options", "send", "wait", "done", "failed"}
Creating == {"start", "readBack", "insert"}
NotSent == {"start", "lookup", "options", "send"}
Registration == Call \ Creation

OwnerTypeOK ==
  /\ pending \in Seq(Call)
  /\ ledger \in Seq([call : Call, ok : BOOLEAN])
  /\ pc \in [Call -> Registering \cup Creating]
  /\ address \in [Call -> Address]
  /\ registered \in Address
  /\ stored \in Address \cup {NotStored}
  /\ resources \in SUBSET (Registration \X OwnContext)

Mined(c) == \E i \in 1..Len(ledger) : ledger[i] = [call |-> c, ok |-> TRUE]

OnlyCreationsCreate == \A c \in Registration : pc[c] \notin Creating

\* A transaction that is pending or mined was sent.
SentOnly ==
  /\ \A i \in 1..Len(pending) : pc[pending[i]] \notin NotSent
  /\ \A i \in 1..Len(ledger) : pc[ledger[i].call] \notin NotSent

ReadStays == \A c \in Call : address[c] \in OwnContext => registered = address[c]

MinedCreation == \A c \in Creation : Mined(c) => registered = c

MinedSetup ==
  \A c \in Registration : Mined(c) /\ address[c] # ZeroAddress =>
    address[c] \in OwnContext /\ <<c, address[c]>> \in resources

\* How far a call is says what the ledger has.
Progress ==
  /\ \A c \in Creation : pc[c] \in {"readBack", "insert"} => Mined(c)
  /\ \A c \in Creation : pc[c] = "insert" => address[c] = c
  /\ \A c \in Registration : pc[c] = "done" => Mined(c)

StoredOwn == stored # NotStored => stored \in OwnContext /\ stored = registered

OInv ==
  /\ OwnerTypeOK /\ OnlyCreationsCreate /\ SentOnly
  /\ ReadStays /\ MinedCreation /\ MinedSetup /\ Progress /\ StoredOwn

------------------------------------------------------------------------------
LEMMA OwnerInit == Init => OInv
<1> SUFFICES ASSUME Init PROVE OInv
  OBVIOUS
<1>1. pending = <<>> /\ ledger = <<>> /\ Len(pending) = 0 /\ Len(ledger) = 0
  BY DEF Init, WalletInit
<1>2. OwnerTypeOK
  BY <1>1 DEF Init, OwnerTypeOK, Address, Registering, Creating
<1>3. ZeroAddress \notin OwnContext
  BY ContextAssumption DEF OwnContext
<1>4. OnlyCreationsCreate /\ SentOnly /\ ReadStays
  BY <1>1, <1>3 DEF Init, OnlyCreationsCreate, Registration, Creating, SentOnly, ReadStays
<1>5. \A c : ~Mined(c)
  BY <1>1 DEF Mined
<1>6. MinedCreation /\ MinedSetup /\ Progress /\ StoredOwn
  BY <1>5, CreationAssumption
     DEF Init, MinedCreation, MinedSetup, Progress, StoredOwn, Registration
<1> QED BY <1>2, <1>4, <1>6 DEF OInv

------------------------------------------------------------------------------
LEMMA OwnContexts ==
  /\ ZeroAddress \notin OwnContext /\ ForeignContext \notin OwnContext
  /\ ForeignContext # ZeroAddress /\ NotStored \notin Address
  /\ OwnContext \subseteq Address /\ Creation \subseteq OwnContext
  /\ GivenContext \in OwnContext
  /\ Address = OwnContext \cup {ForeignContext, ZeroAddress}
BY ContextAssumption DEF OwnContext, Address

\* The record of a call that succeeded and of the ledger's entry i.
LEMMA MinedType ==
  ASSUME OwnerTypeOK, NEW c \in Call, Mined(c)
  PROVE  \E i \in 1..Len(ledger) : ledger[i] = [call |-> c, ok |-> TRUE] /\ ledger[i].call = c
BY DEF Mined

LEMMA MinedIsSent == ASSUME OInv, NEW c \in Call, Mined(c) PROVE pc[c] \notin NotSent
BY MinedType DEF OInv, SentOnly

\* What a step of call c may do: it goes forward, reads what is registered, or
\* stores what it read after its transaction was mined.
CallEffect(c) ==
  /\ UNCHANGED <<ledger, registered, resources>>
  /\ pc' \in [Call -> Registering \cup Creating] /\ address' \in [Call -> Address]
  /\ \A other \in Call \ {c} : pc'[other] = pc[other] /\ address'[other] = address[other]
  /\ pc[c] \in NotSent \/ pc'[c] \notin NotSent
  /\ pending' = pending \/ (SendTransaction(c) /\ pc'[c] \notin NotSent)
  /\ c \notin Creation => pc'[c] \notin Creating
  /\ \/ address'[c] = address[c]
     \/ address'[c] = registered /\ (c \in Creation \/ pc[c] \in NotSent)
  /\ c \in Creation /\ pc'[c] \in {"readBack", "insert"} => Mined(c)
  /\ c \in Creation /\ pc'[c] = "insert" => address'[c] = c
  /\ c \notin Creation /\ pc'[c] = "done" => Mined(c)
  /\ \/ stored' = stored
     \/ stored' = address[c] /\ c \in Creation /\ address[c] = c /\ Mined(c)

LEMMA GoToType ==
  ASSUME OwnerTypeOK, NEW c \in Call, NEW step \in Registering \cup Creating, GoTo(c, step)
  PROVE  /\ pc' \in [Call -> Registering \cup Creating] /\ pc'[c] = step
         /\ \A other \in Call \ {c} : pc'[other] = pc[other]
BY DEF OwnerTypeOK, GoTo

LEMMA ReadAddressType ==
  ASSUME OwnerTypeOK, NEW c \in Call, NEW value \in Address, ReadAddress(c, value)
  PROVE  /\ address' \in [Call -> Address] /\ address'[c] = value
         /\ \A other \in Call \ {c} : address'[other] = address[other]
BY DEF OwnerTypeOK, ReadAddress

LEMMA CallStepEffect ==
  ASSUME OInv, NEW c \in Call, CallStep(c) \/ Abandon(c)
  PROVE  CallEffect(c)
<1>0. /\ OwnerTypeOK /\ address \in [Call -> Address] /\ registered \in Address
      /\ pc[c] \in Registering \cup Creating
      /\ c \notin Creation => pc[c] \notin Creating
      /\ StoredOwn
  BY DEF OInv, OwnerTypeOK, OnlyCreationsCreate, Registration
<1> USE DEF Registering, Creating, NotSent
<1>1. CASE CheckAccessContextExists(c)
  <2>1. c \in Creation /\ pc[c] = "start"
    BY <1>0, <1>1 DEF CheckAccessContextExists
  <2>2. CASE stored = NotStored
    <3>1. GoTo(c, "lookup") /\ UNCHANGED <<address, pending, ledger, registered, stored, resources>>
      BY <1>1, <2>2 DEF CheckAccessContextExists, walletVars
    <3> QED BY <1>0, <2>1, <3>1, GoToType DEF CallEffect
  <2>3. CASE stored # NotStored
    <3>1. /\ GoTo(c, "done") /\ ReadAddress(c, registered)
          /\ UNCHANGED <<pending, ledger, registered, stored, resources>>
      BY <1>0, <1>1, <2>3 DEF CheckAccessContextExists, walletVars, StoredOwn
    <3> QED BY <1>0, <2>1, <3>1, GoToType, ReadAddressType DEF CallEffect
  <2> QED BY <2>2, <2>3
<1>2. CASE GetAccessContextAddress(c)
  <2>1. /\ pc[c] = "lookup" /\ ReadAddress(c, registered)
        /\ UNCHANGED <<pending, ledger, registered, stored, resources>>
    BY <1>2 DEF GetAccessContextAddress, walletVars
  <2>2. GoTo(c, "options") \/ (c \in Creation /\ GoTo(c, "done"))
    BY <1>2 DEF GetAccessContextAddress
  <2> QED BY <1>0, <2>1, <2>2, GoToType, ReadAddressType DEF CallEffect
<1>3. CASE TransactOptions(c)
  <2>1. /\ pc[c] = "options" /\ GoTo(c, "send")
        /\ UNCHANGED <<pending, ledger, address, registered, stored, resources>>
    BY <1>3 DEF TransactOptions
  <2> QED BY <1>0, <2>1, GoToType DEF CallEffect
<1>4. CASE Transact(c)
  <2>1. /\ pc[c] = "send" /\ UNCHANGED <<ledger, address, registered, stored, resources>>
        /\ \/ SendTransaction(c) /\ GoTo(c, "wait")
           \/ GoTo(c, "failed") /\ UNCHANGED pending
    BY <1>4 DEF Transact
  <2> QED BY <1>0, <2>1, GoToType DEF CallEffect
<1>5. CASE WaitMined(c)
  <2>1. PICK ok \in BOOLEAN : /\ Receipt(c, ok)
                              /\ GoTo(c, IF ~ok THEN "failed"
                                         ELSE IF c \in Creation THEN "readBack" ELSE "done")
    BY <1>5 DEF WaitMined
  <2>2. pc[c] = "wait" /\ UNCHANGED <<pending, ledger, address, registered, stored, resources>>
    BY <1>5 DEF WaitMined, walletVars
  <2>3. ok => Mined(c)
    <3> SUFFICES ASSUME ok = TRUE PROVE Mined(c)
      BY <2>1
    <3>1. DOMAIN ledger = 1..Len(ledger)
      BY <1>0 DEF OwnerTypeOK
    <3> QED BY <2>1, <3>1 DEF Receipt, Mined
  <2>4. \/ GoTo(c, "failed")
        \/ Mined(c) /\ c \in Creation /\ GoTo(c, "readBack")
        \/ Mined(c) /\ c \notin Creation /\ GoTo(c, "done")
    BY <2>1, <2>3
  <2> QED BY <1>0, <2>2, <2>4, GoToType DEF CallEffect
<1>6. CASE ReadBack(c)
  <2>1. /\ pc[c] = "readBack" /\ ReadAddress(c, registered) /\ GoTo(c, "insert")
        /\ UNCHANGED <<pending, ledger, registered, stored, resources>>
    BY <1>6 DEF ReadBack, walletVars
  <2>2. c \in Creation /\ Mined(c) /\ registered = c
    BY <1>0, <2>1 DEF OInv, Progress, MinedCreation
  <2> QED BY <1>0, <2>1, <2>2, GoToType, ReadAddressType DEF CallEffect
<1>7. CASE InsertAccessContext(c)
  <2>1. /\ pc[c] = "insert" /\ GoTo(c, "done") /\ stored' = address[c]
        /\ UNCHANGED <<pending, ledger, address, registered, resources>>
    BY <1>7 DEF InsertAccessContext, walletVars
  <2>2. c \in Creation /\ Mined(c) /\ address[c] = c
    BY <1>0, <2>1 DEF OInv, Progress
  <2> QED BY <1>0, <2>1, <2>2, GoToType DEF CallEffect
<1>8. CASE Abandon(c)
  <2>1. GoTo(c, "failed") /\ UNCHANGED <<pending, ledger, address, registered, stored, resources>>
    BY <1>8 DEF Abandon, walletVars
  <2> QED BY <1>0, <2>1, GoToType DEF CallEffect
<1> QED BY <1>1, <1>2, <1>3, <1>4, <1>5, <1>6, <1>7, <1>8 DEF CallStep, CreateAccessContext

\* A transaction takes a place in the pool, another's or the next.
LEMMA Sent ==
  ASSUME OwnerTypeOK, NEW c \in Call, SendTransaction(c)
  PROVE  /\ pending' \in Seq(Call)
         /\ \A i \in 1..Len(pending') :
              pending'[i] = c \/ (i \in 1..Len(pending) /\ pending'[i] = pending[i])
<1>0. pending \in Seq(Call) /\ DOMAIN pending = 1..Len(pending)
  BY DEF OwnerTypeOK
<1>1. CASE Slot(c) \in DOMAIN pending
  <2> DEFINE place == Slot(c)
  <2>1. pending' = [pending EXCEPT ![place] = c] /\ place \in 1..Len(pending)
    BY <1>0, <1>1 DEF SendTransaction
  <2> HIDE DEF place
  <2> QED BY <1>0, <2>1
<1>2. CASE Slot(c) \notin DOMAIN pending
  BY <1>0, <1>2, AppendProperties DEF SendTransaction
<1> QED BY <1>1, <1>2

LEMMA CallStepInv == ASSUME OInv, NEW c \in Call, CallEffect(c) PROVE OInv'
<1>0. OwnerTypeOK /\ SentOnly /\ Registration \subseteq Call /\ Creation \subseteq Call
  BY CreationAssumption DEF OInv, Registration
<1>1. \A x \in Call : Mined(x)' <=> Mined(x)
  BY DEF CallEffect, Mined
<1>2. pending' \in Seq(Call)
  BY <1>0, Sent DEF CallEffect, OwnerTypeOK
<1>3. stored' \in Address \cup {NotStored}
  BY <1>0 DEF CallEffect, OwnerTypeOK
<1>4. OwnerTypeOK'
  BY <1>0, <1>2, <1>3 DEF CallEffect, OwnerTypeOK
<1>5. OnlyCreationsCreate'
  BY <1>0 DEF CallEffect, OInv, OnlyCreationsCreate, Registration
<1>6. SentOnly'
  <2>1. \A x \in Call : pc[x] \notin NotSent => pc'[x] \notin NotSent
    BY DEF CallEffect
  <2>2. \A i \in 1..Len(ledger) : ledger[i].call \in Call
    <3>1. \A i \in 1..Len(ledger) : ledger[i] \in [call : Call, ok : BOOLEAN]
      BY <1>0, ElementOfSeq DEF OwnerTypeOK
    <3> QED BY <3>1
  <2>3. \A i \in 1..Len(pending) : pending[i] \in Call
    BY <1>0 DEF OwnerTypeOK
  <2>4. \A i \in 1..Len(pending') : pc'[pending'[i]] \notin NotSent
    BY <1>0, <2>1, <2>3, Sent DEF CallEffect, SentOnly
  <2>5. \A i \in 1..Len(ledger') : pc'[ledger'[i].call] \notin NotSent
    BY <1>0, <2>1, <2>2 DEF CallEffect, SentOnly
  <2> QED BY <2>4, <2>5 DEF SentOnly
<1>7. ReadStays'
  BY <1>0 DEF CallEffect, OInv, ReadStays
<1>8. MinedCreation'
  BY <1>0, <1>1 DEF CallEffect, OInv, MinedCreation
<1>9. MinedSetup'
  <2>1. \A x \in Registration : Mined(x) => address'[x] = address[x]
    BY <1>0, MinedIsSent DEF CallEffect, Registration
  <2> QED BY <1>0, <1>1, <2>1 DEF CallEffect, OInv, MinedSetup
<1>10. Progress'
  <2>1. \A x \in Call \ {c} : pc'[x] = pc[x] /\ address'[x] = address[x]
    BY DEF CallEffect
  <2> QED BY <1>0, <1>1, <2>1 DEF CallEffect, OInv, Progress, Registration
<1>11. StoredOwn'
  BY <1>0, OwnContexts DEF CallEffect, OInv, StoredOwn, MinedCreation
<1> QED BY <1>4, <1>5, <1>6, <1>7, <1>8, <1>9, <1>10, <1>11 DEF OInv

------------------------------------------------------------------------------
\* What the next block does to the pool and the ledger.
LEMMA MineStep ==
  ASSUME OwnerTypeOK, pending # <<>>, NEW ok \in BOOLEAN, Mine(ok)
  PROVE  /\ Head(pending) \in Call /\ Head(pending) = pending[1] /\ 1 \in 1..Len(pending)
         /\ pending' \in Seq(Call)
         /\ \A i \in 1..Len(pending') : \E k \in 1..Len(pending) : pending'[i] = pending[k]
         /\ ledger' \in Seq([call : Call, ok : BOOLEAN])
         /\ \A i \in 1..Len(ledger') :
              \/ i \in 1..Len(ledger) /\ ledger'[i] = ledger[i]
              \/ ledger'[i] = [call |-> Head(pending), ok |-> ok]
         /\ \A x \in Call : Mined(x)' <=> Mined(x) \/ (x = Head(pending) /\ ok)
<1> DEFINE entry == [call |-> Head(pending), ok |-> ok]
<1>1. pending \in Seq(Call) /\ ledger \in Seq([call : Call, ok : BOOLEAN])
  BY DEF OwnerTypeOK
<1>2. Head(pending) \in Call /\ Head(pending) = pending[1] /\ 1 \in 1..Len(pending)
  BY <1>1, HeadTailProperties, EmptySeq
<1>3. /\ pending' \in Seq(Call)
      /\ \A i \in 1..Len(pending') : i + 1 \in 1..Len(pending) /\ pending'[i] = pending[i + 1]
  BY <1>1, HeadTailProperties DEF Mine
<1>4. entry \in [call : Call, ok : BOOLEAN]
  BY <1>2
<1>5. ledger' = Append(ledger, entry)
  BY DEF Mine
<1>6. \A x \in Call : entry = [call |-> x, ok |-> TRUE] <=> x = Head(pending) /\ ok
  BY <1>2
<1> HIDE DEF entry
<1>7. /\ ledger' \in Seq([call : Call, ok : BOOLEAN]) /\ Len(ledger') = Len(ledger) + 1
      /\ ledger'[Len(ledger) + 1] = entry
      /\ \A i \in 1..Len(ledger) : ledger'[i] = ledger[i]
  BY <1>1, <1>4, <1>5, AppendProperties
<1>8. Len(ledger) \in Nat
  BY <1>1, LenProperties
<1>9. \A i \in 1..Len(ledger') : i \in 1..Len(ledger) \/ i = Len(ledger) + 1
  BY <1>7, <1>8
<1>10. Len(ledger) + 1 \in 1..Len(ledger') /\ 1..Len(ledger) \subseteq 1..Len(ledger')
  BY <1>7, <1>8
<1>11. \A x \in Call : Mined(x)' <=> Mined(x) \/ (x = Head(pending) /\ ok)
  <2> TAKE x \in Call
  <2>1. ASSUME Mined(x)' PROVE Mined(x) \/ (x = Head(pending) /\ ok)
    BY <1>6, <1>7, <1>9, <2>1 DEF Mined
  <2>2. ASSUME Mined(x) \/ (x = Head(pending) /\ ok) PROVE Mined(x)'
    BY <1>6, <1>7, <1>10, <2>2 DEF Mined
  <2> QED BY <2>1, <2>2
<1>12. \A i \in 1..Len(ledger') :
         (i \in 1..Len(ledger) /\ ledger'[i] = ledger[i]) \/ ledger'[i] = entry
  BY <1>7, <1>9
<1> QED BY <1>2, <1>3, <1>7, <1>11, <1>12 DEF entry

\* A block: what was registered of the wallet's own stays registered, and a call
\* whose transaction succeeded did what it asked for.
LEMMA BlockInv == ASSUME OInv, NewBlock PROVE OInv'
<1> DEFINE c == Head(pending)
<1>0. OwnerTypeOK /\ pending # <<>> /\ UNCHANGED <<pc, address, stored>>
  BY DEF OInv, NewBlock
<1>1. PICK ok \in BOOLEAN :
        /\ Mine(ok)
        /\ \/ /\ c \in Creation /\ UNCHANGED resources
              /\ \/ registered = ZeroAddress /\ ok /\ registered' = c
                 \/ registered # ZeroAddress /\ ~ok /\ UNCHANGED registered
           \/ /\ c \notin Creation /\ UNCHANGED registered
              /\ \/ UNCHANGED resources /\ (ok => address[c] = ZeroAddress)
                 \/ /\ address[c] \in OwnContext
                    /\ resources' = resources \cup {<<c, address[c]>>}
  <2>1. CASE c \in Creation
    <3>1. /\ Mine(registered = ZeroAddress) /\ UNCHANGED resources
          /\ registered' = IF registered = ZeroAddress THEN c ELSE registered
      BY <2>1 DEF NewBlock, CreateContextInstance
    <3>2. (registered = ZeroAddress) \in BOOLEAN
      OBVIOUS
    <3> HIDE DEF c
    <3> QED BY <2>1, <3>1, <3>2
  <2>2. CASE c \notin Creation
    <3>1. SetupRole(c)
      BY <2>2 DEF NewBlock
    <3> HIDE DEF c
    <3>2. CASE address[c] = ZeroAddress
      BY <2>2, <3>1, <3>2 DEF SetupRole
    <3>3. CASE address[c] # ZeroAddress
      <4>1. PICK ok \in {FALSE} \cup {address[c] \in OwnContext} :
              /\ Mine(ok)
              /\ resources' = IF ok THEN resources \cup {<<c, address[c]>>} ELSE resources
        BY <3>1, <3>3 DEF SetupRole
      <4> DEFINE owned == address[c] \in OwnContext
      <4>2. ok = FALSE \/ ok = owned
        OBVIOUS
      <4>3. ok \in BOOLEAN /\ (ok => owned)
        <5>1. owned \in BOOLEAN
          OBVIOUS
        <5> HIDE DEF owned
        <5>2. CASE ok = FALSE
          BY <5>2
        <5>3. CASE ok = owned
          <6>1. ok \in BOOLEAN
            BY <5>1, <5>3, Zenon
          <6>2. ok => owned
            BY <5>3, Zenon
          <6> QED BY <6>1, <6>2
        <5> QED BY <4>2, <5>2, <5>3
      <4>4. UNCHANGED registered
        BY <3>1 DEF SetupRole
      <4> QED BY <2>2, <4>1, <4>3, <4>4
    <3> QED BY <3>2, <3>3
  <2> QED BY <2>1, <2>2
<1>2. /\ c \in Call /\ c = pending[1] /\ 1 \in 1..Len(pending)
      /\ pending' \in Seq(Call)
      /\ \A i \in 1..Len(pending') : \E k \in 1..Len(pending) : pending'[i] = pending[k]
      /\ ledger' \in Seq([call : Call, ok : BOOLEAN])
      /\ \A i \in 1..Len(ledger') :
           \/ i \in 1..Len(ledger) /\ ledger'[i] = ledger[i]
           \/ ledger'[i] = [call |-> c, ok |-> ok]
      /\ \A x \in Call : Mined(x)' <=> Mined(x) \/ (x = c /\ ok)
  BY <1>0, <1>1, MineStep
<1> HIDE DEF c
<1>3. /\ \/ registered' = registered
         \/ registered = ZeroAddress /\ registered' = c /\ c \in Creation
      /\ resources \subseteq resources'
  BY <1>1
<1>4. OwnerTypeOK'
  BY <1>0, <1>1, <1>2, OwnContexts DEF OwnerTypeOK, Registration
<1>5. SentOnly'
  BY <1>0, <1>2 DEF OInv, SentOnly
<1>6. OnlyCreationsCreate' /\ StoredOwn'
  BY <1>0, <1>3, OwnContexts DEF OInv, OnlyCreationsCreate, StoredOwn
<1>7. ReadStays'
  BY <1>0, <1>3, OwnContexts DEF OInv, ReadStays
<1>8. MinedCreation'
  BY <1>1, <1>2, <1>3, OwnContexts, CreationAssumption DEF OInv, MinedCreation
<1>9. MinedSetup'
  BY <1>0, <1>1, <1>2, <1>3 DEF OInv, MinedSetup, Registration
<1>10. Progress'
  BY <1>0, <1>2, CreationAssumption DEF OInv, Progress, Registration
<1> QED BY <1>4, <1>5, <1>6, <1>7, <1>8, <1>9, <1>10 DEF OInv

LEMMA OwnerStep == ASSUME OInv, [Next]_vars PROVE OInv'
<1>1. ASSUME NEW c \in Call, CallStep(c) \/ Abandon(c) PROVE OInv'
  BY <1>1, CallStepEffect, CallStepInv
<1>2. CASE NewBlock
  BY <1>2, BlockInv
<1>3. CASE CreateElsewhere \/ DeleteElsewhere
  <2>1. /\ UNCHANGED <<pending, ledger, pc, address, stored, resources>>
        /\ registered' \in Address /\ registered \notin OwnContext
    BY <1>3, OwnContexts DEF CreateElsewhere, DeleteElsewhere, walletVars
  <2>2. \A x \in Call : Mined(x)' <=> Mined(x)
    BY <2>1 DEF Mined
  <2> QED BY <2>1, <2>2, OwnContexts, CreationAssumption
          DEF OInv, OwnerTypeOK, OnlyCreationsCreate, SentOnly, ReadStays, MinedCreation,
              MinedSetup, Progress, StoredOwn, Registration
<1>4. CASE UNCHANGED vars
  BY <1>4 DEF vars, walletVars, OInv, OwnerTypeOK, OnlyCreationsCreate, SentOnly, ReadStays,
     MinedCreation, MinedSetup, Progress, StoredOwn, Mined
<1> QED BY <1>1, <1>2, <1>3, <1>4 DEF Next

\* How far each request is says what its transactions have done, although one may
\* replace another (core/service/rpc/service.go, accesscontrol/service.go).
THEOREM OwnerInvariant == Spec => []OInv
<1>1. OInv /\ [Next]_vars => OInv'
  BY OwnerStep
<1> QED BY <1>1, OwnerInit, PTL DEF Spec

LEMMA OwnerSafe == OInv => StoredIsRegistered /\ RegisteredInContext
<1> SUFFICES ASSUME OInv PROVE StoredIsRegistered /\ RegisteredInContext
  OBVIOUS
<1>1. StoredIsRegistered
  BY OwnContexts DEF OInv, StoredOwn, StoredIsRegistered
<1>2. ASSUME NEW c \in Registration, pc[c] = "done", address[c] # ZeroAddress
      PROVE  <<c, registered>> \in resources
  <2>1. address[c] \in OwnContext /\ <<c, address[c]>> \in resources
    BY <1>2 DEF OInv, Progress, MinedSetup
  <2> QED BY <1>2, <2>1 DEF OInv, ReadStays, Registration
<1> QED BY <1>1, <1>2 DEF RegisteredInContext, Registration

\* What the owner's store and answers say of the context is what the chain says
\* (core/service/accesscontrol/service.go:155-238).
THEOREM OwnerContextsSafe == Spec => [](StoredIsRegistered /\ RegisteredInContext)
BY OwnerInvariant, OwnerSafe, PTL

------------------------------------------------------------------------------
\* The users and the gate.
GateTypeOK ==
  /\ calling \in [User -> {"nothing", "grant", "start", "store"}]
  /\ granted \in SUBSET (User \X Address)
  /\ roles \in SUBSET (User \X Address)
  /\ kept \in SUBSET User
  /\ gate \in [User -> {"idle", "role", "session", "check", "admitted", "verified", "refused"}]
  /\ seen \in [User -> Address]

Granted(u) == \E context \in Address : <<u, context>> \in granted

StoredGranted == \A u \in User : calling[u] = "store" \/ u \in kept => Granted(u)

\* A verification that came past the role, or past the session, has its history.
PassedHeld ==
  \A u \in User :
    /\ gate[u] \in {"session", "check", "admitted", "verified"} => seen[u] \in during[u]
    /\ gate[u] = "verified" => "session" \in during[u]

GInv ==
  /\ OInv /\ GateTypeOK
  /\ StoredGranted /\ tokens \subseteq opened /\ PassedHeld

LEMMA GateStarts == GateInit => GInv
<1> SUFFICES ASSUME GateInit PROVE GInv
  OBVIOUS
<1>1. OInv
  BY OwnerInit DEF GateInit
<1>2. GateTypeOK
  BY DEF GateInit, GateTypeOK, Address
<1> QED BY <1>1, <1>2 DEF GateInit, GInv, StoredGranted, PassedHeld

\* What a transaction of a user's, or of another client, does on chain.
LEMMA ExecuteEffect ==
  ASSUME OInv, GateTypeOK, NEW u \in User, NEW kind \in {"grant", "start"}, Execute(u, kind)
  PROVE  /\ granted' \in SUBSET (User \X Address) /\ roles' \in SUBSET (User \X Address)
         /\ granted \subseteq granted' /\ opened \subseteq opened'
         /\ kind = "grant" => Granted(u)'
         /\ kind = "start" => u \in opened'
<1>1. registered \in Address
  BY DEF OInv, OwnerTypeOK
<1>2. CASE kind = "grant"
  BY <1>1, <1>2 DEF Execute, GrantIn, Granted, GateTypeOK
<1>3. CASE kind = "start"
  BY <1>3 DEF Execute, StartOnChain, GateTypeOK
<1> QED BY <1>2, <1>3

\* What a step of users and other clients may do: grants and sessions only grow, and
\* a call stores or answers what is on chain.
UserEffect(u) ==
  /\ granted' \in SUBSET (User \X Address) /\ roles' \in SUBSET (User \X Address)
  /\ granted \subseteq granted' /\ opened \subseteq opened'
  /\ \/ calling' = calling
     \/ \E step \in {"nothing", "grant", "start"} : calling' = [calling EXCEPT ![u] = step]
     \/ Granted(u)' /\ calling' = [calling EXCEPT ![u] = "store"]
  /\ kept' = kept \/ (calling[u] = "store" /\ kept' = kept \cup {u})
  /\ tokens' = tokens \/ (u \in opened' /\ tokens' = tokens \cup {u})

LEMMA UserStepEffect ==
  ASSUME OInv, GateTypeOK, NEW u \in User, UserStep(u)
  PROVE  UserEffect(u)
<1>0. UNCHANGED chainVars =>
        /\ granted' \in SUBSET (User \X Address) /\ roles' \in SUBSET (User \X Address)
        /\ granted \subseteq granted' /\ opened \subseteq opened'
  BY DEF chainVars, GateTypeOK
<1>1. ASSUME NEW kind \in {"grant", "start"}, Send(u, kind)
      PROVE  UserEffect(u)
  BY <1>0, <1>1 DEF Send, Await, UserEffect
<1>2. ASSUME NEW ok \in BOOLEAN, MineAwaited(u, ok)
      PROVE  UserEffect(u)
  <2>1. PICK kind \in {"grant", "start"} : kind = calling[u]
    BY <1>2 DEF MineAwaited
  <2>2. CASE ok
    <3>1. Execute(u, kind) /\ UNCHANGED kept
      BY <1>2, <2>1, <2>2 DEF MineAwaited
    <3>2. CASE kind = "grant"
      BY <1>2, <2>1, <2>2, <3>1, <3>2, ExecuteEffect DEF MineAwaited, Await, UserEffect
    <3>3. CASE kind = "start"
      BY <1>2, <2>1, <2>2, <3>1, <3>3, ExecuteEffect DEF MineAwaited, Await, UserEffect
    <3> QED BY <3>2, <3>3
  <2>3. CASE ~ok
    BY <1>0, <1>2, <2>3 DEF MineAwaited, Await, UserEffect
  <2> QED BY <2>2, <2>3
<1>3. ASSUME NEW ok \in BOOLEAN, NEW kind \in {"grant", "start"}, MineLeft(u, kind, ok)
      PROVE  UserEffect(u)
  <2>1. CASE ok
    BY <1>3, <2>1, ExecuteEffect DEF MineLeft, UserEffect
  <2>2. CASE ~ok
    BY <1>0, <1>3, <2>2 DEF MineLeft, UserEffect
  <2> QED BY <2>1, <2>2
<1>4. CASE InsertRole(u) \/ AbandonCall(u)
  BY <1>0, <1>4 DEF InsertRole, AbandonCall, Await, UserEffect
<1>5. CASE GrantElsewhere(u)
  <2>1. PICK context \in Address : GrantIn(u, context)
    BY <1>5 DEF GrantElsewhere, GateTypeOK, OInv, OwnerTypeOK
  <2> QED BY <1>5, <2>1 DEF GrantElsewhere, GrantIn, userVars, UserEffect, GateTypeOK
<1>6. CASE RevokeElsewhere(u) \/ EndSession(u)
  BY <1>6 DEF RevokeElsewhere, EndSession, userVars, UserEffect, GateTypeOK
<1> QED BY <1>1, <1>2, <1>3, <1>4, <1>5, <1>6 DEF UserStep

LEMMA UserStepInv ==
  ASSUME GInv, NEW u \in User, UserStep(u), UNCHANGED <<vars, gateVars>>, Observe
  PROVE  GInv'
<1>0. OInv /\ GateTypeOK /\ StoredGranted /\ tokens \subseteq opened /\ PassedHeld
  BY DEF GInv
<1>1. UserEffect(u)
  BY <1>0, UserStepEffect
<1>2. OInv'
  BY <1>0, OwnerStep DEF vars
<1>3. GateTypeOK'
  <2>1. calling' \in [User -> {"nothing", "grant", "start", "store"}]
    BY <1>0, <1>1 DEF UserEffect, GateTypeOK
  <2> QED BY <1>0, <1>1, <2>1 DEF UserEffect, GateTypeOK, gateVars
<1>4. StoredGranted'
  <2>1. \A v \in User : Granted(v) => Granted(v)'
    BY <1>1 DEF UserEffect, Granted
  <2>2. \A v \in User : v # u => calling'[v] = calling[v]
    BY <1>0, <1>1 DEF UserEffect, GateTypeOK
  <2>3. \A v \in User \ {u} : v \in kept' => v \in kept
    BY <1>1 DEF UserEffect
  <2>4. calling'[u] = "store" \/ u \in kept' => Granted(u)'
    BY <1>0, <1>1, <2>1 DEF UserEffect, GateTypeOK, StoredGranted
  <2> QED BY <1>0, <2>1, <2>2, <2>3, <2>4 DEF StoredGranted
<1>5. (tokens \subseteq opened)'
  BY <1>0, <1>1 DEF UserEffect
<1>6. PassedHeld'
  <2>1. UNCHANGED <<gate, seen>>
    BY DEF gateVars
  <2>2. \A v \in User : during[v] \subseteq during'[v]
    BY <2>1 DEF Observe
  <2> QED BY <1>0, <2>1, <2>2 DEF PassedHeld
<1> QED BY <1>2, <1>3, <1>4, <1>5, <1>6 DEF GInv

\* A step of the gate: it comes past the role only when the role is held where it
\* has looked, and past a stored session only when one is open.
LEMMA GateStepInv ==
  ASSUME GInv, NEW u \in User, CreateSession(u) \/ VerifySession(u),
         UNCHANGED <<vars, chainVars, userVars>>, Observe
  PROVE  GInv'
<1>0. /\ OInv /\ GateTypeOK /\ PassedHeld /\ registered \in Address
      /\ UNCHANGED <<registered, calling, granted, roles, opened, open, kept, tokens>>
  BY DEF GInv, OInv, OwnerTypeOK, vars, chainVars, userVars
<1>1. OInv'
  BY <1>0, OwnerStep
<1>2. StoredGranted' /\ (tokens \subseteq opened)'
  BY <1>0 DEF GInv, StoredGranted, Granted
<1>3. \A v \in User :
        /\ OnChain(v) \subseteq during'[v]
        /\ \/ during[v] \subseteq during'[v]
           \/ gate'[v] = "role" /\ gate[v] # "role"
  BY <1>0 DEF Observe, OnChain
<1>4. GateTypeOK' /\ PassedHeld'
  <2>1. CASE ReadContext(u)
    BY <1>0, <1>3, <2>1 DEF ReadContext, GateTo, GateTypeOK, PassedHeld
  <2>2. CASE HasRole(u)
    <3>1. GateTypeOK'
      BY <1>0, <2>2 DEF HasRole, GateTo, GateTypeOK
    <3>2. <<u, seen[u]>> \in roles => seen[u] \in during'[u]
      BY <1>0, <1>3 DEF OnChain, GateTypeOK
    <3>3. PassedHeld'
      BY <1>0, <1>3, <2>2, <3>2 DEF HasRole, GateTo, GateTypeOK, PassedHeld
    <3> QED BY <3>1, <3>3
  <2>3. CASE GetSession(u)
    BY <1>0, <1>3, <2>3 DEF GetSession, GateTo, GateTypeOK, PassedHeld
  <2>4. CASE CheckSession(u)
    <3>1. u \in open => "session" \in during'[u]
      BY <1>3 DEF OnChain
    <3> QED BY <1>0, <1>3, <2>4, <3>1 DEF CheckSession, GateTo, GateTypeOK, PassedHeld
  <2>5. CASE FailVerification(u) \/ CreateSession(u)
    BY <1>0, <1>3, <2>5 DEF FailVerification, CreateSession, GateTo, GateTypeOK, PassedHeld
  <2> QED BY <2>1, <2>2, <2>3, <2>4, <2>5 DEF VerifySession
<1> QED BY <1>1, <1>2, <1>4 DEF GInv

LEMMA GateStep == ASSUME GInv, [GateNext]_allVars PROVE GInv'
<1>1. ASSUME [Next]_vars, UNCHANGED <<chainVars, userVars, gateVars>>,
             Observe \/ UNCHANGED during
      PROVE  GInv'
  <2>1. OInv'
    BY <1>1, OwnerStep DEF GInv
  <2>2. UNCHANGED <<calling, granted, roles, opened, open, kept, tokens, gate, seen>>
    BY <1>1 DEF chainVars, userVars, gateVars
  <2>3. \A v \in User : during[v] \subseteq during'[v]
    BY <1>1, <2>2 DEF Observe
  <2>4. PassedHeld'
    BY <2>2, <2>3 DEF GInv, PassedHeld
  <2> QED BY <2>1, <2>2, <2>4 DEF GInv, GateTypeOK, StoredGranted, Granted
<1>2. CASE UNCHANGED allVars
  BY <1>1, <1>2 DEF allVars
<1> QED BY <1>1, <1>2, UserStepInv, GateStepInv DEF GateNext

\* The same with the users: what they stored was granted, and a verification came as
\* far as what the chain had in its time (core/service/auth/service.go).
THEOREM GateInvariant == GateSpec => []GInv
<1>1. GInv /\ [GateNext]_allVars => GInv'
  BY GateStep
<1> QED BY <1>1, GateStarts, PTL DEF GateSpec

\* The owner's promises hold with users and a gate beside it.
THEOREM GateOwnerSafe == GateSpec => [](StoredIsRegistered /\ RegisteredInContext)
<1>1. GInv => StoredIsRegistered /\ RegisteredInContext
  BY OwnerSafe DEF GInv
<1> QED BY <1>1, GateInvariant, PTL

\* What a user's service stores and answers was granted and started on chain
\* (core/service/auth/service.go:94-169).
THEOREM GateAnsweredIsOnChain == GateSpec => []AnsweredIsOnChain
<1>1. GInv => AnsweredIsOnChain
  BY DEF GInv, GateTypeOK, StoredGranted, Granted, AnsweredIsOnChain
<1> QED BY <1>1, GateInvariant, PTL

\* A token passes only for a role held, in the context the gate had read, while it
\* was verified, and a stored session only for one open in that time
\* (core/service/accesscontrol/service.go:255-312).
THEOREM GateHeldMeanwhile == GateSpec => []HeldMeanwhile
<1>1. GInv => HeldMeanwhile
  BY DEF GInv, PassedHeld, HeldMeanwhile
<1> QED BY <1>1, GateInvariant, PTL
==============================================================================
