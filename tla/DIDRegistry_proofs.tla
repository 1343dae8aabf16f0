-------------------------- MODULE DIDRegistry_proofs --------------------------
(***************************************************************************)
(* The DID registry for every set of identities and accounts: its type     *)
(* invariant, DIDInv, what its steps may do, and that it implements        *)
(* ControllerSet.  Every result is read off one lemma per operation, which *)
(* says what the operation does to the list and index of an identity.      *)
(***************************************************************************)
EXTENDS DIDRegistry, SequenceTheorems, TLAPS

\* The inductive invariant: the type invariant types the lists DIDInv speaks of.
DIDIInv == DIDTypeOK /\ DIDInv

Distinct(list) == \A i, j \in 1..Len(list) : list[i] = list[j] => i = j

\* List with its entry at index replaced by the last one, which is cut off.
SwapRemove(list, index) ==
  SubSeq([list EXCEPT ![index] = list[Len(list)]], 1, Len(list) - 1)

------------------------------------------------------------------------------
\* The slot of an index inside the list is the one of that index.
LEMMA SlotInside ==
  ASSUME NEW list \in Seq(Address), NEW current \in Nat, current < Len(list)
  PROVE  /\ Slot(list, current) = current + 1
         /\ ControllerIn(list, current) = list[current + 1]
         /\ list # <<>>
BY DEF Slot, ControllerIn

\* What appending an address that is not listed does to a list.
LEMMA AppendToList ==
  ASSUME NEW list \in Seq(Address), NEW a \in Address, a \notin Range(list),
         Distinct(list)
  PROVE  /\ Append(list, a) \in Seq(Address)
         /\ Len(Append(list, a)) = Len(list) + 1
         /\ \A j \in 1..Len(list) : Append(list, a)[j] = list[j]
         /\ Distinct(Append(list, a))
         /\ Range(Append(list, a)) = Range(list) \cup {a}
<1> DEFINE new == Append(list, a)
<1>1. /\ new \in Seq(Address)
      /\ Len(new) = Len(list) + 1
      /\ \A j \in 1..Len(list) : new[j] = list[j]
      /\ new[Len(list) + 1] = a
  OBVIOUS
<1>2. /\ Len(list) \in Nat
      /\ DOMAIN list = 1..Len(list)
      /\ DOMAIN new = 1..(Len(list) + 1)
  BY <1>1
<1>3. \A j \in 1..Len(list) : list[j] # a
  BY <1>2 DEF Range
<1>4. Distinct(new)
  BY <1>1, <1>2, <1>3 DEF Distinct
<1>5. Range(new) = Range(list) \cup {a}
  <2>1. ASSUME NEW x \in Range(new) PROVE x \in Range(list) \cup {a}
    <3>1. PICK j \in 1..(Len(list) + 1) : x = new[j]
      BY <1>2 DEF Range
    <3>2. CASE j \in 1..Len(list)
      BY <1>1, <1>2, <3>1, <3>2 DEF Range
    <3>3. CASE j = Len(list) + 1
      BY <1>1, <3>1, <3>3
    <3> QED BY <1>2, <3>2, <3>3
  <2>2. Range(list) \subseteq Range(new)
    <3>1. ASSUME NEW x \in Range(list) PROVE x \in Range(new)
      <4>1. PICK j \in 1..Len(list) : x = list[j]
        BY <1>2 DEF Range
      <4>2. j \in DOMAIN new /\ new[j] = x
        BY <1>1, <1>2, <4>1
      <4> QED BY <4>2 DEF Range
    <3> QED BY <3>1
  <2>3. a \in Range(new)
    <3>1. Len(list) + 1 \in DOMAIN new
      BY <1>2
    <3> QED BY <1>1, <3>1 DEF Range
  <2> QED BY <2>1, <2>2, <2>3
<1> QED BY <1>1, <1>4, <1>5

\* What removing an entry does to a list: the last entry takes its place.
LEMMA SwapRemoveFromList ==
  ASSUME NEW list \in Seq(Address), NEW index \in 1..Len(list), Distinct(list)
  PROVE  /\ SwapRemove(list, index) \in Seq(Address)
         /\ Len(SwapRemove(list, index)) = Len(list) - 1
         /\ \A j \in 1..(Len(list) - 1) :
              SwapRemove(list, index)[j] =
                IF j = index THEN list[Len(list)] ELSE list[j]
         /\ Distinct(SwapRemove(list, index))
         /\ Range(SwapRemove(list, index)) = Range(list) \ {list[index]}
<1> DEFINE len == Len(list)
           moved == [list EXCEPT ![index] = list[len]]
           new == SwapRemove(list, index)
<1>1. len \in Nat \ {0} /\ DOMAIN list = 1..len /\ len \in 1..len
  OBVIOUS
<1>2. list[len] \in Address
  BY <1>1, ElementOfSeq
<1>3. /\ moved \in Seq(Address)
      /\ Len(moved) = len
      /\ \A j \in 1..len : moved[j] = IF j = index THEN list[len] ELSE list[j]
  BY <1>2, ExceptSeq
<1>4. \A j \in 1..(len - 1) : moved[j] \in Address
  BY <1>1, <1>3, ElementOfSeq
<1>5. /\ new \in Seq(Address)
      /\ Len(new) = len - 1
      /\ \A j \in 1..(len - 1) : new[j] = moved[j]
  BY <1>1, <1>3, <1>4, SubSeqProperties DEF SwapRemove
<1>6. \A j \in 1..(len - 1) : new[j] = IF j = index THEN list[len] ELSE list[j]
  BY <1>1, <1>3, <1>5
<1>7. Distinct(new)
  BY <1>1, <1>5, <1>6 DEF Distinct
<1>8. Range(new) = Range(list) \ {list[index]}
  <2>1. DOMAIN new = 1..(len - 1)
    BY <1>1, <1>5
  <2>2. ASSUME NEW x \in Range(new) PROVE x \in Range(list) \ {list[index]}
    <3>1. PICK j \in 1..(len - 1) : x = new[j]
      BY <2>1 DEF Range
    <3>2. PICK k \in 1..len : x = list[k] /\ k # index
      BY <1>1, <1>6, <3>1
    <3>3. list[k] # list[index]
      BY <1>1, <3>2 DEF Distinct
    <3> QED BY <1>1, <3>2, <3>3 DEF Range
  <2>3. ASSUME NEW x \in Range(list), x # list[index] PROVE x \in Range(new)
    <3>1. PICK k \in 1..len : x = list[k]
      BY <1>1 DEF Range
    <3>2. PICK j \in 1..(len - 1) : new[j] = x
      <4>1. CASE k = len
        <5>1. index \in 1..(len - 1) /\ new[index] = x
          BY <1>1, <1>6, <2>3, <3>1, <4>1
        <5> QED BY <5>1
      <4>2. CASE k # len
        <5>1. k \in 1..(len - 1)
          <6> HIDE DEF len
          <6> QED BY <1>1, <4>2
        <5>2. k # index
          BY <2>3, <3>1
        <5>3. new[k] = x
          BY <1>6, <3>1, <5>1, <5>2
        <5> QED BY <5>1, <5>3
      <4> QED BY <4>1, <4>2
    <3> QED BY <2>1, <3>2 DEF Range
  <2> QED BY <2>2, <2>3
<1> QED BY <1>5, <1>6, <1>7, <1>8

\* DIDInv and the type invariant, said of one list and index.
LEMMA ListInv ==
  ASSUME DIDIInv, NEW d \in DID
  PROVE  /\ controllers[d] \in Seq(Address)
         /\ currentController[d] \in Nat
         /\ Distinct(controllers[d])
         /\ controllers[d] # <<>> =>
              /\ currentController[d] < Len(controllers[d])
              /\ GetController(d) = controllers[d][currentController[d] + 1]
              /\ Listed(d, GetController(d))
              /\ GetController(d) \in Address
         /\ controllers[d] = <<>> => currentController[d] = 0
<1>1. /\ controllers[d] \in Seq(Address)
      /\ currentController[d] \in Nat
      /\ Distinct(controllers[d])
      /\ controllers[d] # <<>> => currentController[d] < Len(controllers[d])
      /\ controllers[d] = <<>> => currentController[d] = 0
  BY DEF DIDIInv, DIDTypeOK, DIDInv, Distinct
<1>2. ASSUME controllers[d] # <<>>
      PROVE  /\ GetController(d) = controllers[d][currentController[d] + 1]
             /\ Listed(d, GetController(d))
             /\ GetController(d) \in Address
  <2>1. GetController(d) = controllers[d][currentController[d] + 1]
    BY <1>1, <1>2, SlotInside DEF GetController
  <2>2. /\ currentController[d] + 1 \in 1..Len(controllers[d])
        /\ currentController[d] + 1 \in DOMAIN controllers[d]
    BY <1>1, <1>2
  <2> QED BY <1>1, <2>1, <2>2, ElementOfSeq DEF Listed, Range
<1> QED BY <1>1, <1>2

\* The index _getControllerIndex finds for a listed address is that address's.
LEMMA IndexOfListed ==
  ASSUME DIDIInv, NEW d \in DID, NEW a, Listed(d, a)
  PROVE  /\ ControllerIndex(d, a) \in 1..Len(controllers[d])
         /\ controllers[d][ControllerIndex(d, a)] = a
<1>1. DOMAIN controllers[d] = 1..Len(controllers[d])
  BY ListInv
<1>2. \E i \in 1..Len(controllers[d]) : controllers[d][i] = a
  BY <1>1 DEF Listed, Range
<1> QED BY <1>2 DEF ControllerIndex

------------------------------------------------------------------------------
\* What a step may do to the list and index of one identity: keep the inductive
\* invariant, change the members or the current controller but not both, and
\* leave an identity alone that address(0) acts for.
Kept(d) ==
  /\ controllers'[d] = controllers[d]
  /\ currentController'[d] = currentController[d]

\* AddController, for its identity and for the others.
LEMMA AddStep ==
  ASSUME DIDIInv, NEW d \in DID, NEW actor \in Account, NEW a \in Address,
         AddController(d, actor, a)
  PROVE  /\ DIDIInv'
         /\ \A e \in DID \ {d} : Kept(e)
         /\ currentController' = currentController
         /\ \/ controllers' = controllers
            \/ /\ controllers[d] = <<>>
               /\ Range(controllers'[d]) = {a}
               /\ GetController(d)' = a
            \/ /\ IsController(d, actor)
               /\ controllers[d] # <<>>
               /\ Range(controllers'[d]) = Range(controllers[d]) \cup {a}
               /\ GetController(d)' = GetController(d)
         /\ controllers'[d] # <<>>
<1> DEFINE list == controllers[d]
           current == currentController[d]
<1>1. CASE Listed(d, a) /\ UNCHANGED <<controllers, currentController>>
  <2>1. DIDIInv'
    BY <1>1 DEF DIDIInv, DIDTypeOK, DIDInv
  <2>2. list # <<>>
    <3>1. CASE list = <<>>
      BY <1>1, <3>1 DEF Listed, Range
    <3> QED BY <3>1
  <2> QED BY <1>1, <2>1, <2>2 DEF Kept
<1>2. CASE ~Listed(d, a) /\ controllers' = [controllers EXCEPT ![d] = Append(@, a)]
  <2>1. /\ list \in Seq(Address)
        /\ Distinct(list)
        /\ current \in Nat
        /\ list # <<>> => current < Len(list)
        /\ list # <<>> => GetController(d) = list[current + 1]
        /\ list = <<>> => current = 0
    BY ListInv
  <2>2. controllers'[d] = Append(list, a) /\ currentController' = currentController
    BY <1>2 DEF AddController, DIDIInv, DIDTypeOK
  <2>3. \A e \in DID \ {d} : Kept(e)
    BY <1>2, <2>2 DEF Kept, DIDIInv, DIDTypeOK
  <2>4. /\ controllers'[d] \in Seq(Address)
        /\ Len(controllers'[d]) = Len(list) + 1
        /\ \A j \in 1..Len(list) : controllers'[d][j] = list[j]
        /\ Distinct(controllers'[d])
        /\ Range(controllers'[d]) = Range(list) \cup {a}
    BY <1>2, <2>1, <2>2, AppendToList DEF Listed
  <2>5. current < Len(controllers'[d])
    <3>1. CASE list = <<>>
      BY <2>1, <2>4, <3>1
    <3>2. CASE list # <<>>
      <4>1. Len(list) \in Nat
        BY <2>1
      <4> QED BY <2>1, <2>4, <3>2, <4>1
    <3> QED BY <3>1, <3>2
  <2>6. GetController(d)' = controllers'[d][current + 1] /\ controllers'[d] # <<>>
    BY <2>1, <2>2, <2>4, <2>5, SlotInside DEF GetController
  <2>7. DIDIInv'
    <3>1. DIDTypeOK'
      BY <1>2, <2>2, <2>4 DEF DIDIInv, DIDTypeOK
    <3>2. DIDInv'
      <4> SUFFICES ASSUME NEW e \in DID
                   PROVE  /\ Distinct(controllers'[e])
                          /\ controllers'[e] # <<>> =>
                               currentController'[e] < Len(controllers'[e])
                          /\ controllers'[e] = <<>> => currentController'[e] = 0
        BY DEF DIDInv, Distinct
      <4>1. CASE e = d
        BY <2>2, <2>4, <2>5, <2>6, <4>1
      <4>2. CASE e # d
        BY <2>3, <4>2 DEF DIDIInv, DIDInv, Distinct, Kept
      <4> QED BY <4>1, <4>2
    <3> QED BY <3>1, <3>2 DEF DIDIInv
  <2>8. CASE list = <<>>
    <3>1. Range(list) = {}
      BY <2>8 DEF Range
    <3>2. Append(list, a)[1] = a
      BY <2>8
    <3> QED BY <2>1, <2>2, <2>3, <2>4, <2>6, <2>7, <2>8, <3>1, <3>2
  <2>9. CASE list # <<>>
    <3>1. IsController(d, actor)
      BY <2>9 DEF AddController
    <3>2. current + 1 \in 1..Len(list)
      BY <2>1, <2>9
    <3>3. GetController(d)' = GetController(d)
      BY <2>1, <2>4, <2>6, <2>9, <3>2
    <3> QED BY <2>2, <2>3, <2>4, <2>6, <2>7, <2>9, <3>1, <3>3
  <2> QED BY <2>8, <2>9
<1> QED BY <1>1, <1>2 DEF AddController

\* RemoveController: the head of the list stays, the removed address leaves it.
LEMMA RemoveStep ==
  ASSUME DIDIInv, NEW d \in DID, NEW actor \in Account, NEW a \in Address,
         RemoveController(d, actor, a)
  PROVE  /\ DIDIInv'
         /\ \A e \in DID \ {d} : Kept(e)
         /\ IsController(d, actor)
         /\ Listed(d, a) /\ a # GetController(d)
         /\ controllers'[d] # <<>>
         /\ Range(controllers'[d]) = Range(controllers[d]) \ {a}
         /\ GetController(d)' = GetController(d)
<1> DEFINE list == controllers[d]
           current == currentController[d]
           len == Len(list)
           index == ControllerIndex(d, a)
           moved == [list EXCEPT ![index] = list[len]]
           newCurrent == IF list[len] = ControllerIn(moved, current)
                         THEN index - 1 ELSE current
<1>1. /\ IsController(d, actor) /\ Listed(d, a) /\ GetController(d) # a /\ len > 1
      /\ controllers' = [controllers EXCEPT ![d] = SwapRemove(list, index)]
      /\ currentController' =
           IF list[len] = ControllerIn(moved, current)
           THEN [currentController EXCEPT ![d] = index - 1]
           ELSE currentController
  BY DEF RemoveController, SwapRemove
<1>2. /\ list \in Seq(Address)
      /\ Distinct(list)
      /\ current \in Nat
      /\ len \in Nat
      /\ list # <<>>
  BY <1>1, ListInv
<1>3. /\ current < len
      /\ GetController(d) = list[current + 1]
  BY <1>2, ListInv
<1>4. index \in 1..len /\ list[index] = a
  BY <1>1, IndexOfListed
<1>5. /\ controllers'[d] = SwapRemove(list, index)
      /\ currentController'[d] = newCurrent
      /\ currentController' = [currentController EXCEPT ![d] = newCurrent]
      /\ \A e \in DID \ {d} : Kept(e)
  BY <1>1 DEF Kept, DIDIInv, DIDTypeOK
<1>6. /\ controllers'[d] \in Seq(Address)
      /\ Len(controllers'[d]) = len - 1
      /\ \A j \in 1..(len - 1) :
           controllers'[d][j] = IF j = index THEN list[len] ELSE list[j]
      /\ Distinct(controllers'[d])
      /\ Range(controllers'[d]) = Range(list) \ {a}
  <2> HIDE DEF list, index, moved, newCurrent
  <2> QED BY <1>2, <1>4, <1>5, SwapRemoveFromList
<1>7. index # current + 1
  BY <1>1, <1>3, <1>4
<1>8. ControllerIn(moved, current) = list[current + 1]
  <2>1. list[len] \in Address
    BY <1>1, <1>2, ElementOfSeq
  <2>2. /\ moved \in Seq(Address)
        /\ Len(moved) = len
        /\ \A j \in 1..len : moved[j] = IF j = index THEN list[len] ELSE list[j]
    BY <1>2, <1>4, <2>1, ExceptSeq
  <2>3. ControllerIn(moved, current) = moved[current + 1]
    BY <1>2, <1>3, <2>2, SlotInside
  <2>4. current + 1 \in 1..len
    <3> HIDE DEF len, current
    <3> QED BY <1>2, <1>3
  <2> QED BY <1>7, <2>2, <2>3, <2>4
\* The last entry is the current controller exactly when the index points to it.
<1>9. newCurrent = IF current + 1 = len THEN index - 1 ELSE current
  <2>1. /\ len \in 1..len /\ current + 1 \in 1..len
    <3> HIDE DEF len, current
    <3> QED BY <1>1, <1>2, <1>3
  <2>2. list[len] = list[current + 1] <=> current + 1 = len
    <3> HIDE DEF len, current, list
    <3>1. Distinct(list) /\ Len(list) = len
      BY <1>2 DEF len
    <3> QED BY <2>1, <3>1 DEF Distinct
  <2> QED BY <1>8, <2>2
<1>10. /\ newCurrent \in Nat
       /\ newCurrent < len - 1
       /\ controllers'[d][newCurrent + 1] = list[current + 1]
  <2> HIDE DEF len, current, list, index, newCurrent
  <2>1. CASE current + 1 = len
    <3>1. newCurrent = index - 1 /\ index \in 1..(len - 1)
      BY <1>2, <1>3, <1>4, <1>7, <1>9, <2>1
    <3> QED BY <1>1, <1>2, <1>6, <2>1, <3>1
  <2>2. CASE current + 1 # len
    <3>1. newCurrent = current /\ current + 1 \in 1..(len - 1)
      BY <1>2, <1>3, <1>9, <2>2
    <3> QED BY <1>2, <1>6, <1>7, <3>1
  <2> QED BY <2>1, <2>2
<1>11. GetController(d)' = GetController(d) /\ controllers'[d] # <<>>
  <2>1. currentController'[d] \in Nat /\ currentController'[d] < Len(controllers'[d])
    BY <1>5, <1>6, <1>10
  <2> QED BY <1>3, <1>5, <1>6, <1>10, <2>1, SlotInside DEF GetController
<1>12. DIDIInv'
  <2>1. DIDTypeOK'
    BY <1>1, <1>5, <1>6, <1>10 DEF DIDIInv, DIDTypeOK
  <2>2. DIDInv'
    <3> SUFFICES ASSUME NEW e \in DID
                 PROVE  /\ Distinct(controllers'[e])
                        /\ controllers'[e] # <<>> =>
                             currentController'[e] < Len(controllers'[e])
                        /\ controllers'[e] = <<>> => currentController'[e] = 0
      BY DEF DIDInv, Distinct
    <3>1. CASE e = d
      BY <1>5, <1>6, <1>10, <1>11, <3>1
    <3>2. CASE e # d
      BY <1>5, <3>2 DEF DIDIInv, DIDInv, Distinct, Kept
    <3> QED BY <3>1, <3>2
  <2> QED BY <2>1, <2>2 DEF DIDIInv
<1> HIDE DEF len, current, list, index, newCurrent, moved
<1> QED BY <1>1, <1>5, <1>6, <1>11, <1>12 DEF list

\* ChangeController: the list stays, a listed address becomes the current one.
LEMMA ChangeStep ==
  ASSUME DIDIInv, NEW d \in DID, NEW actor \in Account, NEW a \in Address,
         ChangeController(d, actor, a)
  PROVE  /\ DIDIInv'
         /\ \A e \in DID \ {d} : Kept(e)
         /\ controllers' = controllers
         /\ IsController(d, actor)
         /\ Listed(d, a)
         /\ controllers[d] # <<>>
         /\ GetController(d)' = a
<1> DEFINE list == controllers[d]
           index == ControllerIndex(d, a)
<1>1. /\ IsController(d, actor) /\ Listed(d, a)
      /\ currentController' = [currentController EXCEPT ![d] = index - 1]
      /\ controllers' = controllers
  BY DEF ChangeController
<1>2. /\ list \in Seq(Address) /\ Len(list) \in Nat
      /\ list # <<>>
  BY <1>1, ListInv DEF IsController, IdentityFound, Found
<1>3. index \in 1..Len(list) /\ list[index] = a
  BY <1>1, IndexOfListed
<1>4. /\ currentController'[d] = index - 1
      /\ \A e \in DID \ {d} : Kept(e)
  BY <1>1 DEF Kept, DIDIInv, DIDTypeOK
<1>5. index - 1 \in Nat /\ index - 1 < Len(list) /\ (index - 1) + 1 = index
  <2> HIDE DEF index, list
  <2> QED BY <1>2, <1>3
<1>6. GetController(d)' = a
  BY <1>1, <1>2, <1>3, <1>4, <1>5, SlotInside DEF GetController
<1>7. DIDIInv'
  <2>1. DIDTypeOK'
    BY <1>1, <1>5 DEF DIDIInv, DIDTypeOK
  <2>2. DIDInv'
    <3> SUFFICES ASSUME NEW e \in DID
                 PROVE  /\ Distinct(controllers'[e])
                        /\ controllers'[e] # <<>> =>
                             currentController'[e] < Len(controllers'[e])
                        /\ controllers'[e] = <<>> => currentController'[e] = 0
      BY DEF DIDInv, Distinct
    <3>1. CASE e = d
      BY <1>1, <1>2, <1>4, <1>5, <3>1 DEF DIDIInv, DIDInv, Distinct
    <3>2. CASE e # d
      BY <1>4, <3>2 DEF DIDIInv, DIDInv, Distinct, Kept
    <3> QED BY <3>1, <3>2
  <2> QED BY <2>1, <2>2 DEF DIDIInv
<1> QED BY <1>1, <1>2, <1>4, <1>6, <1>7

------------------------------------------------------------------------------
LEMMA InitHolds == DIDInit => DIDIInv
<1> SUFFICES ASSUME DIDInit PROVE DIDIInv
  OBVIOUS
<1>1. ASSUME NEW d \in DID
      PROVE  \/ controllers[d] = <<>>
             \/ \E a \in Address : controllers[d] = <<a>>
  BY DEF DIDInit
<1>2. DIDTypeOK
  <2>1. <<>> \in Seq(Address) /\ \A a \in Address : <<a>> \in Seq(Address)
    OBVIOUS
  <2>2. \A d \in DID : controllers[d] \in Seq(Address)
    BY <1>1, <2>1
  <2> QED BY <2>2 DEF DIDInit, DIDTypeOK
<1>3. DIDInv
  BY <1>1 DEF DIDInit, DIDInv
<1> QED BY <1>2, <1>3 DEF DIDIInv

LEMMA StepKeeps == DIDIInv /\ [DIDNext]_didVars => DIDIInv'
<1> SUFFICES ASSUME DIDIInv, [DIDNext]_didVars PROVE DIDIInv'
  OBVIOUS
<1>1. CASE UNCHANGED didVars
  BY <1>1 DEF DIDIInv, DIDTypeOK, DIDInv, didVars
<1>2. ASSUME NEW d \in DID, NEW actor \in Account, NEW a \in Address
      PROVE  /\ AddController(d, actor, a) => DIDIInv'
             /\ RemoveController(d, actor, a) => DIDIInv'
             /\ ChangeController(d, actor, a) => DIDIInv'
  BY AddStep, RemoveStep, ChangeStep
<1> QED BY <1>1, <1>2 DEF DIDNext

\* The lists keep their type and no address is listed twice; the index of the
\* current controller stays inside its list (SimpleDIDRegistry.sol).
THEOREM RegistryInvariant == DIDSpec => []DIDIInv
<1>1. DIDInit => DIDIInv
  BY InitHolds
<1>2. DIDIInv /\ [DIDNext]_didVars => DIDIInv'
  BY StepKeeps
<1> QED BY <1>1, <1>2, PTL DEF DIDSpec

\* Lists and indices have their types (SimpleDIDRegistry.sol).
THEOREM RegistryTypeOK == DIDSpec => []DIDTypeOK
<1>1. DIDIInv => DIDTypeOK
  BY DEF DIDIInv
<1> QED BY <1>1, RegistryInvariant, PTL

\* DIDInv holds in every state of the registry.
THEOREM RegistryListsDistinct == DIDSpec => []DIDInv
<1>1. DIDIInv => DIDInv
  BY DEF DIDIInv
<1> QED BY <1>1, RegistryInvariant, PTL

------------------------------------------------------------------------------
\* Adding or removing a controller leaves the current one in place, and only a
\* listed address becomes the current one.
THEOREM RegistryControllerStable == DIDSpec => ControllerStable
<1> DEFINE Stable(d) ==
      controllers[d] # <<>> =>
        /\ controllers'[d] # <<>>
        /\ \/ GetController(d)' = GetController(d)
           \/ controllers'[d] = controllers[d] /\ Listed(d, GetController(d)')
<1>1. DIDIInv /\ [DIDNext]_didVars => [\A d \in DID : Stable(d)]_didVars
  <2> SUFFICES ASSUME DIDIInv, DIDNext, NEW d \in DID PROVE Stable(d)
    OBVIOUS
  <2>0. Kept(d) => Stable(d)
    BY DEF Kept, GetController
  <2>1. PICK e \in DID, actor \in Account, a \in Address :
          \/ AddController(e, actor, a)
          \/ RemoveController(e, actor, a)
          \/ ChangeController(e, actor, a)
    BY DEF DIDNext
  <2>2. CASE e # d
    BY <2>0, <2>1, <2>2, AddStep, RemoveStep, ChangeStep
  <2>3. CASE e = d /\ AddController(e, actor, a)
    <3>1. controllers' = controllers /\ currentController' = currentController
            => Stable(d)
      BY DEF GetController
    <3> QED BY <2>3, <3>1, AddStep
  <2>4. CASE e = d /\ RemoveController(e, actor, a)
    BY <2>4, RemoveStep
  <2>5. CASE e = d /\ ChangeController(e, actor, a)
    BY <2>5, ChangeStep
  <2> QED BY <2>1, <2>2, <2>3, <2>4, <2>5
<1> QED BY <1>1, RegistryInvariant, PTL DEF DIDSpec, ControllerStable

LEMMA LockedStep ==
  ASSUME DIDIInv, [DIDNext]_didVars, NEW d \in DID,
         controllers[d] # <<>>, GetController(d) = ZeroAddress
  PROVE  controllers'[d] = controllers[d] /\ GetController(d)' = ZeroAddress
<1>0. Kept(d) => controllers'[d] = controllers[d] /\ GetController(d)' = ZeroAddress
  BY DEF Kept, GetController
<1>1. CASE UNCHANGED didVars
  BY <1>1 DEF didVars, GetController
<1>2. CASE DIDNext
  <2>1. PICK e \in DID, actor \in Account, a \in Address :
          \/ AddController(e, actor, a)
          \/ RemoveController(e, actor, a)
          \/ ChangeController(e, actor, a)
    BY <1>2 DEF DIDNext
  <2>2. CASE e # d
    BY <1>0, <2>1, <2>2, AddStep, RemoveStep, ChangeStep
  <2>3. CASE e = d
    <3>1. controllers[d] = <<>> \/ IsController(d, actor)
      BY <2>1, <2>3, AddStep DEF AddController, RemoveController, ChangeController
    <3>2. IsController(d, actor) => GetController(d) # ZeroAddress
      BY ZeroAssumption DEF IsController
    <3> QED BY <3>1, <3>2
  <2> QED BY <2>2, <2>3
<1> QED BY <1>1, <1>2

\* An identity address(0) acts for is never changed again: address(0) sends
\* nothing, and every operation on a list that is not empty asks its controller.
THEOREM RegistryLockedForever == DIDSpec => LockedForever
<1>1. DIDIInv /\ [DIDNext]_didVars =>
        [\A d \in DID : controllers[d] # <<>> /\ GetController(d) = ZeroAddress =>
           controllers'[d] = controllers[d] /\ GetController(d)' = ZeroAddress]_didVars
  BY LockedStep
<1> QED BY <1>1, RegistryInvariant, PTL DEF DIDSpec, LockedForever

------------------------------------------------------------------------------
\* The set and head ControllerSet gives an identity.
Members == [d \in DID |-> Range(controllers[d])]
HeadOf == [d \in DID |-> IF controllers[d] = <<>> THEN ZeroAddress
                                                  ELSE GetController(d)]

LEMMA MembersEmpty ==
  ASSUME DIDIInv, NEW d \in DID
  PROVE  Range(controllers[d]) = {} <=> controllers[d] = <<>>
<1>1. controllers[d] = <<>> => Range(controllers[d]) = {}
  BY DEF Range
<1>2. controllers[d] # <<>> => Range(controllers[d]) # {}
  BY ListInv DEF Listed
<1> QED BY <1>1, <1>2

LEMMA PromiseInit == DIDInit => Promise!CSInit
<1> SUFFICES ASSUME DIDInit PROVE Promise!CSInit
  OBVIOUS
<1>1. DIDIInv
  BY InitHolds
<1>2. ASSUME NEW d \in DID
      PROVE  /\ Members[d] \in {{}} \cup {{a} : a \in Address}
             /\ HeadOf[d] \in Address
             /\ Members[d] = {} => HeadOf[d] = ZeroAddress
             /\ Members[d] # {} => HeadOf[d] \in Members[d]
  <2>1. CASE controllers[d] = <<>>
    BY <2>1 DEF Members, HeadOf, Range, Address
  <2>2. CASE controllers[d] # <<>>
    <3>1. PICK a \in Address : controllers[d] = <<a>>
      BY <2>2 DEF DIDInit
    <3>2. Range(controllers[d]) = {a}
      BY <3>1 DEF Range
    <3> QED BY <1>1, <2>2, <3>2, ListInv DEF Members, HeadOf, Listed
  <2> QED BY <2>1, <2>2
<1>3. /\ Members \in [DID -> {{}} \cup {{a} : a \in Address}]
      /\ HeadOf \in [DID -> Address]
  <2>1. Members = [d \in DID |-> Members[d]] /\ HeadOf = [d \in DID |-> HeadOf[d]]
    BY DEF Members, HeadOf
  <2> QED BY <1>2, <2>1
<1>4. \A d \in DID : IF Members[d] = {} THEN HeadOf[d] = ZeroAddress
                                        ELSE HeadOf[d] \in Members[d]
  BY <1>2
<1> QED BY <1>3, <1>4 DEF Promise!CSInit, Promise!Address, Address, Members, HeadOf

\* A step that changes the set and head of d alone, and how, in terms of Members
\* and HeadOf.
LEMMA MappedUpdate ==
  ASSUME DIDIInv, NEW d \in DID, NEW m, NEW h,
         \A e \in DID \ {d} : Kept(e),
         controllers'[d] # <<>>, Range(controllers'[d]) = m, GetController(d)' = h
  PROVE  /\ Members' = [Members EXCEPT ![d] = m]
         /\ HeadOf' = [HeadOf EXCEPT ![d] = h]
<1>1. \A e \in DID : Members'[e] = IF e = d THEN m ELSE Members[e]
  BY DEF Members, Kept
<1>2. \A e \in DID : HeadOf'[e] = IF e = d THEN h ELSE HeadOf[e]
  BY DEF HeadOf, Kept, GetController
<1>3. Members' = [e \in DID |-> Members'[e]] /\ HeadOf' = [e \in DID |-> HeadOf'[e]]
  BY DEF Members, HeadOf
<1>4. /\ [Members EXCEPT ![d] = m] = [e \in DID |-> IF e = d THEN m ELSE Members[e]]
      /\ [HeadOf EXCEPT ![d] = h] = [e \in DID |-> IF e = d THEN h ELSE HeadOf[e]]
  BY DEF Members, HeadOf
<1>5. Members' = [e \in DID |-> IF e = d THEN m ELSE Members[e]]
  <2>1. [e \in DID |-> Members'[e]] = [e \in DID |-> IF e = d THEN m ELSE Members[e]]
    BY <1>1
  <2> QED BY <1>3, <2>1
<1>6. HeadOf' = [e \in DID |-> IF e = d THEN h ELSE HeadOf[e]]
  <2>1. [e \in DID |-> HeadOf'[e]] = [e \in DID |-> IF e = d THEN h ELSE HeadOf[e]]
    BY <1>2
  <2> QED BY <1>3, <2>1
<1> QED BY <1>4, <1>5, <1>6

LEMMA MappedIdentity ==
  ASSUME DIDIInv, NEW d \in DID
  PROVE  /\ Members[d] = Range(controllers[d])
         /\ Members[d] = {} <=> controllers[d] = <<>>
         /\ controllers[d] # <<>> => HeadOf[d] = GetController(d)
         /\ Members = [Members EXCEPT ![d] = Members[d]]
         /\ HeadOf = [HeadOf EXCEPT ![d] = HeadOf[d]]
BY MembersEmpty DEF Members, HeadOf

LEMMA PromiseStep ==
  DIDIInv /\ [DIDNext]_didVars => [Promise!CSNext]_(Promise!csVars)
<1> SUFFICES ASSUME DIDIInv, [DIDNext]_didVars
             PROVE  Promise!CSNext \/ UNCHANGED <<Members, HeadOf>>
  BY DEF Promise!csVars, Members, HeadOf
<1>1. CASE UNCHANGED didVars
  BY <1>1 DEF didVars, Members, HeadOf, GetController
<1>2. CASE DIDNext
  <2>1. PICK d \in DID, actor \in Account, a \in Address :
          \/ AddController(d, actor, a)
          \/ RemoveController(d, actor, a)
          \/ ChangeController(d, actor, a)
    BY <1>2 DEF DIDNext
  <2> DEFINE ActsFor == Members[d] # {} /\ HeadOf[d] = actor
  <2>2. IsController(d, actor) => ActsFor
    BY MappedIdentity DEF IsController, IdentityFound, Found
  <2>3. CASE AddController(d, actor, a)
    <3>1. CASE controllers' = controllers
      BY <2>3, <3>1, AddStep DEF Members, HeadOf, GetController
    <3>2. CASE /\ controllers[d] = <<>>
               /\ Range(controllers'[d]) = {a}
               /\ GetController(d)' = a
      <4>1. /\ Members[d] = {}
            /\ Members' = [Members EXCEPT ![d] = {a}]
            /\ HeadOf' = [HeadOf EXCEPT ![d] = a]
        BY <2>3, <3>2, AddStep, MappedIdentity, MappedUpdate
      <4>2. Promise!Claim(d, a)
        BY <4>1 DEF Promise!Claim, Members, HeadOf
      <4> QED BY <4>2 DEF Promise!CSNext, Promise!Address, Address
    <3>3. CASE /\ IsController(d, actor)
               /\ controllers[d] # <<>>
               /\ Range(controllers'[d]) = Range(controllers[d]) \cup {a}
               /\ GetController(d)' = GetController(d)
      <4>1. /\ Members' = [Members EXCEPT ![d] = Members[d] \cup {a}]
            /\ HeadOf' = HeadOf
        <5>1. /\ Members' = [Members EXCEPT ![d] = Members[d] \cup {a}]
              /\ HeadOf' = [HeadOf EXCEPT ![d] = HeadOf[d]]
          BY <2>3, <3>3, AddStep, MappedIdentity, MappedUpdate
        <5> QED BY <5>1, MappedIdentity
      <4>2. Promise!Enlist(d, actor, a)
        BY <2>2, <3>3, <4>1 DEF Promise!Enlist, Promise!Acts, Members, HeadOf
      <4> QED BY <4>2 DEF Promise!CSNext, Promise!Address, Address
    <3> QED BY <2>3, <3>1, <3>2, <3>3, AddStep
  <2>4. CASE RemoveController(d, actor, a)
    <3>1. /\ IsController(d, actor)
          /\ controllers[d] # <<>>
          /\ a \in Members[d] \ {HeadOf[d]}
      BY <2>4, RemoveStep, MappedIdentity DEF Listed, IsController, IdentityFound, Found
    <3>2. /\ Members' = [Members EXCEPT ![d] = Members[d] \ {a}]
          /\ HeadOf' = HeadOf
      <4>1. /\ Members' = [Members EXCEPT ![d] = Members[d] \ {a}]
            /\ HeadOf' = [HeadOf EXCEPT ![d] = HeadOf[d]]
        BY <2>4, <3>1, RemoveStep, MappedIdentity, MappedUpdate
      <4> QED BY <4>1, MappedIdentity
    <3>3. Promise!Dismiss(d, actor, a)
      BY <2>2, <3>1, <3>2 DEF Promise!Dismiss, Promise!Acts, Members, HeadOf
    <3> QED BY <3>3 DEF Promise!CSNext, Promise!Address, Address
  <2>5. CASE ChangeController(d, actor, a)
    <3>1. IsController(d, actor) /\ a \in Members[d]
      BY <2>5, ChangeStep, MappedIdentity DEF Listed
    <3>2. /\ Members' = Members
          /\ HeadOf' = [HeadOf EXCEPT ![d] = a]
      <4>1. /\ Members' = [Members EXCEPT ![d] = Members[d]]
            /\ HeadOf' = [HeadOf EXCEPT ![d] = a]
        BY <2>5, ChangeStep, MappedIdentity, MappedUpdate
      <4> QED BY <4>1, MappedIdentity
    <3>3. Promise!HandOver(d, actor, a)
      BY <2>2, <3>1, <3>2 DEF Promise!HandOver, Promise!Acts, Members, HeadOf
    <3> QED BY <3>3 DEF Promise!CSNext, Promise!Address, Address
  <2> QED BY <2>1, <2>3, <2>4, <2>5
<1> QED BY <1>1, <1>2

\* Every behaviour of the registry's lists and indices is one of ControllerSet.
THEOREM RegistryImplements == DIDSpec => ImplementsControllerSet
<1>1. DIDInit => Promise!CSInit
  BY PromiseInit
<1>2. DIDIInv /\ [DIDNext]_didVars => [Promise!CSNext]_(Promise!csVars)
  BY PromiseStep
<1> QED BY <1>1, <1>2, RegistryInvariant, PTL
        DEF DIDSpec, ImplementsControllerSet, Promise!CSSpec
===============================================================================
