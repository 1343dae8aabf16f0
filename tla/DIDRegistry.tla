----------------------------- MODULE DIDRegistry -----------------------------
(***************************************************************************)
(* contracts/src/SimpleDIDRegistry.sol: for every identity (DID) a list of *)
(* controller addresses without duplicates and the index of the current    *)
(* one, the only address that acts for the identity.  A transaction is one *)
(* step; a call the contract reverts is no step.                           *)
(***************************************************************************)
EXTENDS Naturals, Sequences, Functions

CONSTANTS DID,             \* identities, registered or not
          Account,         \* addresses that can send a transaction
          ZeroAddress,     \* address(0): may be listed, never sends
          MaxControllers   \* bound: length of a list the model explores

ASSUME ZeroAssumption == ZeroAddress \notin Account
ASSUME MaxControllersAssumption == MaxControllers \in Nat \ {0}

VARIABLES controllers,       \* controllers[d]: the list of d
          currentController  \* configs[d].currentController, from 0

didVars == <<controllers, currentController>>

Address == Account \cup {ZeroAddress}

DIDTypeOK ==
  /\ controllers \in [DID -> Seq(Address)]
  /\ currentController \in [DID -> Nat]

------------------------------------------------------------------------------
\* getController over a list and an index: the first entry when the list has
\* one or the index is out of range, and a revert for an empty list and for
\* address(0) in a longer one.
Slot(list, current) ==
  IF Len(list) = 1 \/ current >= Len(list) THEN 1 ELSE current + 1

ControllerIn(list, current) == list[Slot(list, current)]

Found(list, current) ==
  /\ list # <<>>
  /\ Len(list) = 1 \/ ControllerIn(list, current) # ZeroAddress

\* TRUE unless getController(d) reverts.
IdentityFound(d) == Found(controllers[d], currentController[d])

GetController(d) == ControllerIn(controllers[d], currentController[d])

\* isController returns TRUE (it may also return FALSE, or revert).
IsController(d, actor) == IdentityFound(d) /\ actor = GetController(d)

Listed(d, a) == a \in Range(controllers[d])

\* _getControllerIndex, from 1, for an address that is listed.
ControllerIndex(d, a) ==
  CHOOSE i \in 1..Len(controllers[d]) : controllers[d][i] = a

------------------------------------------------------------------------------
\* The constructor adds a controller to each identity it is given; an identity
\* given twice is left to a later transaction of the deployer.
DIDInit ==
  /\ controllers \in [DID -> {<<>>} \cup {<<a>> : a \in Address}]
  /\ currentController = [d \in DID |-> 0]

\* MUTANT of AddController: forgets to look for the address in the list.
AddController_Twice(d, actor, new) ==
  /\ controllers[d] = <<>> \/ IsController(d, actor)
  /\ Len(controllers[d]) < MaxControllers
  /\ controllers' = [controllers EXCEPT ![d] = Append(@, new)]
  /\ UNCHANGED currentController

\* MUTANT of AddController: any account may add to a list that is not empty.
AddController_Anyone(d, actor, new) ==
  /\ Len(controllers[d]) < MaxControllers
  /\ ~Listed(d, new)
  /\ controllers' = [controllers EXCEPT ![d] = Append(@, new)]
  /\ UNCHANGED currentController

AddController(d, actor, new) ==
  /\ controllers[d] = <<>> \/ IsController(d, actor)
  /\ \/ Listed(d, new) /\ UNCHANGED controllers
     \/ /\ ~Listed(d, new)
        /\ Len(controllers[d]) < MaxControllers
        /\ controllers' = [controllers EXCEPT ![d] = Append(@, new)]
  /\ UNCHANGED currentController

\* MUTANT of RemoveController: moves the last entry without its index.
RemoveController_NoFixup(d, actor, a) ==
  /\ IsController(d, actor)
  /\ Len(controllers[d]) > 1
  /\ GetController(d) # a
  /\ Listed(d, a)
  /\ LET len == Len(controllers[d])
         moved == [controllers[d] EXCEPT ![ControllerIndex(d, a)] = controllers[d][len]]
     IN controllers' = [controllers EXCEPT ![d] = SubSeq(moved, 1, len - 1)]
  /\ UNCHANGED currentController

\* The last entry takes the place of the removed one; when it is the current
\* controller, found in the list as it is by then, the index follows it.
RemoveController(d, actor, a) ==
  /\ IsController(d, actor)
  /\ Len(controllers[d]) > 1
  /\ GetController(d) # a
  /\ Listed(d, a)
  /\ LET len == Len(controllers[d])
         last == controllers[d][len]
         index == ControllerIndex(d, a)
         moved == [controllers[d] EXCEPT ![index] = last]
     IN /\ controllers' = [controllers EXCEPT ![d] = SubSeq(moved, 1, len - 1)]
        /\ currentController' =
             IF last = ControllerIn(moved, currentController[d])
             THEN [currentController EXCEPT ![d] = index - 1]
             ELSE currentController

ChangeController(d, actor, new) ==
  /\ IsController(d, actor)
  /\ Listed(d, new)
  /\ currentController' = [currentController EXCEPT ![d] = ControllerIndex(d, new) - 1]
  /\ UNCHANGED controllers

DIDNext ==
  \E d \in DID, actor \in Account, a \in Address :
    \/ AddController(d, actor, a)
    \/ RemoveController(d, actor, a)
    \/ ChangeController(d, actor, a)

DIDSpec == DIDInit /\ [][DIDNext]_didVars

------------------------------------------------------------------------------
\* No address is listed twice for an identity (_getControllerIndex stops at
\* the first match, so a second entry could never be removed) and the index of
\* the current controller stays inside the list, through every removal that
\* moves the last entry.
DIDInv ==
  \A d \in DID :
    /\ \A i, j \in 1..Len(controllers[d]) :
         controllers[d][i] = controllers[d][j] => i = j
    /\ controllers[d] # <<>> => currentController[d] < Len(controllers[d])
    /\ controllers[d] = <<>> => currentController[d] = 0

\* The registry's list and index keep the promise of ControllerSet: the
\* members are the listed addresses and the head is what getController reads.
Promise == INSTANCE ControllerSet WITH
  members <- [d \in DID |-> Range(controllers[d])],
  head <- [d \in DID |-> IF controllers[d] = <<>> THEN ZeroAddress
                                                  ELSE GetController(d)]

ImplementsControllerSet == Promise!CSSpec

\* A step changes who acts for an identity or who is listed for it, never both:
\* adding and removing controllers leaves the current one in place, and only a
\* listed address becomes the current one.
ControllerStable ==
  [][\A d \in DID : controllers[d] # <<>> =>
       /\ controllers'[d] # <<>>
       /\ \/ GetController(d)' = GetController(d)
          \/ controllers'[d] = controllers[d] /\ Listed(d, GetController(d)')]_didVars

\* Once address(0) acts for an identity, because the current controller handed
\* over to it or claimed the identity for it, nobody changes that identity again.
LockedForever ==
  [][\A d \in DID : controllers[d] # <<>> /\ GetController(d) = ZeroAddress =>
       controllers'[d] = controllers[d] /\ GetController(d)' = ZeroAddress]_didVars
==============================================================================
