-------------------------------- MODULE Wallet --------------------------------
(***************************************************************************)
(* core/service/rpc: the one Ethereum account all calls of the service     *)
(* share.  A call asks the node for the next nonce and a gas price in one  *)
(* step and sends its transaction in a later one, so that two calls can    *)
(* hold the same nonce; nothing in the service serialises them.  The       *)
(* node's pool and the chain are external: the pool holds one transaction  *)
(* a nonce and takes another in its place only at a higher price.          *)
(***************************************************************************)
EXTENDS Naturals, Sequences

CONSTANTS Call,    \* the calls of the service; each sends one transaction
          Price    \* the gas prices the node suggests

ASSUME PriceAssumption == Price \subseteq Nat

VARIABLES options,   \* options[c]: nonce and gas price of call c, once it has them
          pending,   \* pending transactions in nonce order, by the calls that sent them
          ledger     \* mined transactions in nonce order: whose, and whether it succeeded

walletVars == <<options, pending, ledger>>

NoOptions == [nonce |-> 0, price |-> 0]

WalletInit ==
  /\ options = [c \in Call |-> NoOptions]
  /\ pending = <<>>
  /\ ledger = <<>>

\* PendingNonceAt: one past every mined and pending transaction.
PendingNonceAt == Len(ledger) + Len(pending)

ToTransactOpts(c) ==
  \E price \in Price :
    options' = [options EXCEPT ![c] = [nonce |-> PendingNonceAt, price |-> price]]

\* Where the transaction of c stands, or would stand, in the pool.
Slot(c) == options[c].nonce + 1 - Len(ledger)

\* The node refuses a nonce that is mined and a replacement that pays no more.
Accepts(c) ==
  \/ options[c].nonce = PendingNonceAt
  \/ /\ Slot(c) \in DOMAIN pending
     /\ options[c].price > options[pending[Slot(c)]].price

SendTransaction(c) ==
  /\ Accepts(c)
  /\ pending' = IF Slot(c) \in DOMAIN pending THEN [pending EXCEPT ![Slot(c)] = c]
                ELSE Append(pending, c)

\* The next pending transaction enters a block.
Mine(ok) ==
  /\ ledger' = Append(ledger, [call |-> Head(pending), ok |-> ok])
  /\ pending' = Tail(pending)

\* MUTANT of Receipt: looks at the nonce, whoever's transaction took it.
Receipt_ByNonce(c, ok) ==
  /\ options[c].nonce < Len(ledger)
  /\ ledger[options[c].nonce + 1].ok = ok

\* MUTANT of Receipt: a transaction that failed has none.
Receipt_OfSuccess(c, ok) == ok /\ [call |-> c, ok |-> ok] \in {ledger[i] : i \in DOMAIN ledger}

\* WaitMined polls for the receipt of the very transaction it sent.
Receipt(c, ok) == \E i \in DOMAIN ledger : ledger[i] = [call |-> c, ok |-> ok]

\* A call that waits for a transaction another one has replaced: it has no
\* deadline, so that it waits until the server stops.
TakenOver(c) ==
  /\ \A i \in DOMAIN pending : pending[i] # c
  /\ \A i \in DOMAIN ledger : ledger[i].call # c
==============================================================================
